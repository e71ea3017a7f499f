------------------------- MODULE BackpressureProofs -------------------------
(***************************************************************************)
(* Theorems about the bounded channels of the subscription path, for every *)
(* number of handlers, requests and connections and for every capacity.    *)
(***************************************************************************)
EXTENDS Backpressure, FiniteSetTheorems, TLAPS

Mail == [type : Types, id : Ids]

\* What a connection is sending to a subscriber is about a subscription that
\* this connection has taken and that is still its own: live, or lost and
\* about to be told so.
SendsOwn ==
  \A c \in Conns : \A id \in task[c].sends :
    /\ at[id] = c /\ task[c].type \in Types
    /\ place[id] = IF task[c].type = "Disconnected" THEN "told" ELSE "live"

\* An unread Disconnected is about a lost subscription that no connection is
\* sending anything to, and it is the only one about it.
Lost(h, i) ==
  /\ i \in 1 .. Len(mailbox[h]) /\ mailbox[h][i].type = "Disconnected"
ToldOnce ==
  \A h \in Handlers : \A i \in 1 .. Len(mailbox[h]) : Lost(h, i) =>
    LET id == mailbox[h][i].id IN
    /\ place[id] = "told" /\ Owner[id] = h
    /\ \A c \in Conns : id \notin task[c].sends
    /\ \A j \in 1 .. Len(mailbox[h]) : Lost(h, j) /\ mailbox[h][j].id = id => j = i

\* A circle over the channel of the dispatcher is counted with SendsOwn; that a
\* subscription leaves "told" only when nothing is sent about it any more needs
\* ToldOnce.
BackpressureInv == TypeOK /\ SendsOwn /\ ToldOnce

-----------------------------------------------------------------------------
(* Facts about mailboxes and places                                        *)

\* A mailbox is a sequence of messages about subscription requests.
LEMMA MailType ==
  ASSUME TypeOK, NEW h \in Handlers
  PROVE  /\ mailbox[h] \in Seq(Mail) /\ Len(mailbox[h]) \in Nat
         /\ \A i \in 1 .. Len(mailbox[h]) :
              /\ mailbox[h][i] \in Mail
              /\ mailbox[h][i].type \in Types /\ mailbox[h][i].id \in Ids
<1>1. mailbox[h] \in Seq(Mail)
  BY DEF TypeOK, Mail
<1>2. Len(mailbox[h]) \in Nat /\ \A i \in 1 .. Len(mailbox[h]) : mailbox[h][i] \in Mail
  BY <1>1
<1>3. QED
  BY <1>1, <1>2 DEF Mail

\* Every set of requests is finite.
LEMMA FiniteIds ==
  ASSUME NEW S \in SUBSET Ids
  PROVE  IsFiniteSet(S) /\ Cardinality(S) \in Nat
BY BackpressureAssumption, FS_Subset, FS_CardinalityType

\* What moving requests to a place does to that place and to the others.
LEMMA MovePlaces ==
  ASSUME TypeOK, NEW S \in SUBSET Ids, NEW p \in Places, Move(S, p)
  PROVE  /\ place' \in [Ids -> Places]
         /\ \A id \in Ids : place'[id] = IF id \in S THEN p ELSE place[id]
         /\ In(p)' = In(p) \cup S
         /\ \A q \in Places \ {p} : In(q)' \in SUBSET In(q)
BY DEF TypeOK, Move, In

PlaceBounds ==
  /\ Cardinality(In("channel")) <= ChannelCapacity
  /\ Cardinality(In("queue")) <= QueueCapacity
  /\ Cardinality(In("blocked")) <= 1

\* A place that loses requests stays within its bound.
LEMMA FewerIn ==
  ASSUME NEW q \in Places, In(q)' \in SUBSET In(q), NEW n \in Nat,
         Cardinality(In(q)) <= n
  PROVE  Cardinality(In(q)') <= n
<1>1. In(q) \in SUBSET Ids /\ In(q)' \in SUBSET Ids
  BY DEF In
<1>2. IsFiniteSet(In(q)) /\ Cardinality(In(q)) \in Nat /\ Cardinality(In(q)') \in Nat
  BY <1>1, FiniteIds
<1>3. Cardinality(In(q)') <= Cardinality(In(q))
  BY <1>2, FS_Subset
<1>4. QED
  BY <1>2, <1>3

\* A request moves into a place with room for it.
LEMMA OneMoreIn ==
  ASSUME NEW q \in Places, NEW id \in Ids, In(q)' = In(q) \cup {id}, NEW n \in Nat,
         Cardinality(In(q)) < n
  PROVE  Cardinality(In(q)') <= n
<1>1. In(q) \in SUBSET Ids
  BY DEF In
<1>2. IsFiniteSet(In(q)) /\ Cardinality(In(q)) \in Nat
  BY <1>1, FiniteIds
<1>3. Cardinality(In(q) \cup {id}) \in {Cardinality(In(q)), Cardinality(In(q)) + 1}
  BY <1>2, FS_AddElement
<1>4. Cardinality(In(q)') \in {Cardinality(In(q)), Cardinality(In(q)) + 1}
  BY <1>3
<1>5. QED
  BY <1>2, <1>4

\* Requests that move to none of the bounded places keep the bounds.
LEMMA BoundsKept ==
  ASSUME TypeOK, NEW S \in SUBSET Ids,
         NEW p \in Places \ {"channel", "queue", "blocked"}, Move(S, p)
  PROVE  place' \in [Ids -> Places] /\ PlaceBounds'
<1>1. \A q \in {"channel", "queue", "blocked"} :
        q \in Places /\ In(q)' \in SUBSET In(q)
  BY MovePlaces DEF Places
<1>2. /\ Cardinality(In("channel")) <= ChannelCapacity
      /\ Cardinality(In("queue")) <= QueueCapacity
      /\ Cardinality(In("blocked")) <= 1
  BY DEF TypeOK
<1>3. ChannelCapacity \in Nat /\ QueueCapacity \in Nat /\ 1 \in Nat
  BY BackpressureAssumption
<1>4. /\ Cardinality(In("channel")') <= ChannelCapacity
      /\ Cardinality(In("queue")') <= QueueCapacity
      /\ Cardinality(In("blocked")') <= 1
  BY <1>1, <1>2, <1>3, FewerIn
<1>5. QED
  BY <1>4, MovePlaces DEF PlaceBounds

\* Requests in places where no connection sends to them may move to any place
\* but those.
LEMMA OutsideMoves ==
  ASSUME BackpressureInv, NEW S \in SUBSET Ids, NEW p \in Places, Move(S, p),
         \A id \in S : place[id] \notin {"live", "told"},
         UNCHANGED <<at, mailbox, task>>
  PROVE  SendsOwn' /\ ToldOnce'
<1>1. \A id \in Ids : place[id] \in {"live", "told"} => place'[id] = place[id]
  BY MovePlaces DEF BackpressureInv
<1>2. SendsOwn'
  <2>1. \A c \in Conns : task[c].sends \subseteq Ids
    BY DEF BackpressureInv, TypeOK, Task
  <2>2. QED
    BY <1>1, <2>1 DEF BackpressureInv, SendsOwn
<1>3. ToldOnce'
  <2>1. \A h \in Handlers : \A i \in 1 .. Len(mailbox[h]) : mailbox[h][i].id \in Ids
    BY MailType DEF BackpressureInv
  <2>2. QED
    BY <1>1, <2>1 DEF BackpressureInv, ToldOnce, Lost
<1>4. QED
  BY <1>2, <1>3

\* The invariant holds at the start.
LEMMA BackpressureInit == Init => BackpressureInv
<1> SUFFICES ASSUME Init PROVE BackpressureInv
  OBVIOUS
<1>1. Running \in Task /\ Running.sends = {}
  BY DEF Running, Task
<1>2. In("channel") = {} /\ In("queue") = {} /\ In("blocked") = {}
  BY DEF Init, In
<1>3. /\ place \in [Ids -> Places] /\ at \in [Ids -> Conns \cup {NoConn}]
      /\ pc \in [Handlers -> {"open", "closing", "gone"}]
      /\ mailbox \in [Handlers -> Seq(Mail)]
      /\ \A h \in Handlers : Len(mailbox[h]) = 0
  BY DEF Init, Places
<1>4. task \in [Conns -> Task] /\ \A c \in Conns : task[c].sends = {}
  BY <1>1 DEF Init
<1>5. unsubs \in [Conns -> SUBSET Ids] /\ \A c \in Conns : unsubs[c] = {}
  BY DEF Init
<1>6. TypeOK
  <2>1. Cardinality({}) = 0
    BY FS_EmptySet
  <2>2. /\ \A h \in Handlers : Len(mailbox[h]) <= MailboxCapacity
        /\ \A c \in Conns : Cardinality(unsubs[c]) <= UnsubCapacity
    <3>1. \A c \in Conns : Cardinality(unsubs[c]) = 0
      BY <1>5, <2>1
    <3>2. QED
      BY <1>3, <3>1, BackpressureAssumption
  <2>3. /\ Cardinality(In("channel")) <= ChannelCapacity
        /\ Cardinality(In("queue")) <= QueueCapacity
        /\ Cardinality(In("blocked")) <= 1
    BY <1>2, <2>1, BackpressureAssumption
  <2>4. handles \subseteq Ids /\ ending \subseteq Ids /\ losses \in 0 .. MaxLosses
    BY BackpressureAssumption DEF Init
  <2>5. QED
    BY <1>3, <1>4, <1>5, <2>2, <2>3, <2>4 DEF TypeOK, Mail
<1>7. QED
  BY <1>3, <1>4, <1>6 DEF BackpressureInv, SendsOwn, ToldOnce

-----------------------------------------------------------------------------
(* Handlers and dispatcher                                                 *)

\* A request enters the channel or waits for room in it.
LEMMA SendBounds ==
  ASSUME TypeOK, NEW id \in Ids, send(id)
  PROVE  /\ place' \in [Ids -> Places] /\ PlaceBounds'
         /\ place'[id] \in {"channel", "sending"}
         /\ \A n \in Ids \ {id} : place'[n] = place[n]
<1>0. {id} \in SUBSET Ids /\ {"channel", "queue", "blocked"} \subseteq Places
  BY DEF Places
<1>1. /\ Cardinality(In("channel")) <= ChannelCapacity
      /\ Cardinality(In("queue")) <= QueueCapacity
      /\ Cardinality(In("blocked")) <= 1
      /\ ChannelCapacity \in Nat /\ QueueCapacity \in Nat /\ 1 \in Nat
  BY BackpressureAssumption DEF TypeOK
<1>2. CASE Cardinality(In("channel")) < ChannelCapacity /\ Move({id}, "channel")
  <2>1. /\ place' \in [Ids -> Places]
        /\ \A n \in Ids : place'[n] = IF n \in {id} THEN "channel" ELSE place[n]
        /\ In("channel")' = In("channel") \cup {id}
        /\ In("queue")' \in SUBSET In("queue")
        /\ In("blocked")' \in SUBSET In("blocked")
    BY <1>0, <1>2, MovePlaces DEF Places
  <2>2. Cardinality(In("channel")') <= ChannelCapacity
    BY <1>0, <1>1, <1>2, <2>1, OneMoreIn
  <2>3. Cardinality(In("queue")') <= QueueCapacity
    BY <1>0, <1>1, <2>1, FewerIn
  <2>4. Cardinality(In("blocked")') <= 1
    BY <1>0, <1>1, <2>1, FewerIn
  <2>5. QED
    BY <2>1, <2>2, <2>3, <2>4 DEF PlaceBounds
<1>3. CASE Move({id}, "sending")
  <2>1. "sending" \in Places \ {"channel", "queue", "blocked"}
    BY DEF Places
  <2>2. place' \in [Ids -> Places] /\ PlaceBounds'
    BY <1>0, <1>3, <2>1, BoundsKept
  <2>3. \A n \in Ids : place'[n] = IF n \in {id} THEN "sending" ELSE place[n]
    BY <1>3 DEF Move
  <2>4. QED
    BY <2>2, <2>3
<1>4. QED
  BY <1>2, <1>3 DEF send

\* A request that was never sent is picked among those of the handler.
LEMMA Generated ==
  ASSUME NEW S \in SUBSET Ids, S # {}
  PROVE  generate(S) \in S
BY DEF generate

\* A call sends its first request.
LEMMA AskStep ==
  ASSUME BackpressureInv, NEW h \in Handlers, account_subscribe(h)
  PROVE  BackpressureInv'
<1>1. PICK id \in Ids : send(id) /\ place[id] = "fresh"
  <2>1. Own(h) \ Ephem \in SUBSET Ids /\ Own(h) \ Ephem # {}
    BY DEF account_subscribe, Own
  <2>2. generate(Own(h) \ Ephem) \in Own(h) \ Ephem
    BY <2>1, Generated
  <2>3. QED
    BY <2>1, <2>2 DEF account_subscribe, In
<1>2. UNCHANGED <<at, pc, handles, ending, mailbox, task, unsubs, losses>>
  BY DEF account_subscribe
<1>3. place' \in [Ids -> Places] /\ PlaceBounds'
  BY <1>1, SendBounds DEF BackpressureInv
<1>4. TypeOK'
  BY <1>2, <1>3 DEF BackpressureInv, TypeOK, PlaceBounds
<1>5. PICK p \in {"channel", "sending"} : Move({id}, p)
  BY <1>1 DEF send
<1>6. p \in Places /\ {id} \in SUBSET Ids
  BY DEF Places
<1>7. SendsOwn' /\ ToldOnce'
  BY <1>1, <1>2, <1>5, <1>6, OutsideMoves
<1>8. QED
  BY <1>4, <1>7 DEF BackpressureInv

\* A request enters or leaves the channel or the queue.
LEMMA RequestSteps ==
  ASSUME BackpressureInv, NEW id \in Ids,
         Send(id) \/ Forward(id) \/ Unblock(id)
  PROVE  BackpressureInv'
<1>1. UNCHANGED <<at, pc, handles, ending, mailbox, task, unsubs, losses>>
  BY DEF Send, Forward, Unblock
<1>2. \E p \in {"channel", "queue", "blocked"} : Move({id}, p)
  BY DEF Send, Forward, Unblock
<1>3. {id} \in SUBSET Ids /\ {"channel", "queue", "blocked"} \subseteq Places
  BY DEF Places
<1>4. place[id] \notin {"live", "told"}
  BY DEF Send, Forward, Unblock
<1>5. SendsOwn' /\ ToldOnce'
  BY <1>1, <1>2, <1>3, <1>4, OutsideMoves
<1>6. place' \in [Ids -> Places]
  BY <1>2, <1>3, MovePlaces DEF BackpressureInv
<1>7. PlaceBounds'
  <2>1. /\ Cardinality(In("channel")) <= ChannelCapacity
        /\ Cardinality(In("queue")) <= QueueCapacity
        /\ Cardinality(In("blocked")) <= 1
        /\ ChannelCapacity \in Nat /\ QueueCapacity \in Nat /\ 1 \in Nat
    BY BackpressureAssumption DEF BackpressureInv, TypeOK
  <2>3. ASSUME NEW p \in {"channel", "queue", "blocked"}, Move({id}, p)
        PROVE  /\ In(p)' = In(p) \cup {id}
               /\ \A q \in {"channel", "queue", "blocked"} \ {p} :
                    In(q)' \in SUBSET In(q)
               /\ {"channel", "queue", "blocked"} \subseteq Places
    BY <1>3, <2>3, MovePlaces DEF BackpressureInv, Places
  <2>4. CASE Send(id)
    <3>1. Move({id}, "channel") /\ Cardinality(In("channel")) < ChannelCapacity
      BY <2>4 DEF Send
    <3>2. Cardinality(In("channel")') <= ChannelCapacity
      BY <2>1, <2>3, <3>1, OneMoreIn
    <3>3. Cardinality(In("queue")') <= QueueCapacity
      BY <2>1, <2>3, <3>1, FewerIn
    <3>4. Cardinality(In("blocked")') <= 1
      BY <2>1, <2>3, <3>1, FewerIn
    <3>5. QED
      BY <3>2, <3>3, <3>4 DEF PlaceBounds
  <2>5. CASE Move({id}, "queue") /\ Room
    <3>1. Cardinality(In("queue")') <= QueueCapacity
      BY <2>1, <2>3, <2>5, OneMoreIn DEF Room
    <3>2. Cardinality(In("channel")') <= ChannelCapacity
      BY <2>1, <2>3, <2>5, FewerIn
    <3>3. Cardinality(In("blocked")') <= 1
      BY <2>1, <2>3, <2>5, FewerIn
    <3>4. QED
      BY <3>1, <3>2, <3>3 DEF PlaceBounds
  <2>6. CASE Move({id}, "blocked") /\ In("blocked") = {}
    <3>1. Cardinality(In("blocked")) < 1
      BY <2>6, FS_EmptySet
    <3>2. Cardinality(In("blocked")') <= 1
      BY <2>1, <2>3, <2>6, <3>1, OneMoreIn
    <3>3. Cardinality(In("channel")') <= ChannelCapacity
      BY <2>1, <2>3, <2>6, FewerIn
    <3>4. Cardinality(In("queue")') <= QueueCapacity
      BY <2>1, <2>3, <2>6, FewerIn
    <3>5. QED
      BY <3>2, <3>3, <3>4 DEF PlaceBounds
  <2>7. QED
    BY <2>4, <2>5, <2>6 DEF Forward, Unblock
<1>8. TypeOK'
  BY <1>1, <1>6, <1>7 DEF BackpressureInv, TypeOK, PlaceBounds
<1>9. QED
  BY <1>5, <1>8 DEF BackpressureInv

\* A handler takes a message out of its mailbox.
LEMMA ReceivedMail ==
  ASSUME TypeOK, NEW h \in Handlers, NEW t \in Types, Received(h, t)
  PROVE  /\ mailbox' \in [Handlers -> Seq(Mail)]
         /\ \A k \in Handlers : Len(mailbox'[k]) <= MailboxCapacity
         /\ Head(mailbox[h]) = mailbox[h][1] /\ mailbox[h][1] \in Mail
         /\ mailbox[h][1].type = t
         /\ Len(mailbox[h]) \in Nat \ {0} /\ Len(mailbox'[h]) = Len(mailbox[h]) - 1
         /\ \A i \in 1 .. Len(mailbox[h]) - 1 : mailbox'[h][i] = mailbox[h][i + 1]
         /\ \A k \in Handlers \ {h} : mailbox'[k] = mailbox[k]
<1>1. mailbox \in [Handlers -> Seq(Mail)]
  BY DEF TypeOK, Mail
<1>2. mailbox[h] \in Seq(Mail) /\ mailbox[h] # <<>> /\ Head(mailbox[h]).type = t
  BY <1>1 DEF Received
<1>3. mailbox' = [mailbox EXCEPT ![h] = Tail(mailbox[h])]
  BY DEF Received
<1>4. /\ Head(mailbox[h]) = mailbox[h][1] /\ mailbox[h][1] \in Mail
      /\ Tail(mailbox[h]) \in Seq(Mail)
      /\ Len(mailbox[h]) \in Nat \ {0}
      /\ Len(Tail(mailbox[h])) = Len(mailbox[h]) - 1
      /\ \A i \in 1 .. Len(mailbox[h]) - 1 : Tail(mailbox[h])[i] = mailbox[h][i + 1]
  BY <1>2
<1>5. mailbox'[h] = Tail(mailbox[h]) /\ \A k \in Handlers \ {h} : mailbox'[k] = mailbox[k]
  BY <1>1, <1>3
<1>6. Len(mailbox'[h]) <= MailboxCapacity
  BY <1>4, <1>5, BackpressureAssumption DEF TypeOK
<1>7. QED
  BY <1>1, <1>2, <1>3, <1>4, <1>5, <1>6 DEF TypeOK

\* Every message left in the mailbox was in it, in another position.  A
\* handler that reads a Disconnected may move its subscription on: there is no
\* second message about it.
LEMMA ReadKeepsTold ==
  ASSUME BackpressureInv, NEW h \in Handlers, NEW t \in Types, Received(h, t),
         UNCHANGED task,
         \A id \in Ids : /\ place[id] = "told"
                         /\ t = "Disconnected" => id # Head(mailbox[h]).id
                         => place'[id] = "told"
  PROVE  ToldOnce'
<1> SUFFICES ASSUME NEW k \in Handlers, NEW i \in 1 .. Len(mailbox'[k]),
                    mailbox'[k][i].type = "Disconnected"
             PROVE  /\ place'[mailbox'[k][i].id] = "told"
                    /\ Owner[mailbox'[k][i].id] = k
                    /\ \A c \in Conns : mailbox'[k][i].id \notin task[c].sends
                    /\ \A j \in 1 .. Len(mailbox'[k]) :
                         /\ mailbox'[k][j].type = "Disconnected"
                         /\ mailbox'[k][j].id = mailbox'[k][i].id
                         => j = i
  BY DEF ToldOnce, Lost
<1>0. /\ Len(mailbox[h]) \in Nat \ {0} /\ Len(mailbox'[h]) = Len(mailbox[h]) - 1
      /\ \A n \in 1 .. Len(mailbox[h]) - 1 : mailbox'[h][n] = mailbox[h][n + 1]
      /\ Head(mailbox[h]) = mailbox[h][1] /\ mailbox[h][1].type = t
  BY ReceivedMail DEF BackpressureInv
<1>1. t = "Disconnected" => Lost(h, 1) /\ 1 \in 1 .. Len(mailbox[h])
  BY <1>0 DEF Lost
<1>2. CASE k # h
  <2>1. mailbox'[k] = mailbox[k]
    BY <1>2, ReceivedMail DEF BackpressureInv
  <2>2. Lost(k, i) /\ i \in 1 .. Len(mailbox[k]) /\ mailbox[k][i].id \in Ids
    BY <2>1, MailType DEF BackpressureInv, Lost
  <2>3. t = "Disconnected" => Owner[Head(mailbox[h]).id] = h
    BY <1>0, <1>1 DEF BackpressureInv, ToldOnce
  <2>4. place[mailbox[k][i].id] = "told" /\ Owner[mailbox[k][i].id] = k
    BY <2>2 DEF BackpressureInv, ToldOnce
  <2>5. place'[mailbox[k][i].id] = "told"
    BY <1>2, <2>2, <2>3, <2>4
  <2>6. QED
    BY <2>1, <2>2, <2>4, <2>5 DEF BackpressureInv, ToldOnce, Lost
<1>3. CASE k = h
  <2>1. \A j \in 1 .. Len(mailbox'[h]) : /\ j + 1 \in 1 .. Len(mailbox[h])
                                         /\ mailbox'[h][j] = mailbox[h][j + 1]
    BY <1>0
  <2>2. /\ Lost(h, i + 1) /\ i + 1 \in 1 .. Len(mailbox[h])
        /\ mailbox'[k][i] = mailbox[h][i + 1]
    BY <1>3, <2>1 DEF Lost
  <2>3. mailbox[h][i + 1].id \in Ids
    BY <2>2, MailType DEF BackpressureInv
  <2>4. ASSUME NEW j \in 1 .. Len(mailbox[h]), Lost(h, j),
               mailbox[h][j].id = mailbox[h][i + 1].id
        PROVE  j = i + 1
    BY <2>2, <2>4 DEF BackpressureInv, ToldOnce
  <2>5. t = "Disconnected" => mailbox[h][i + 1].id # Head(mailbox[h]).id
    <3>1. i + 1 # 1
      BY <1>0, <1>3
    <3>2. QED
      BY <1>0, <1>1, <2>4, <3>1
  <2>6. ASSUME NEW j \in 1 .. Len(mailbox'[h]),
               mailbox'[h][j].type = "Disconnected",
               mailbox'[h][j].id = mailbox'[h][i].id
        PROVE  j = i
    <3>1. j + 1 \in 1 .. Len(mailbox[h]) /\ mailbox'[h][j] = mailbox[h][j + 1]
      BY <2>1
    <3>2. Lost(h, j + 1)
      BY <2>6, <3>1 DEF Lost
    <3>3. j + 1 = i + 1
      BY <1>3, <2>2, <2>4, <2>6, <3>1, <3>2
    <3>4. QED
      BY <1>3, <3>3
  <2>7. /\ place[mailbox[h][i + 1].id] = "told" /\ Owner[mailbox[h][i + 1].id] = h
        /\ \A c \in Conns : mailbox[h][i + 1].id \notin task[c].sends
    BY <2>2 DEF BackpressureInv, ToldOnce
  <2>8. place'[mailbox[h][i + 1].id] = "told"
    BY <2>3, <2>5, <2>7
  <2>9. QED
    BY <1>3, <2>2, <2>6, <2>7, <2>8
<1>4. QED
  BY <1>2, <1>3

\* What a handler that reads a message leaves to show.
LEMMA ReadKeepsInv ==
  ASSUME BackpressureInv, NEW h \in Handlers, NEW t \in Types, Received(h, t),
         UNCHANGED <<task, unsubs, losses>>,
         pc' \in [Handlers -> {"open", "closing", "gone"}],
         handles' \subseteq Ids, ending' \subseteq Ids,
         place' \in [Ids -> Places], PlaceBounds',
         at' \in [Ids -> Conns \cup {NoConn}],
         \A id \in Ids : /\ place[id] \in {"live", "told"}
                         /\ t = "Disconnected" => id # Head(mailbox[h]).id
                         => place'[id] = place[id] /\ at'[id] = at[id]
  PROVE  BackpressureInv'
<1>1. ToldOnce'
  BY ReadKeepsTold
<1>2. ASSUME NEW c \in Conns, NEW id \in task[c].sends
      PROVE  place'[id] = place[id] /\ at'[id] = at[id]
  <2>1. id \in Ids /\ place[id] \in {"live", "told"}
    BY DEF BackpressureInv, TypeOK, Task, SendsOwn
  <2>2. CASE t = "Disconnected"
    <3>1. /\ Head(mailbox[h]) = mailbox[h][1] /\ 1 \in 1 .. Len(mailbox[h])
          /\ Lost(h, 1)
      BY <2>2, ReceivedMail DEF BackpressureInv, Lost
    <3>2. id # Head(mailbox[h]).id
      BY <3>1 DEF BackpressureInv, ToldOnce
    <3>3. QED
      BY <2>1, <3>2
  <2>3. QED
    BY <2>1, <2>2
<1>3. SendsOwn'
  BY <1>2 DEF BackpressureInv, SendsOwn
<1>4. /\ mailbox' \in [Handlers -> Seq(Mail)]
      /\ \A k \in Handlers : Len(mailbox'[k]) <= MailboxCapacity
  BY ReceivedMail DEF BackpressureInv
<1>5. TypeOK'
  BY <1>4 DEF BackpressureInv, TypeOK, PlaceBounds, Mail
<1>6. QED
  BY <1>1, <1>3, <1>5 DEF BackpressureInv

\* A notification is passed on, leads to another request, or ends the
\* subscription.
LEMMA NotificationCases ==
  ASSUME TypeOK, NEW h \in Handlers, ReadNotification(h)
  PROVE  /\ Received(h, "Notification") /\ UNCHANGED <<at, task, unsubs, losses>>
         /\ pc' \in [Handlers -> {"open", "closing", "gone"}]
         /\ \A k \in Handlers : pc'[k] = "gone" <=> pc[k] = "gone"
         /\ \/ UNCHANGED <<place, handles, ending>>
            \/ /\ UNCHANGED <<handles, ending>>
               /\ \E id \in Ids : place[id] = "fresh" /\ send(id)
            \/ /\ UNCHANGED place
               /\ \E id \in handles : /\ handles' = handles \ {id}
                                      /\ ending' = ending \cup {id}
<1>1. /\ Received(h, "Notification") /\ UNCHANGED <<at, task, unsubs, losses>>
      /\ pc[h] = "open"
      /\ UNCHANGED pc \/ pc' = [pc EXCEPT ![h] = "closing"]
  BY DEF ReadNotification, Received
<1>2. /\ pc' \in [Handlers -> {"open", "closing", "gone"}]
      /\ \A k \in Handlers : pc'[k] = "gone" <=> pc[k] = "gone"
  BY <1>1 DEF TypeOK
<1> DEFINE S == Own(h) \cap Ephem \cap In("fresh")
<1>3. ASSUME S # {}, send(generate(S))
      PROVE  \E id \in Ids : place[id] = "fresh" /\ send(id)
  <2>1. S \in SUBSET Ids
    BY DEF Own
  <2>2. generate(S) \in S
    BY <1>3, <2>1, Generated
  <2>3. QED
    BY <1>3, <2>1, <2>2 DEF In
<1>4. QED
  BY <1>1, <1>2, <1>3 DEF ReadNotification

\* A lost subscription is asked for again or is over.
LEMMA DisconnectedCases ==
  ASSUME BackpressureInv, NEW h \in Handlers, ReadDisconnected(h)
  PROVE  LET id == Head(mailbox[h]).id IN
         /\ Received(h, "Disconnected") /\ id \in Ids /\ Owner[id] = h
         /\ id = mailbox[h][1].id /\ Lost(h, 1) /\ place[id] = "told"
         /\ handles' = handles \ {id} /\ at' = [at EXCEPT ![id] = NoConn]
         /\ UNCHANGED <<pc, ending, task, unsubs, losses>>
         /\ place' \in [Ids -> Places] /\ PlaceBounds'
         /\ \A n \in Ids \ {id} : place'[n] = place[n]
         /\ id \notin handles => place'[id] = "closed"
<1> DEFINE id == Head(mailbox[h]).id
<1>1. /\ Received(h, "Disconnected")
      /\ handles' = handles \ {id} /\ at' = [at EXCEPT ![id] = NoConn]
      /\ UNCHANGED <<pc, ending, task, unsubs, losses>>
      /\ \/ id \in handles /\ send(id)
         \/ Move({id}, "closed")
  BY DEF ReadDisconnected
<1>2. "Disconnected" \in Types
  BY DEF Types
<1>3. /\ id = mailbox[h][1].id /\ id \in Ids /\ Lost(h, 1)
      /\ 1 \in 1 .. Len(mailbox[h])
  BY <1>1, <1>2, ReceivedMail DEF BackpressureInv, Mail, Lost
<1>4. Owner[id] = h /\ place[id] = "told"
  BY <1>3 DEF BackpressureInv, ToldOnce
<1> HIDE DEF id
<1>5. CASE send(id) /\ id \in handles
  <2>1. /\ place' \in [Ids -> Places] /\ PlaceBounds'
        /\ \A n \in Ids \ {id} : place'[n] = place[n]
    BY <1>3, <1>5, SendBounds DEF BackpressureInv
  <2>2. QED
    BY <1>1, <1>3, <1>4, <1>5, <2>1 DEF id
<1>6. CASE Move({id}, "closed")
  <2>1. "closed" \in Places \ {"channel", "queue", "blocked"} /\ {id} \in SUBSET Ids
    BY <1>3 DEF Places
  <2>2. place' \in [Ids -> Places] /\ PlaceBounds'
    BY <1>6, <2>1, BoundsKept DEF BackpressureInv
  <2>3. \A n \in Ids : place'[n] = IF n \in {id} THEN "closed" ELSE place[n]
    BY <1>6 DEF Move
  <2>4. place'[id] = "closed" /\ \A n \in Ids \ {id} : place'[n] = place[n]
    BY <1>3, <2>3
  <2>5. QED
    BY <1>1, <1>3, <1>4, <2>2, <2>4 DEF id
<1>7. QED
  BY <1>1, <1>5, <1>6

\* The invariant survives the handlers that read their mailboxes.
LEMMA ReadSteps ==
  ASSUME BackpressureInv, NEW h \in Handlers,
         ReadSubscribed(h) \/ ReadNotification(h) \/ ReadDisconnected(h)
  PROVE  BackpressureInv'
<1>0. /\ "Subscribed" \in Types /\ "Notification" \in Types
      /\ "Disconnected" \in Types
  BY DEF Types
<1>1. UNCHANGED place => place' \in [Ids -> Places] /\ PlaceBounds'
  BY DEF BackpressureInv, TypeOK, PlaceBounds, In
<1>2. /\ UNCHANGED at => at' \in [Ids -> Conns \cup {NoConn}]
      /\ UNCHANGED pc => pc' \in [Handlers -> {"open", "closing", "gone"}]
  BY DEF BackpressureInv, TypeOK
<1>3. CASE ReadSubscribed(h)
  <2>1. Received(h, "Subscribed")
    BY <1>3 DEF ReadSubscribed
  <2>2. Head(mailbox[h]).id \in Ids
    BY <1>0, <2>1, ReceivedMail DEF BackpressureInv, Mail
  <2>3. /\ UNCHANGED <<place, at, pc, task, unsubs, losses>>
        /\ handles' \subseteq Ids /\ ending' \subseteq Ids
    BY <1>3, <2>2 DEF ReadSubscribed, BackpressureInv, TypeOK
  <2>4. QED
    BY <1>0, <1>1, <1>2, <2>1, <2>3, ReadKeepsInv
<1>4. CASE ReadNotification(h)
  <2>1. /\ Received(h, "Notification") /\ UNCHANGED <<at, task, unsubs, losses>>
        /\ pc' \in [Handlers -> {"open", "closing", "gone"}]
    BY <1>4, NotificationCases DEF BackpressureInv
  <2>2. handles' \subseteq Ids /\ ending' \subseteq Ids
    <3>1. handles \subseteq Ids /\ ending \subseteq Ids /\ TypeOK
      BY DEF BackpressureInv, TypeOK
    <3>2. \/ UNCHANGED <<handles, ending>>
          \/ \E id \in handles : /\ handles' = handles \ {id}
                                 /\ ending' = ending \cup {id}
      BY <1>4, <3>1, NotificationCases
    <3>3. QED
      BY <3>1, <3>2
  <2>3. /\ place' \in [Ids -> Places] /\ PlaceBounds'
        /\ \A id \in Ids : place[id] \in {"live", "told"} => place'[id] = place[id]
    <3>1. CASE UNCHANGED place
      BY <1>1, <3>1
    <3>2. ASSUME NEW id \in Ids, place[id] = "fresh", send(id)
          PROVE  /\ place' \in [Ids -> Places] /\ PlaceBounds'
                 /\ \A n \in Ids : place[n] \in {"live", "told"} => place'[n] = place[n]
      BY <3>2, SendBounds DEF BackpressureInv
    <3>3. QED
      BY <1>4, <3>1, <3>2, NotificationCases DEF BackpressureInv
  <2>4. QED
    BY <1>0, <1>2, <2>1, <2>2, <2>3, ReadKeepsInv
<1>5. CASE ReadDisconnected(h)
  <2>1. PICK id \in Ids : id = Head(mailbox[h]).id
    BY <1>5, DisconnectedCases
  <2>2. /\ Received(h, "Disconnected") /\ UNCHANGED <<pc, ending, task, unsubs, losses>>
        /\ handles' = handles \ {id} /\ at' = [at EXCEPT ![id] = NoConn]
        /\ place' \in [Ids -> Places] /\ PlaceBounds'
        /\ \A n \in Ids \ {id} : place'[n] = place[n]
    BY <1>5, <2>1, DisconnectedCases
  <2>3. /\ handles' \subseteq Ids /\ ending' \subseteq Ids
        /\ at' \in [Ids -> Conns \cup {NoConn}]
        /\ \A n \in Ids \ {id} : at'[n] = at[n]
    BY <2>2 DEF BackpressureInv, TypeOK
  <2>4. QED
    BY <1>0, <1>2, <2>1, <2>2, <2>3, ReadKeepsInv
<1>6. QED
  BY <1>3, <1>4, <1>5

\* A handler closes, sends its unsubscriptions, and drops its mailbox.
LEMMA ClosingSteps ==
  ASSUME BackpressureInv,
         \/ \E h \in Handlers : Close(h) \/ Gone(h)
         \/ \E id \in Ids : SendUnsub(id)
  PROVE  BackpressureInv'
<1>1. ASSUME NEW h \in Handlers, Close(h) PROVE BackpressureInv'
  <2>1. TypeOK'
    BY <1>1 DEF Close, BackpressureInv, TypeOK, In
  <2>2. QED
    BY <1>1, <2>1 DEF Close, BackpressureInv, SendsOwn, ToldOnce, Lost
<1>2. ASSUME NEW h \in Handlers, Gone(h) PROVE BackpressureInv'
  <2>1. mailbox \in [Handlers -> Seq(Mail)]
    BY DEF BackpressureInv, TypeOK, Mail
  <2>2. /\ mailbox' \in [Handlers -> Seq(Mail)] /\ Len(mailbox'[h]) = 0
        /\ \A k \in Handlers \ {h} : mailbox'[k] = mailbox[k]
    BY <1>2, <2>1 DEF Gone
  <2>3. \A k \in Handlers : Len(mailbox'[k]) <= MailboxCapacity
    <3>1. \A k \in Handlers : Len(mailbox[k]) <= MailboxCapacity
      BY DEF BackpressureInv, TypeOK
    <3>2. 0 <= MailboxCapacity
      BY BackpressureAssumption
    <3>3. QED
      BY <2>2, <3>1, <3>2
  <2>4. TypeOK'
    BY <1>2, <2>2, <2>3 DEF Gone, BackpressureInv, TypeOK, In, Mail
  <2>5. SendsOwn'
    BY <1>2 DEF Gone, BackpressureInv, SendsOwn
  <2>6. ToldOnce'
    <3>1. UNCHANGED <<place, task>>
      BY <1>2 DEF Gone
    <3>2. \A k \in Handlers : \A i \in 1 .. Len(mailbox'[k]) :
            k # h /\ mailbox'[k] = mailbox[k]
      BY <2>2
    <3>3. QED
      BY <3>1, <3>2 DEF BackpressureInv, ToldOnce, Lost
  <2>7. QED
    BY <2>4, <2>5, <2>6 DEF BackpressureInv
<1>3. ASSUME NEW id \in Ids, SendUnsub(id) PROVE BackpressureInv'
  <2> DEFINE c == at[id]
  <2>1. unsubs \in [Conns -> SUBSET Ids] /\ unsubs' = [unsubs EXCEPT ![c] = unsubs[c] \cup {id}]
    BY <1>3 DEF SendUnsub, BackpressureInv, TypeOK
  <2>2. ASSUME NEW d \in Conns PROVE Cardinality(unsubs'[d]) <= UnsubCapacity
    <3>1. CASE d = c
      <4>1. IsFiniteSet(unsubs[c]) /\ Cardinality(unsubs[c]) \in Nat
        BY <2>1, <3>1, FiniteIds
      <4>2. Cardinality(unsubs[c] \cup {id}) \in {Cardinality(unsubs[c]), Cardinality(unsubs[c]) + 1}
        BY <4>1, FS_AddElement
      <4>3. unsubs'[d] = unsubs[c] \cup {id}
        BY <2>1, <3>1
      <4>4. Cardinality(unsubs[c]) < UnsubCapacity
        BY <1>3 DEF SendUnsub
      <4>5. QED
        BY <4>1, <4>2, <4>3, <4>4, BackpressureAssumption
    <3>2. CASE d # c
      BY <2>1, <3>2 DEF BackpressureInv, TypeOK
    <3>3. QED
      BY <3>1, <3>2
  <2>3. unsubs' \in [Conns -> SUBSET Ids]
    BY <2>1
  <2>4. TypeOK'
    BY <1>3, <2>2, <2>3 DEF SendUnsub, BackpressureInv, TypeOK, In
  <2>5. QED
    BY <1>3, <2>4 DEF SendUnsub, BackpressureInv, SendsOwn, ToldOnce, Lost
<1>4. QED
  BY <1>1, <1>2, <1>3

-----------------------------------------------------------------------------
(* Connections                                                             *)

\* A connection that is not sending has no one to send to.
LEMMA RunningTask == Running \in Task /\ Running.sends = {} /\ Running.type = "run"
BY DEF Running, Task

\* A connection starts to send to some of its subscribers, which it moves
\* where what it sends them says they are.
StartsSending(c, t, S) ==
  /\ task[c] = Running /\ t \in Types /\ S \in SUBSET Ids
  /\ task' = [task EXCEPT ![c] = [type |-> t, sends |-> S]]
  /\ UNCHANGED mailbox
  /\ \A id \in S : /\ at'[id] = c
                   /\ place'[id] = IF t = "Disconnected" THEN "told" ELSE "live"
                   /\ place[id] # "told"
                   /\ \A d \in Conns : id \notin task[d].sends
  /\ \A id \in Ids \ S : place'[id] = place[id] /\ at'[id] = at[id]

\* A connection starts to send to subscribers of its own.
LEMMA StartSending ==
  ASSUME BackpressureInv, NEW c \in Conns, NEW t, NEW S, StartsSending(c, t, S)
  PROVE  task' \in [Conns -> Task] /\ SendsOwn' /\ ToldOnce'
<1>0. /\ t \in Types /\ S \in SUBSET Ids /\ UNCHANGED mailbox
      /\ task' = [task EXCEPT ![c] = [type |-> t, sends |-> S]]
      /\ \A id \in S : /\ at'[id] = c
                       /\ place'[id] = IF t = "Disconnected" THEN "told" ELSE "live"
                       /\ place[id] # "told"
                       /\ \A d \in Conns : id \notin task[d].sends
      /\ \A id \in Ids \ S : place'[id] = place[id] /\ at'[id] = at[id]
  BY DEF StartsSending
<1> DEFINE s == [type |-> t, sends |-> S]
<1>1. s \in Task /\ s.type = t /\ s.sends = S
  BY <1>0 DEF Task
<1> HIDE DEF s
<1>2. task \in [Conns -> Task] /\ task' = [task EXCEPT ![c] = s]
  BY <1>0 DEF BackpressureInv, TypeOK, s
<1>3. task' \in [Conns -> Task]
  BY <1>1, <1>2
<1>4. SendsOwn'
  <2> SUFFICES ASSUME NEW d \in Conns, NEW id \in task'[d].sends
               PROVE  /\ at'[id] = d /\ task'[d].type \in Types
                      /\ place'[id] = IF task'[d].type = "Disconnected"
                                        THEN "told" ELSE "live"
    BY DEF SendsOwn
  <2>1. CASE d = c
    BY <1>0, <1>1, <1>2, <2>1
  <2>2. CASE d # c
    <3>1. task'[d] = task[d] /\ id \in task[d].sends
      BY <1>2, <2>2
    <3>2. id \in Ids \ S
      BY <1>0, <3>1 DEF BackpressureInv, TypeOK, Task
    <3>3. QED
      BY <1>0, <3>1, <3>2 DEF BackpressureInv, SendsOwn
  <2>3. QED
    BY <2>1, <2>2
<1>5. ToldOnce'
  <2> SUFFICES ASSUME NEW h \in Handlers, NEW i \in 1 .. Len(mailbox[h]),
                      Lost(h, i)
               PROVE  LET id == mailbox[h][i].id IN
                      /\ place'[id] = "told" /\ Owner[id] = h
                      /\ \A d \in Conns : id \notin task'[d].sends
                      /\ \A j \in 1 .. Len(mailbox[h]) :
                           Lost(h, j) /\ mailbox[h][j].id = id => j = i
    BY <1>0 DEF ToldOnce, Lost
  <2> DEFINE id == mailbox[h][i].id
  <2>1. /\ place[id] = "told" /\ Owner[id] = h
        /\ \A d \in Conns : id \notin task[d].sends
        /\ \A j \in 1 .. Len(mailbox[h]) :
             Lost(h, j) /\ mailbox[h][j].id = id => j = i
    BY DEF BackpressureInv, ToldOnce
  <2>2. id \in Ids
    BY MailType DEF BackpressureInv
  <2> HIDE DEF id
  <2>3. id \notin S
    BY <1>0, <2>1
  <2>4. place'[id] = "told"
    BY <1>0, <2>1, <2>2, <2>3
  <2>5. \A d \in Conns : id \notin task'[d].sends
    BY <1>1, <1>2, <2>1, <2>3
  <2>6. QED
    BY <2>1, <2>4, <2>5 DEF id
<1>6. QED
  BY <1>3, <1>4, <1>5

\* A subscription of a connection that is not sending is sent to by no one.
LEMMA IdleSubscriber ==
  ASSUME BackpressureInv, NEW c \in Conns, task[c] = Running,
         NEW id \in Subscribers(c)
  PROVE  /\ id \in Ids /\ place[id] = "live" /\ at[id] = c
         /\ \A d \in Conns : id \notin task[d].sends
BY RunningTask DEF Subscribers, In, BackpressureInv, SendsOwn

\* A connection takes a request out of the queue.
LEMMA TakeStep ==
  ASSUME BackpressureInv, NEW c \in Conns, NEW id \in Ids, Take(c, id)
  PROVE  BackpressureInv'
<1>0. /\ "live" \in Places \ {"channel", "queue", "blocked"} /\ {id} \in SUBSET Ids
      /\ "Subscribed" \in Types
  BY DEF Places, Types
<1>1. /\ task[c] = Running /\ place[id] = "queue" /\ Move({id}, "live")
      /\ at' = [at EXCEPT ![id] = c]
      /\ task' = [task EXCEPT ![c] = [type |-> "Subscribed", sends |-> {id}]]
      /\ UNCHANGED <<pc, handles, ending, mailbox, unsubs, losses>>
  BY DEF Take
<1>2. place' \in [Ids -> Places] /\ PlaceBounds'
  BY <1>0, <1>1, BoundsKept DEF BackpressureInv
<1>3. /\ at' \in [Ids -> Conns \cup {NoConn}] /\ at'[id] = c
      /\ \A n \in Ids \ {id} : at'[n] = at[n]
  BY <1>1 DEF BackpressureInv, TypeOK
<1>4. \A n \in Ids : place'[n] = IF n \in {id} THEN "live" ELSE place[n]
  BY <1>1 DEF Move
<1>5. \A d \in Conns : id \notin task[d].sends
  BY <1>1 DEF BackpressureInv, SendsOwn
<1>6. /\ \A n \in {id} : /\ at'[n] = c
                         /\ place'[n] = "live"
                         /\ place[n] # "told"
                         /\ \A d \in Conns : n \notin task[d].sends
      /\ \A n \in Ids \ {id} : place'[n] = place[n] /\ at'[n] = at[n]
  BY <1>1, <1>3, <1>4, <1>5
<1>7. task' \in [Conns -> Task] /\ SendsOwn' /\ ToldOnce'
  <2>1. StartsSending(c, "Subscribed", {id})
    BY <1>0, <1>1, <1>6 DEF StartsSending
  <2>2. QED
    BY <2>1, StartSending
<1>8. TypeOK'
  BY <1>1, <1>2, <1>3, <1>7 DEF BackpressureInv, TypeOK, PlaceBounds
<1>9. QED
  BY <1>7, <1>8 DEF BackpressureInv

\* A confirmation, a notification or a loss is about to be told.
LEMMA TellSteps ==
  ASSUME BackpressureInv, NEW c \in Conns, Notify(c) \/ reestablish(c)
  PROVE  BackpressureInv'
<1> DEFINE S == Subscribers(c)
<1>0. /\ "told" \in Places \ {"channel", "queue", "blocked"} /\ S \in SUBSET Ids
      /\ "Notification" \in Types /\ "Disconnected" \in Types
  BY DEF Places, Types, Subscribers, In
<1>1. task[c] = Running /\ UNCHANGED <<at, pc, handles, ending, mailbox, unsubs>>
  BY DEF Notify, reestablish
<1>2. \A id \in S : /\ place[id] = "live" /\ at[id] = c
                    /\ \A d \in Conns : id \notin task[d].sends
  BY <1>1, IdleSubscriber
<1> HIDE DEF S
<1>3. CASE Notify(c)
  <2>1. task' = [task EXCEPT ![c] = [type |-> "Notification", sends |-> S]]
    BY <1>3 DEF Notify, S
  <2>2. UNCHANGED <<place, losses>>
    BY <1>3 DEF Notify
  <2>3. \A id \in S : /\ at'[id] = c
                      /\ place'[id] = "live" /\ place[id] # "told"
                      /\ \A d \in Conns : id \notin task[d].sends
    BY <1>1, <1>2, <2>2
  <2>4. UNCHANGED mailbox /\ \A id \in Ids \ S : place'[id] = place[id] /\ at'[id] = at[id]
    BY <1>1, <2>2
  <2>5. task' \in [Conns -> Task] /\ SendsOwn' /\ ToldOnce'
    <3>1. StartsSending(c, "Notification", S)
      BY <1>0, <1>1, <2>1, <2>3, <2>4 DEF StartsSending
    <3>2. QED
      BY <3>1, StartSending
  <2>6. TypeOK'
    BY <1>1, <2>2, <2>5 DEF BackpressureInv, TypeOK, In
  <2>7. QED
    BY <2>5, <2>6 DEF BackpressureInv
<1>4. CASE reestablish(c)
  <2>1. task' = [task EXCEPT ![c] = [type |-> "Disconnected", sends |-> S]]
    BY <1>4 DEF reestablish, S
  <2>2. Move(S, "told")
    BY <1>4 DEF reestablish, S
  <2>3. place' \in [Ids -> Places] /\ PlaceBounds'
    BY <1>0, <2>2, BoundsKept DEF BackpressureInv
  <2>4. \A n \in Ids : place'[n] = IF n \in S THEN "told" ELSE place[n]
    BY <2>2 DEF Move
  <2>5. /\ \A id \in S : /\ at'[id] = c
                         /\ place'[id] = "told" /\ place[id] # "told"
                         /\ \A d \in Conns : id \notin task[d].sends
        /\ \A id \in Ids \ S : place'[id] = place[id] /\ at'[id] = at[id]
    BY <1>0, <1>1, <1>2, <2>4
  <2>6. task' \in [Conns -> Task] /\ SendsOwn' /\ ToldOnce'
    <3>1. StartsSending(c, "Disconnected", S)
      BY <1>0, <1>1, <2>1, <2>5 DEF StartsSending
    <3>2. QED
      BY <3>1, StartSending
  <2>7. TypeOK'
    <3>1. losses' \in 0 .. MaxLosses
      BY <1>4, BackpressureAssumption DEF reestablish, BackpressureInv, TypeOK
    <3>2. QED
      BY <1>1, <2>3, <2>6, <3>1 DEF BackpressureInv, TypeOK, PlaceBounds
  <2>8. QED
    BY <2>6, <2>7 DEF BackpressureInv
<1>5. QED
  BY <1>3, <1>4

\* After one subscriber is sent to, the others remain.
LEMMA PostTask ==
  ASSUME BackpressureInv, NEW c \in Conns, NEW id \in Ids, Post(c, id)
  PROVE  /\ task' \in [Conns -> Task]
         /\ task'[c].sends = task[c].sends \ {id}
         /\ task'[c].sends # {} => task'[c].type = task[c].type
         /\ \A d \in Conns \ {c} : task'[d] = task[d]
<1>1. task \in [Conns -> Task] /\ task[c] \in Task
  BY DEF BackpressureInv, TypeOK
<1> DEFINE s == IF task[c].sends = {id} THEN Running
                ELSE [type |-> task[c].type, sends |-> task[c].sends \ {id}]
<1>2. task' = [task EXCEPT ![c] = s]
  BY DEF Post
<1>3. /\ s \in Task /\ s.sends = task[c].sends \ {id}
      /\ s.sends # {} => s.type = task[c].type
  BY <1>1, RunningTask DEF Task
<1> HIDE DEF s
<1>4. QED
  BY <1>1, <1>2, <1>3

\* A message is added at the end of a mailbox.
LEMMA PostMail ==
  ASSUME TypeOK, NEW h \in Handlers, NEW m \in Mail,
         Len(mailbox[h]) < MailboxCapacity,
         mailbox' = [mailbox EXCEPT ![h] = Append(mailbox[h], m)]
  PROVE  /\ mailbox' \in [Handlers -> Seq(Mail)]
         /\ \A k \in Handlers : Len(mailbox'[k]) <= MailboxCapacity
         /\ \A k \in Handlers \ {h} : mailbox'[k] = mailbox[k]
         /\ Len(mailbox[h]) \in Nat /\ Len(mailbox'[h]) = Len(mailbox[h]) + 1
         /\ \A i \in 1 .. Len(mailbox[h]) : mailbox'[h][i] = mailbox[h][i]
         /\ mailbox'[h][Len(mailbox[h]) + 1] = m
<1>1. mailbox \in [Handlers -> Seq(Mail)] /\ mailbox[h] \in Seq(Mail)
  BY DEF TypeOK, Mail
<1>2. /\ Append(mailbox[h], m) \in Seq(Mail)
      /\ Len(mailbox[h]) \in Nat
      /\ Len(Append(mailbox[h], m)) = Len(mailbox[h]) + 1
      /\ \A i \in 1 .. Len(mailbox[h]) : Append(mailbox[h], m)[i] = mailbox[h][i]
      /\ Append(mailbox[h], m)[Len(mailbox[h]) + 1] = m
  BY <1>1
<1>3. mailbox'[h] = Append(mailbox[h], m) /\ \A k \in Handlers \ {h} : mailbox'[k] = mailbox[k]
  BY <1>1
<1>4. Len(mailbox'[h]) <= MailboxCapacity
  BY <1>2, <1>3, BackpressureAssumption
<1>5. \A k \in Handlers : Len(mailbox'[k]) <= MailboxCapacity
  BY <1>3, <1>4 DEF TypeOK
<1>6. QED
  BY <1>1, <1>2, <1>3, <1>5

\* A message enters the mailbox of one subscriber.
LEMMA PostStep ==
  ASSUME BackpressureInv, NEW c \in Conns, NEW id \in Ids, Post(c, id)
  PROVE  BackpressureInv'
<1> DEFINE h == Owner[id]
           m == [type |-> task[c].type, id |-> id]
<1>0. h \in Handlers
  BY BackpressureAssumption
<1>1. /\ id \in task[c].sends /\ UNCHANGED <<pc, handles, ending, unsubs, losses>>
  BY DEF Post
<1>2. /\ task' \in [Conns -> Task]
      /\ task'[c].sends = task[c].sends \ {id}
      /\ task'[c].sends # {} => task'[c].type = task[c].type
      /\ \A d \in Conns \ {c} : task'[d] = task[d]
  BY PostTask
<1>3. /\ at[id] = c /\ task[c].type \in Types
      /\ place[id] = IF task[c].type = "Disconnected" THEN "told" ELSE "live"
      /\ \A d \in Conns \ {c} : id \notin task[d].sends
  BY <1>1 DEF BackpressureInv, SendsOwn
<1>4. \A d \in Conns : task'[d].sends \subseteq task[d].sends \ {id}
  BY <1>2, <1>3
<1>5. \A k \in Handlers : \A i \in 1 .. Len(mailbox[k]) :
        Lost(k, i) => mailbox[k][i].id # id
  BY <1>1 DEF BackpressureInv, ToldOnce
<1>6. ASSUME \A n \in Ids \ {id} : place'[n] = place[n] /\ at'[n] = at[n]
      PROVE  SendsOwn'
  <2> SUFFICES ASSUME NEW d \in Conns, NEW n \in task'[d].sends
               PROVE  /\ at'[n] = d /\ task'[d].type \in Types
                      /\ place'[n] = IF task'[d].type = "Disconnected"
                                       THEN "told" ELSE "live"
    BY <1>1 DEF SendsOwn
  <2>1. n \in task[d].sends /\ n # id
    BY <1>4
  <2>2. n \in Ids
    BY <2>1 DEF BackpressureInv, TypeOK, Task
  <2>3. task'[d].type = task[d].type
    BY <1>2
  <2>4. QED
    BY <1>6, <2>1, <2>2, <2>3 DEF BackpressureInv, SendsOwn
<1>7. CASE /\ pc[h] = "gone" /\ Move({id}, "closed") /\ UNCHANGED mailbox
           /\ at' = [at EXCEPT ![id] = NoConn]
  <2>0. "closed" \in Places \ {"channel", "queue", "blocked"} /\ {id} \in SUBSET Ids
    BY DEF Places
  <2>1. place' \in [Ids -> Places] /\ PlaceBounds'
    BY <1>7, <2>0, BoundsKept DEF BackpressureInv
  <2>2. /\ \A n \in Ids \ {id} : place'[n] = place[n] /\ at'[n] = at[n]
        /\ at' \in [Ids -> Conns \cup {NoConn}]
    BY <1>7 DEF Move, BackpressureInv, TypeOK
  <2>3. SendsOwn'
    BY <1>6, <2>2
  <2>4. ToldOnce'
    <3>1. \A k \in Handlers : \A i \in 1 .. Len(mailbox[k]) : mailbox[k][i].id \in Ids
      BY MailType DEF BackpressureInv
    <3>2. QED
      BY <1>4, <1>5, <1>7, <2>2, <3>1 DEF BackpressureInv, ToldOnce, Lost
  <2>5. TypeOK'
    BY <1>1, <1>2, <1>7, <2>1, <2>2 DEF BackpressureInv, TypeOK, PlaceBounds
  <2>6. QED
    BY <2>3, <2>4, <2>5 DEF BackpressureInv
<1>8. CASE /\ CanPost(id) /\ UNCHANGED <<place, at>>
           /\ mailbox' = [mailbox EXCEPT ![h] = Append(mailbox[h], m)]
  <2>0. m \in Mail /\ m.type = task[c].type /\ m.id = id
    BY <1>3 DEF Mail
  <2>1. Len(mailbox[h]) < MailboxCapacity
    BY <1>8 DEF CanPost
  <2> HIDE DEF h, m
  <2>2. /\ mailbox' \in [Handlers -> Seq(Mail)]
        /\ \A k \in Handlers : Len(mailbox'[k]) <= MailboxCapacity
        /\ \A k \in Handlers \ {h} : mailbox'[k] = mailbox[k]
        /\ Len(mailbox[h]) \in Nat /\ Len(mailbox'[h]) = Len(mailbox[h]) + 1
        /\ \A i \in 1 .. Len(mailbox[h]) : mailbox'[h][i] = mailbox[h][i]
        /\ mailbox'[h][Len(mailbox[h]) + 1] = m
    BY <1>0, <1>8, <2>0, <2>1, PostMail DEF BackpressureInv
  <2>3. TypeOK'
    BY <1>1, <1>2, <1>8, <2>2 DEF BackpressureInv, TypeOK, Mail, In
  <2>4. SendsOwn'
    BY <1>6, <1>8
  <2>5. ToldOnce'
    <3> SUFFICES ASSUME NEW k \in Handlers, NEW i \in 1 .. Len(mailbox'[k]),
                        mailbox'[k][i].type = "Disconnected"
                 PROVE  /\ place[mailbox'[k][i].id] = "told"
                        /\ Owner[mailbox'[k][i].id] = k
                        /\ \A d \in Conns : mailbox'[k][i].id \notin task'[d].sends
                        /\ \A j \in 1 .. Len(mailbox'[k]) :
                             /\ mailbox'[k][j].type = "Disconnected"
                             /\ mailbox'[k][j].id = mailbox'[k][i].id
                             => j = i
      BY <1>8 DEF ToldOnce, Lost
    <3>1. ASSUME NEW j \in 1 .. Len(mailbox[k]), Lost(k, j)
          PROVE  /\ place[mailbox[k][j].id] = "told"
                 /\ Owner[mailbox[k][j].id] = k
                 /\ \A d \in Conns : mailbox[k][j].id \notin task'[d].sends
                 /\ \A l \in 1 .. Len(mailbox[k]) :
                      Lost(k, l) /\ mailbox[k][l].id = mailbox[k][j].id => l = j
      BY <1>4, <3>1 DEF BackpressureInv, ToldOnce
    <3>2. CASE k # h
      BY <2>2, <3>1, <3>2 DEF Lost
    <3>3. CASE k = h /\ i = Len(mailbox[h]) + 1
      <4>1. mailbox'[k][i] = m
        BY <2>2, <3>3
      <4>2. place[id] = "told" /\ Owner[id] = k
        BY <1>3, <2>0, <3>3, <4>1 DEF h
      <4>3. \A d \in Conns : id \notin task'[d].sends
        BY <1>4
      <4>4. ASSUME NEW j \in 1 .. Len(mailbox[h]),
                   mailbox[h][j].type = "Disconnected"
            PROVE  mailbox[h][j].id # id
        BY <1>0, <1>5, <4>4 DEF Lost
      <4>5. \A j \in 1 .. Len(mailbox'[h]) : j \in 1 .. Len(mailbox[h]) \/ j = i
        BY <2>2, <3>3
      <4>6. QED
        BY <2>0, <2>2, <3>3, <4>1, <4>2, <4>3, <4>4, <4>5
    <3>4. CASE k = h /\ i # Len(mailbox[h]) + 1
      <4>1. i \in 1 .. Len(mailbox[h]) /\ mailbox'[h][i] = mailbox[h][i]
        BY <2>2, <3>4
      <4>2. Lost(h, i)
        BY <3>4, <4>1 DEF Lost
      <4>3. mailbox[h][i].id # id
        BY <1>0, <1>5, <4>1, <4>2
      <4>4. ASSUME NEW j \in 1 .. Len(mailbox'[h]),
                   mailbox'[h][j].type = "Disconnected",
                   mailbox'[h][j].id = mailbox'[h][i].id
            PROVE  j = i
        <5>1. j # Len(mailbox[h]) + 1
          BY <2>0, <2>2, <4>1, <4>3, <4>4
        <5>2. j \in 1 .. Len(mailbox[h]) /\ mailbox'[h][j] = mailbox[h][j]
          BY <2>2, <5>1
        <5>3. Lost(h, j)
          BY <4>4, <5>2 DEF Lost
        <5>4. QED
          BY <3>1, <3>4, <4>1, <4>2, <4>4, <5>2, <5>3
      <4>5. QED
        BY <3>1, <3>4, <4>1, <4>2, <4>4
    <3>5. QED
      BY <3>2, <3>3, <3>4
  <2>6. QED
    BY <2>3, <2>4, <2>5 DEF BackpressureInv
<1>9. QED
  BY <1>7, <1>8 DEF Post

\* A connection takes an unsubscription.
LEMMA UnsubStep ==
  ASSUME BackpressureInv, NEW c \in Conns, NEW id \in Ids, TakeUnsub(c, id)
  PROVE  BackpressureInv'
<1> DEFINE S == {id} \cap Subscribers(c)
<1>0. "closed" \in Places \ {"channel", "queue", "blocked"} /\ S \in SUBSET Ids
  BY DEF Places
<1>1. /\ task[c] = Running /\ Move(S, "closed")
      /\ unsubs' = [unsubs EXCEPT ![c] = @ \ {id}]
      /\ at' = [at EXCEPT ![id] = IF id \in S THEN NoConn ELSE @]
      /\ UNCHANGED <<pc, handles, ending, mailbox, task, losses>>
  BY DEF TakeUnsub
<1>2. \A n \in S : /\ place[n] = "live"
                   /\ \A d \in Conns : n \notin task[d].sends
  BY <1>1, IdleSubscriber
<1> HIDE DEF S
<1>3. place' \in [Ids -> Places] /\ PlaceBounds'
  BY <1>0, <1>1, BoundsKept DEF BackpressureInv
<1>4. \A n \in Ids : place'[n] = IF n \in S THEN "closed" ELSE place[n]
  BY <1>1 DEF Move
<1>5. SendsOwn'
  <2>1. \A d \in Conns : \A n \in task[d].sends : n \in Ids \ S
    BY <1>2 DEF BackpressureInv, TypeOK, Task
  <2>2. \A n \in Ids \ S : at'[n] = at[n]
    BY <1>1 DEF BackpressureInv, TypeOK
  <2>3. QED
    BY <1>1, <1>4, <2>1, <2>2 DEF BackpressureInv, SendsOwn
<1>6. ToldOnce'
  <2>1. \A h \in Handlers : \A i \in 1 .. Len(mailbox[h]) : mailbox[h][i].id \in Ids
    BY MailType DEF BackpressureInv
  <2>2. QED
    BY <1>1, <1>2, <1>4, <2>1 DEF BackpressureInv, ToldOnce, Lost
<1>7. /\ unsubs' \in [Conns -> SUBSET Ids]
      /\ \A d \in Conns : unsubs'[d] \in SUBSET unsubs[d]
  BY <1>1 DEF BackpressureInv, TypeOK
<1>8. ASSUME NEW d \in Conns PROVE Cardinality(unsubs'[d]) <= UnsubCapacity
  <2>1. unsubs[d] \in SUBSET Ids /\ Cardinality(unsubs[d]) <= UnsubCapacity
    BY DEF BackpressureInv, TypeOK
  <2>2. IsFiniteSet(unsubs[d]) /\ Cardinality(unsubs[d]) \in Nat
        /\ Cardinality(unsubs'[d]) \in Nat
    BY <1>7, <2>1, FiniteIds
  <2>3. Cardinality(unsubs'[d]) <= Cardinality(unsubs[d])
    BY <1>7, <2>2, FS_Subset
  <2>4. QED
    BY <2>1, <2>2, <2>3, BackpressureAssumption
<1>9. TypeOK'
  <2>1. at' \in [Ids -> Conns \cup {NoConn}]
    BY <1>1 DEF BackpressureInv, TypeOK
  <2>2. QED
    BY <1>1, <1>3, <1>7, <1>8, <2>1 DEF BackpressureInv, TypeOK, PlaceBounds
<1>10. QED
  BY <1>5, <1>6, <1>9 DEF BackpressureInv

-----------------------------------------------------------------------------
\* The invariant survives every step.
LEMMA BackpressureNext == BackpressureInv /\ [Next]_vars => BackpressureInv'
<1> SUFFICES ASSUME BackpressureInv, [Next]_vars PROVE BackpressureInv'
  OBVIOUS
<1>1. ASSUME NEW h \in Handlers, HandlerStep(h) PROVE BackpressureInv'
  BY <1>1, ReadSteps, RequestSteps, ClosingSteps DEF HandlerStep, Own
<1>2. ASSUME NEW c \in Conns, NEW id \in Ids,
             Take(c, id) \/ Post(c, id) \/ TakeUnsub(c, id)
      PROVE  BackpressureInv'
  BY <1>2, TakeStep, PostStep, UnsubStep
<1>3. CASE UNCHANGED vars
  <2>1. TypeOK'
    BY <1>3 DEF BackpressureInv, TypeOK, vars, In
  <2>2. QED
    BY <1>3, <2>1 DEF BackpressureInv, SendsOwn, ToldOnce, Lost, vars
<1>4. QED
  BY <1>1, <1>2, <1>3, AskStep, RequestSteps, ClosingSteps, TellSteps DEF Next, Dispatch

\* The invariant holds in every reachable state.
LEMMA BackpressureInvariant == Spec => []BackpressureInv
BY BackpressureInit, BackpressureNext, PTL DEF Spec

\* Every variable keeps its type and every channel its bound.
THEOREM BackpressureTypeCorrect == Spec => []TypeOK
<1>1. BackpressureInv => TypeOK
  BY DEF BackpressureInv
<1>2. QED
  BY <1>1, BackpressureInvariant, PTL

-----------------------------------------------------------------------------
(* The subscriptions that handlers hold and end                            *)

Confirms(h, i) ==
  /\ i \in 1 .. Len(mailbox[h]) /\ mailbox[h][i].type = "Subscribed"

\* A mailbox holds what is sent to its handler, and nothing once that is gone.
MailOwned ==
  \A h \in Handlers :
    /\ pc[h] = "gone" => mailbox[h] = <<>>
    /\ \A i \in 1 .. Len(mailbox[h]) : Owner[mailbox[h][i].id] = h

\* A subscription that a handler holds or is ending has been taken by a
\* connection, which has not given it up unless it is about to say so.
HandlesTaken ==
  /\ handles \cap ending = {}
  /\ \A id \in handles \cup ending :
       /\ place[id] \in {"live", "told"} /\ at[id] \in Conns
       /\ pc[Owner[id]] # "gone"

\* An unsubscription is about a subscription that no handler holds any more, and
\* it is on its way to the connection that has or had it.
UnsubsTaken ==
  \A c \in Conns : \A id \in unsubs[c] :
    /\ id \notin handles \cup ending
    /\ place[id] \in {"live", "told", "closed"} /\ at[id] \in {c, NoConn}

Unconfirmed(id) ==
  id \notin handles \cup ending /\ \A c \in Conns : id \notin unsubs[c]

StillUnconfirmed(id) ==
  id \notin handles' \cup ending' /\ \A c \in Conns : id \notin unsubs'[c]

\* What a connection confirms is not confirmed already.
ConfirmsSent ==
  \A c \in Conns : task[c].type = "Subscribed" =>
    \A id \in task[c].sends : Unconfirmed(id)

\* An unread confirmation is the only one, nothing was done about it, and it is
\* read before the loss of the subscription.
ConfirmedOnce ==
  \A h \in Handlers : \A i \in 1 .. Len(mailbox[h]) : Confirms(h, i) =>
    LET id == mailbox[h][i].id IN
    /\ Unconfirmed(id) /\ place[id] \in {"live", "told"} /\ at[id] \in Conns
    /\ \A j \in 1 .. Len(mailbox[h]) :
         Confirms(h, j) /\ mailbox[h][j].id = id => j = i
    /\ \A j \in 1 .. Len(mailbox[h]) :
         Lost(h, j) /\ mailbox[h][j].id = id => i < j
    /\ \A c \in Conns : task[c].type = "Subscribed" => id \notin task[c].sends

\* A circle over an unsubscription channel is counted with HandlesTaken and
\* UnsubsTaken; the rest is what makes them inductive.
HandleInv ==
  /\ MailOwned /\ HandlesTaken /\ UnsubsTaken /\ ConfirmsSent /\ ConfirmedOnce

\* Nothing is held or sent at the start.
LEMMA HandleInit == Init => HandleInv
<1> SUFFICES ASSUME Init PROVE HandleInv
  OBVIOUS
<1>1. /\ \A h \in Handlers : Len(mailbox[h]) = 0 /\ mailbox[h] = <<>>
      /\ \A c \in Conns : task[c].sends = {} /\ unsubs[c] = {}
      /\ handles = {} /\ ending = {}
  BY DEF Init, Running
<1>2. QED
  BY <1>1 DEF HandleInv, MailOwned, HandlesTaken, UnsubsTaken, ConfirmsSent,
              ConfirmedOnce

\* What a confirmation in a mailbox is about.
LEMMA ConfirmedMail ==
  ASSUME BackpressureInv, HandleInv, NEW h \in Handlers,
         NEW i \in 1 .. Len(mailbox[h]), Confirms(h, i)
  PROVE  LET id == mailbox[h][i].id IN
         /\ id \in Ids /\ Owner[id] = h
         /\ Unconfirmed(id) /\ place[id] \in {"live", "told"} /\ at[id] \in Conns
         /\ \A j \in 1 .. Len(mailbox[h]) :
              Confirms(h, j) /\ mailbox[h][j].id = id => j = i
         /\ \A j \in 1 .. Len(mailbox[h]) :
              Lost(h, j) /\ mailbox[h][j].id = id => i < j
         /\ \A c \in Conns : task[c].type = "Subscribed" => id \notin task[c].sends
<1>1. mailbox[h][i].id \in Ids
  BY MailType DEF BackpressureInv
<1>2. QED
  BY <1>1 DEF HandleInv, MailOwned, ConfirmedOnce

\* Steps that leave the mailboxes and the subscriptions of the handlers alone
\* and keep what was taken where it is, but that a connection may lose it or
\* take and confirm more.
LEMMA OutsideSteps ==
  ASSUME BackpressureInv, HandleInv,
         UNCHANGED <<pc, handles, ending, mailbox, unsubs>>,
         \A id \in Ids :
           /\ place[id] \in {"live", "told"} => place'[id] \in {"live", "told"}
           /\ place[id] = "closed" => place'[id] = "closed"
           /\ place[id] \in {"live", "told", "closed"} => at'[id] = at[id],
         \A c \in Conns : task'[c].type = "Subscribed" =>
           \A id \in task'[c].sends :
             \/ task'[c] = task[c]
             \/ place[id] \notin {"live", "told", "closed"}
  PROVE  HandleInv'
<1>0. /\ handles \cup ending \subseteq Ids
      /\ \A c \in Conns : unsubs[c] \subseteq Ids /\ task[c].sends \subseteq Ids
  BY DEF BackpressureInv, TypeOK, Task
<1>1. \A id : StillUnconfirmed(id) <=> Unconfirmed(id)
  BY DEF Unconfirmed, StillUnconfirmed
<1>2. ASSUME NEW id, place[id] \notin {"live", "told", "closed"}
      PROVE  Unconfirmed(id)
  BY <1>0, <1>2 DEF HandleInv, HandlesTaken, UnsubsTaken, Unconfirmed
<1>3. MailOwned'
  BY DEF HandleInv, MailOwned
<1>4. HandlesTaken'
  BY <1>0 DEF HandleInv, HandlesTaken
<1>5. UnsubsTaken'
  <2> SUFFICES ASSUME NEW c \in Conns, NEW id \in unsubs[c]
               PROVE  /\ id \notin handles \cup ending
                      /\ place'[id] \in {"live", "told", "closed"}
                      /\ at'[id] \in {c, NoConn}
    BY DEF UnsubsTaken
  <2>1. /\ id \notin handles \cup ending /\ id \in Ids
        /\ place[id] \in {"live", "told", "closed"} /\ at[id] \in {c, NoConn}
    BY <1>0 DEF HandleInv, UnsubsTaken
  <2>2. QED
    BY <2>1
<1>6. ConfirmsSent'
  BY <1>1, <1>2 DEF HandleInv, ConfirmsSent, Unconfirmed, StillUnconfirmed
<1>7. ConfirmedOnce'
  <2> SUFFICES ASSUME NEW h \in Handlers, NEW i \in 1 .. Len(mailbox[h]),
                      Confirms(h, i)
               PROVE  LET id == mailbox[h][i].id IN
                      /\ StillUnconfirmed(id) /\ place'[id] \in {"live", "told"}
                      /\ at'[id] \in Conns
                      /\ \A j \in 1 .. Len(mailbox[h]) :
                           Confirms(h, j) /\ mailbox[h][j].id = id => j = i
                      /\ \A j \in 1 .. Len(mailbox[h]) :
                           Lost(h, j) /\ mailbox[h][j].id = id => i < j
                      /\ \A c \in Conns : task'[c].type = "Subscribed" =>
                           id \notin task'[c].sends
    BY DEF ConfirmedOnce, Confirms, Lost, Unconfirmed, StillUnconfirmed
  <2> QED
    BY <1>1, ConfirmedMail
<1>8. QED
  BY <1>3, <1>4, <1>5, <1>6, <1>7 DEF HandleInv

-----------------------------------------------------------------------------
\* Requests, and connections that take them or start to tell.
LEMMA HandleOutside ==
  ASSUME BackpressureInv, HandleInv,
         \/ \E h \in Handlers : account_subscribe(h)
         \/ \E id \in Ids : Send(id) \/ Forward(id) \/ Unblock(id)
         \/ \E c \in Conns : \/ Notify(c) \/ reestablish(c)
                             \/ \E id \in Ids : Take(c, id)
  PROVE  HandleInv'
<1>1. ASSUME NEW h \in Handlers, account_subscribe(h) PROVE HandleInv'
  <2>1. PICK id \in Ids : send(id) /\ place[id] = "fresh"
    <3>1. Own(h) \ Ephem \in SUBSET Ids /\ Own(h) \ Ephem # {}
      BY <1>1 DEF account_subscribe, Own
    <3>2. generate(Own(h) \ Ephem) \in Own(h) \ Ephem
      BY <3>1, Generated
    <3>3. QED
      BY <1>1, <3>1, <3>2 DEF account_subscribe, In
  <2>2. \A n \in Ids \ {id} : place'[n] = place[n]
    BY <2>1, SendBounds DEF BackpressureInv
  <2>3. UNCHANGED <<at, pc, handles, ending, mailbox, task, unsubs>>
    BY <1>1 DEF account_subscribe
  <2>4. QED
    BY <2>1, <2>2, <2>3, OutsideSteps
<1>2. ASSUME NEW id \in Ids, Send(id) \/ Forward(id) \/ Unblock(id)
      PROVE  HandleInv'
  <2>1. /\ place[id] \notin {"live", "told", "closed"}
        /\ UNCHANGED <<at, pc, handles, ending, mailbox, task, unsubs>>
        /\ \E p : Move({id}, p)
    BY <1>2 DEF Send, Forward, Unblock
  <2>2. \A n \in Ids \ {id} : place'[n] = place[n]
    BY <2>1 DEF Move
  <2>3. QED
    BY <2>1, <2>2, OutsideSteps
<1>3. ASSUME NEW c \in Conns, Notify(c) \/ reestablish(c) PROVE HandleInv'
  <2>1. /\ UNCHANGED <<at, pc, handles, ending, mailbox, unsubs>>
        /\ UNCHANGED place \/ Move(Subscribers(c), "told")
    BY <1>3 DEF Notify, reestablish
  <2>2. \A n \in Ids : \/ place'[n] = place[n]
                       \/ place[n] = "live" /\ place'[n] = "told"
    BY <2>1 DEF Move, Subscribers, In
  <2>3. ASSUME NEW d \in Conns
        PROVE  task'[d] = task[d] \/ task'[d].type # "Subscribed"
    BY <1>3 DEF Notify, reestablish, BackpressureInv, TypeOK
  <2>4. QED
    BY <2>1, <2>2, <2>3, OutsideSteps
<1>4. ASSUME NEW c \in Conns, NEW id \in Ids, Take(c, id) PROVE HandleInv'
  <2>1. /\ UNCHANGED <<pc, handles, ending, mailbox, unsubs>>
        /\ place[id] = "queue" /\ Move({id}, "live")
        /\ at' = [at EXCEPT ![id] = c]
        /\ task' = [task EXCEPT ![c] = [type |-> "Subscribed", sends |-> {id}]]
    BY <1>4 DEF Take
  <2>2. \A n \in Ids \ {id} : place'[n] = place[n] /\ at'[n] = at[n]
    BY <2>1 DEF Move, BackpressureInv, TypeOK
  <2>3. ASSUME NEW d \in Conns
        PROVE  task'[d] = task[d] \/ task'[d].sends = {id}
    BY <2>1 DEF BackpressureInv, TypeOK
  <2>4. QED
    BY <2>1, <2>2, <2>3, OutsideSteps
<1>5. QED
  BY <1>1, <1>2, <1>3, <1>4

-----------------------------------------------------------------------------
(* Handlers that read                                                      *)

\* The messages that are left were in the mailbox, and none of them confirms
\* what the message that was read is about, unless that is a notification.
LEMMA ReadKeepsConfirmed ==
  ASSUME BackpressureInv, HandleInv, NEW h \in Handlers, NEW t \in Types,
         Received(h, t), UNCHANGED task,
         \A k \in Handlers : pc'[k] = "gone" <=> pc[k] = "gone",
         \A id \in Ids : /\ Unconfirmed(id) /\ place[id] \in {"live", "told"}
                         /\ at[id] \in Conns
                         /\ t # "Notification" => id # Head(mailbox[h]).id
                         => /\ StillUnconfirmed(id) /\ place'[id] \in {"live", "told"}
                            /\ at'[id] \in Conns
  PROVE  MailOwned' /\ ConfirmedOnce'
<1>0. /\ Len(mailbox[h]) \in Nat \ {0} /\ Len(mailbox'[h]) = Len(mailbox[h]) - 1
      /\ \A n \in 1 .. Len(mailbox[h]) - 1 : mailbox'[h][n] = mailbox[h][n + 1]
      /\ Head(mailbox[h]) = mailbox[h][1] /\ mailbox[h][1].type = t
      /\ \A k \in Handlers \ {h} : mailbox'[k] = mailbox[k]
  BY ReceivedMail DEF BackpressureInv
<1>1. \A j \in 1 .. Len(mailbox'[h]) : /\ j + 1 \in 1 .. Len(mailbox[h])
                                       /\ mailbox'[h][j] = mailbox[h][j + 1]
  BY <1>0
<1>2. MailOwned'
  <2>1. pc'[h] # "gone"
    BY DEF Received
  <2>2. \A i \in 1 .. Len(mailbox'[h]) : Owner[mailbox'[h][i].id] = h
    <3>1. \A i \in 1 .. Len(mailbox[h]) : Owner[mailbox[h][i].id] = h
      BY DEF HandleInv, MailOwned
    <3>2. QED
      BY <1>1, <3>1
  <2>3. ASSUME NEW k \in Handlers, k # h
        PROVE  /\ pc'[k] = "gone" => mailbox'[k] = <<>>
               /\ \A i \in 1 .. Len(mailbox'[k]) : Owner[mailbox'[k][i].id] = k
    <3>1. mailbox'[k] = mailbox[k] /\ (pc'[k] = "gone" <=> pc[k] = "gone")
      BY <1>0, <2>3
    <3>2. QED
      BY <3>1 DEF HandleInv, MailOwned
  <2>4. QED
    BY <2>1, <2>2, <2>3 DEF MailOwned
<1>3. ConfirmedOnce'
  <2> SUFFICES ASSUME NEW k \in Handlers, NEW i \in 1 .. Len(mailbox'[k]),
                      mailbox'[k][i].type = "Subscribed"
               PROVE  LET id == mailbox'[k][i].id IN
                      /\ StillUnconfirmed(id) /\ place'[id] \in {"live", "told"}
                      /\ at'[id] \in Conns
                      /\ \A j \in 1 .. Len(mailbox'[k]) :
                           /\ mailbox'[k][j].type = "Subscribed"
                           /\ mailbox'[k][j].id = id
                           => j = i
                      /\ \A j \in 1 .. Len(mailbox'[k]) :
                           /\ mailbox'[k][j].type = "Disconnected"
                           /\ mailbox'[k][j].id = id
                           => i < j
                      /\ \A c \in Conns : task[c].type = "Subscribed" =>
                           id \notin task[c].sends
    BY DEF ConfirmedOnce, Confirms, Lost, Unconfirmed, StillUnconfirmed
  <2>1. CASE k # h
    <3>1. mailbox'[k] = mailbox[k] /\ i \in 1 .. Len(mailbox[k]) /\ Confirms(k, i)
      BY <1>0, <2>1 DEF Confirms
    <3>2. Owner[Head(mailbox[h]).id] = h
      BY <1>0 DEF HandleInv, MailOwned
    <3>3. mailbox[k][i].id # Head(mailbox[h]).id
      BY <2>1, <3>1, <3>2, ConfirmedMail
    <3>4. QED
      BY <3>1, <3>3, ConfirmedMail DEF Confirms, Lost
  <2>2. CASE k = h
    <3>1. /\ i + 1 \in 1 .. Len(mailbox[h]) /\ mailbox'[h][i] = mailbox[h][i + 1]
          /\ Confirms(h, i + 1)
      BY <1>1, <2>2 DEF Confirms
    <3>2. PICK id \in Ids : id = mailbox[h][i + 1].id
      BY <3>1, ConfirmedMail
    <3>3. /\ Unconfirmed(id) /\ place[id] \in {"live", "told"} /\ at[id] \in Conns
          /\ \A j \in 1 .. Len(mailbox[h]) :
               Confirms(h, j) /\ mailbox[h][j].id = id => j = i + 1
          /\ \A j \in 1 .. Len(mailbox[h]) :
               Lost(h, j) /\ mailbox[h][j].id = id => i + 1 < j
          /\ \A c \in Conns : task[c].type = "Subscribed" => id \notin task[c].sends
      BY <3>1, <3>2, ConfirmedMail
    <3>4. t # "Notification" => id # Head(mailbox[h]).id
      <4>1. 1 \in 1 .. Len(mailbox[h]) /\ i \in Nat /\ i >= 1
        BY <1>0, <2>2
      <4>2. ~ (i + 1 < 1) /\ i + 1 # 1
        BY <4>1
      <4>3. t = "Subscribed" => Confirms(h, 1)
        BY <1>0, <4>1 DEF Confirms
      <4>4. t = "Disconnected" => Lost(h, 1)
        BY <1>0, <4>1 DEF Lost
      <4>5. QED
        BY <1>0, <3>3, <4>1, <4>2, <4>3, <4>4 DEF Types
    <3>5. StillUnconfirmed(id) /\ place'[id] \in {"live", "told"} /\ at'[id] \in Conns
      BY <3>3, <3>4
    <3>6. ASSUME NEW j \in 1 .. Len(mailbox'[h]), mailbox'[h][j].id = id
          PROVE  /\ mailbox'[h][j].type = "Subscribed" => j = i
                 /\ mailbox'[h][j].type = "Disconnected" => i < j
      <4>1. /\ j + 1 \in 1 .. Len(mailbox[h]) /\ mailbox[h][j + 1].id = id
            /\ mailbox'[h][j] = mailbox[h][j + 1]
        BY <1>1, <3>6
      <4>2. mailbox'[h][j].type = "Subscribed" => j + 1 = i + 1
        BY <3>3, <4>1 DEF Confirms
      <4>3. mailbox'[h][j].type = "Disconnected" => i + 1 < j + 1
        BY <3>3, <4>1 DEF Lost
      <4>4. i \in Nat /\ j \in Nat
        BY <1>0, <2>2
      <4>5. QED
        BY <4>2, <4>3, <4>4
    <3>7. QED
      BY <2>2, <3>1, <3>2, <3>3, <3>5, <3>6
  <2>3. QED
    BY <2>1, <2>2
<1>4. QED
  BY <1>2, <1>3

\* A handler learns of a subscription.
LEMMA HandleReadSubscribed ==
  ASSUME BackpressureInv, HandleInv, NEW h \in Handlers, ReadSubscribed(h)
  PROVE  HandleInv'
<1>0. "Subscribed" \in Types /\ Received(h, "Subscribed")
  BY DEF Types, ReadSubscribed
<1>1. /\ Head(mailbox[h]) = mailbox[h][1] /\ 1 \in 1 .. Len(mailbox[h])
      /\ Confirms(h, 1)
  BY <1>0, ReceivedMail DEF BackpressureInv, Confirms
<1>2. PICK id \in Ids : id = Head(mailbox[h]).id
  BY <1>1, ConfirmedMail
<1>3. /\ Unconfirmed(id) /\ place[id] \in {"live", "told"} /\ at[id] \in Conns
      /\ Owner[id] = h
      /\ \A c \in Conns : task[c].type = "Subscribed" => id \notin task[c].sends
  BY <1>1, <1>2, ConfirmedMail
<1>4. /\ handles' = handles \cup {id} /\ pc[h] = "open"
      /\ UNCHANGED <<place, at, pc, ending, task, unsubs>>
  BY <1>2 DEF ReadSubscribed, Received
<1>5. \A n \in Ids : Unconfirmed(n) /\ n # id => StillUnconfirmed(n)
  BY <1>4 DEF Unconfirmed, StillUnconfirmed
<1>6. MailOwned' /\ ConfirmedOnce'
  BY <1>0, <1>2, <1>4, <1>5, ReadKeepsConfirmed
<1>7. HandlesTaken'
  BY <1>3, <1>4 DEF HandleInv, HandlesTaken, Unconfirmed
<1>8. UnsubsTaken'
  BY <1>3, <1>4 DEF HandleInv, UnsubsTaken, Unconfirmed
<1>9. ConfirmsSent'
  BY <1>3, <1>4 DEF HandleInv, ConfirmsSent, Unconfirmed
<1>10. QED
  BY <1>6, <1>7, <1>8, <1>9 DEF HandleInv

\* A handler passes a notification on, asks for more, or ends a subscription.
LEMMA HandleReadNotification ==
  ASSUME BackpressureInv, HandleInv, NEW h \in Handlers, ReadNotification(h)
  PROVE  HandleInv'
<1>0. "Notification" \in Types /\ TypeOK
  BY DEF Types, BackpressureInv
<1>1. /\ Received(h, "Notification") /\ UNCHANGED <<at, task, unsubs, losses>>
      /\ \A k \in Handlers : pc'[k] = "gone" <=> pc[k] = "gone"
  BY <1>0, NotificationCases
<1>2. handles' \cup ending' = handles \cup ending /\ handles' \cap ending' = {}
  <2>1. \/ UNCHANGED <<handles, ending>>
        \/ \E id \in handles : handles' = handles \ {id} /\ ending' = ending \cup {id}
    BY <1>0, NotificationCases
  <2>2. QED
    BY <2>1 DEF HandleInv, HandlesTaken
<1>3. \A id \in Ids : place[id] \in {"live", "told", "closed"} => place'[id] = place[id]
  <2>1. \/ UNCHANGED place
        \/ \E id \in Ids : place[id] = "fresh" /\ send(id)
    BY <1>0, NotificationCases
  <2>2. ASSUME NEW id \in Ids, place[id] = "fresh", send(id)
        PROVE  \A n \in Ids : place[n] \in {"live", "told", "closed"} =>
                                place'[n] = place[n]
    BY <1>0, <2>2, SendBounds
  <2>3. QED
    BY <2>1, <2>2
<1>4. \A n : Unconfirmed(n) <=> StillUnconfirmed(n)
  BY <1>1, <1>2 DEF Unconfirmed, StillUnconfirmed
<1>5. MailOwned' /\ ConfirmedOnce'
  BY <1>0, <1>1, <1>3, <1>4, ReadKeepsConfirmed
<1>6. /\ handles \cup ending \subseteq Ids
      /\ \A c \in Conns : unsubs[c] \subseteq Ids
  BY DEF BackpressureInv, TypeOK
<1>7. HandlesTaken'
  <2>1. \A id \in Ids : Owner[id] \in Handlers
    BY BackpressureAssumption
  <2>2. QED
    BY <1>1, <1>2, <1>3, <1>6, <2>1 DEF HandleInv, HandlesTaken
<1>8. UnsubsTaken'
  <2> SUFFICES ASSUME NEW c \in Conns, NEW id \in unsubs[c]
               PROVE  /\ id \notin handles' \cup ending'
                      /\ place'[id] \in {"live", "told", "closed"}
                      /\ at[id] \in {c, NoConn}
    BY <1>1 DEF UnsubsTaken
  <2> QED
    BY <1>2, <1>3, <1>6 DEF HandleInv, UnsubsTaken
<1>9. ConfirmsSent'
  BY <1>1, <1>2 DEF HandleInv, ConfirmsSent, Unconfirmed
<1>10. QED
  BY <1>5, <1>7, <1>8, <1>9 DEF HandleInv

\* A handler learns of a loss.
LEMMA HandleReadDisconnected ==
  ASSUME BackpressureInv, HandleInv, NEW h \in Handlers, ReadDisconnected(h)
  PROVE  HandleInv'
<1>0. "Disconnected" \in Types
  BY DEF Types
<1>1. PICK id \in Ids : id = Head(mailbox[h]).id
  BY DisconnectedCases
<1>2. /\ Received(h, "Disconnected") /\ Owner[id] = h
      /\ handles' = handles \ {id} /\ at' = [at EXCEPT ![id] = NoConn]
      /\ UNCHANGED <<pc, ending, task, unsubs, losses>>
      /\ \A n \in Ids \ {id} : place'[n] = place[n]
      /\ id \notin handles => place'[id] = "closed"
  BY <1>1, DisconnectedCases
<1>3. id \notin ending
  BY <1>2 DEF Received, Busy, Own
<1>4. /\ at'[id] = NoConn /\ \A n \in Ids \ {id} : at'[n] = at[n]
  BY <1>2 DEF BackpressureInv, TypeOK
<1>5. \A n \in Ids : Unconfirmed(n) => StillUnconfirmed(n)
  BY <1>2 DEF Unconfirmed, StillUnconfirmed
<1>6. MailOwned' /\ ConfirmedOnce'
  BY <1>0, <1>1, <1>2, <1>4, <1>5, ReadKeepsConfirmed
<1>7. /\ handles \cup ending \subseteq Ids
      /\ \A c \in Conns : unsubs[c] \subseteq Ids /\ task[c].sends \subseteq Ids
  BY DEF BackpressureInv, TypeOK, Task
<1>8. HandlesTaken'
  <2>1. handles' \cup ending' \subseteq (handles \cup ending) \ {id}
        /\ handles' \cap ending' = {}
    BY <1>2, <1>3 DEF HandleInv, HandlesTaken
  <2>2. QED
    BY <1>2, <1>4, <1>7, <2>1 DEF HandleInv, HandlesTaken
<1>9. UnsubsTaken'
  <2> SUFFICES ASSUME NEW c \in Conns, NEW n \in unsubs[c]
               PROVE  /\ n \notin handles' \cup ending'
                      /\ place'[n] \in {"live", "told", "closed"}
                      /\ at'[n] \in {c, NoConn}
    BY <1>2 DEF UnsubsTaken
  <2>1. /\ n \notin handles \cup ending /\ n \in Ids
        /\ place[n] \in {"live", "told", "closed"} /\ at[n] \in {c, NoConn}
    BY <1>7 DEF HandleInv, UnsubsTaken
  <2>2. QED
    BY <1>2, <1>4, <2>1
<1>10. ConfirmsSent'
  <2>1. \A c \in Conns : \A n \in task[c].sends : Unconfirmed(n) => StillUnconfirmed(n)
    BY <1>5, <1>7
  <2>2. QED
    BY <1>2, <2>1 DEF HandleInv, ConfirmsSent, Unconfirmed, StillUnconfirmed
<1>11. QED
  BY <1>6, <1>8, <1>9, <1>10 DEF HandleInv

-----------------------------------------------------------------------------
(* Handlers that end subscriptions                                         *)

\* Steps of a handler that sends nothing and moves no request.
LEMMA EndingSteps ==
  ASSUME BackpressureInv, HandleInv, UNCHANGED <<place, at, task, unsubs>>,
         handles' \cup ending' \subseteq handles \cup ending,
         \A k \in Handlers : mailbox'[k] = mailbox[k] \/ mailbox'[k] = <<>>
  PROVE  UnsubsTaken' /\ ConfirmsSent' /\ ConfirmedOnce'
<1>1. UnsubsTaken'
  BY DEF HandleInv, UnsubsTaken
<1>2. ConfirmsSent'
  BY DEF HandleInv, ConfirmsSent, Unconfirmed
<1>3. ConfirmedOnce'
  <2> SUFFICES ASSUME NEW k \in Handlers, NEW i \in 1 .. Len(mailbox'[k]),
                      mailbox'[k][i].type = "Subscribed"
               PROVE  LET id == mailbox'[k][i].id IN
                      /\ StillUnconfirmed(id) /\ place[id] \in {"live", "told"}
                      /\ at[id] \in Conns
                      /\ \A j \in 1 .. Len(mailbox'[k]) :
                           /\ mailbox'[k][j].type = "Subscribed"
                           /\ mailbox'[k][j].id = id
                           => j = i
                      /\ \A j \in 1 .. Len(mailbox'[k]) :
                           /\ mailbox'[k][j].type = "Disconnected"
                           /\ mailbox'[k][j].id = id
                           => i < j
                      /\ \A c \in Conns : task[c].type = "Subscribed" =>
                           id \notin task[c].sends
    BY DEF ConfirmedOnce, Confirms, Lost, Unconfirmed, StillUnconfirmed
  <2>1. mailbox'[k] = mailbox[k]
    <3>1. mailbox'[k] # <<>>
      OBVIOUS
    <3>2. QED
      BY <3>1
  <2>2. Confirms(k, i) /\ i \in 1 .. Len(mailbox[k])
    BY <2>1 DEF Confirms
  <2>3. \A id : Unconfirmed(id) => StillUnconfirmed(id)
    BY DEF Unconfirmed, StillUnconfirmed
  <2>4. QED
    BY <2>1, <2>2, <2>3, ConfirmedMail DEF Confirms, Lost
<1>4. QED
  BY <1>1, <1>2, <1>3

\* A handler closes or is gone.
LEMMA HandleClosing ==
  ASSUME BackpressureInv, HandleInv, NEW h \in Handlers, Close(h) \/ Gone(h)
  PROVE  HandleInv'
<1>0. /\ handles \subseteq Ids /\ ending \subseteq Ids
      /\ pc \in [Handlers -> {"open", "closing", "gone"}]
      /\ mailbox \in [Handlers -> Seq(Mail)]
  BY DEF BackpressureInv, TypeOK, Mail
<1>1. CASE Close(h)
  <2>1. /\ UNCHANGED <<place, at, mailbox, task, unsubs>>
        /\ handles' \cup ending' = handles \cup ending
        /\ handles' \cap ending' = {}
    BY <1>1 DEF Close, HandleInv, HandlesTaken
  <2>2. \A k \in Handlers : pc'[k] # "gone" <=> pc[k] # "gone"
    BY <1>0, <1>1 DEF Close
  <2>3. MailOwned'
    BY <2>1, <2>2 DEF HandleInv, MailOwned
  <2>4. HandlesTaken'
    <3>1. \A id \in Ids : Owner[id] \in Handlers
      BY BackpressureAssumption
    <3>2. QED
      BY <1>0, <2>1, <2>2, <3>1 DEF HandleInv, HandlesTaken
  <2>5. QED
    BY <2>1, <2>3, <2>4, EndingSteps DEF HandleInv
<1>2. CASE Gone(h)
  <2>1. /\ UNCHANGED <<place, at, ending, task, unsubs>>
        /\ handles' = handles \ Own(h) /\ Own(h) \cap ending = {}
        /\ pc' = [pc EXCEPT ![h] = "gone"]
        /\ mailbox' = [mailbox EXCEPT ![h] = <<>>]
    BY <1>2 DEF Gone, Busy
  <2>2. /\ mailbox'[h] = <<>> /\ \A k \in Handlers \ {h} : mailbox'[k] = mailbox[k]
        /\ \A k \in Handlers \ {h} : pc'[k] = pc[k]
    BY <1>0, <2>1
  <2>3. MailOwned'
    <3>1. Len(mailbox'[h]) = 0
      BY <2>2
    <3>2. QED
      BY <2>2, <3>1 DEF HandleInv, MailOwned
  <2>4. HandlesTaken'
    <3>1. \A id \in handles' \cup ending' : /\ id \in handles \cup ending
                                            /\ Owner[id] \in Handlers \ {h}
      BY <1>0, <2>1, BackpressureAssumption DEF Own
    <3>2. QED
      BY <2>1, <2>2, <3>1 DEF HandleInv, HandlesTaken
  <2>5. \A k \in Handlers : mailbox'[k] = mailbox[k] \/ mailbox'[k] = <<>>
    BY <2>2
  <2>6. QED
    BY <2>1, <2>3, <2>4, <2>5, EndingSteps DEF HandleInv
<1>3. QED
  BY <1>1, <1>2

\* Steps that leave the mailboxes alone and close what is not confirmed by any
\* message in them.
LEMMA UnsubMail ==
  ASSUME BackpressureInv, HandleInv, NEW id \in Ids, ~ Unconfirmed(id),
         UNCHANGED <<mailbox, task>>,
         \A n \in Ids \ {id} : /\ place'[n] = place[n] /\ at'[n] = at[n]
                               /\ Unconfirmed(n) => StillUnconfirmed(n)
  PROVE  ConfirmedOnce' /\ ConfirmsSent'
<1>1. ConfirmedOnce'
  <2> SUFFICES ASSUME NEW h \in Handlers, NEW i \in 1 .. Len(mailbox[h]),
                      Confirms(h, i)
               PROVE  LET n == mailbox[h][i].id IN
                      /\ StillUnconfirmed(n) /\ place'[n] \in {"live", "told"}
                      /\ at'[n] \in Conns
                      /\ \A j \in 1 .. Len(mailbox[h]) :
                           Confirms(h, j) /\ mailbox[h][j].id = n => j = i
                      /\ \A j \in 1 .. Len(mailbox[h]) :
                           Lost(h, j) /\ mailbox[h][j].id = n => i < j
                      /\ \A c \in Conns : task[c].type = "Subscribed" =>
                           n \notin task[c].sends
    BY DEF ConfirmedOnce, Confirms, Lost, Unconfirmed, StillUnconfirmed
  <2>1. mailbox[h][i].id \in Ids \ {id}
    BY ConfirmedMail
  <2>2. QED
    BY <2>1, ConfirmedMail
<1>2. ConfirmsSent'
  <2>1. \A c \in Conns : task[c].sends \subseteq Ids
    BY DEF BackpressureInv, TypeOK, Task
  <2>2. QED
    BY <2>1 DEF HandleInv, ConfirmsSent, Unconfirmed, StillUnconfirmed
<1>3. QED
  BY <1>1, <1>2

\* An unsubscription is sent, and taken by the connection.
LEMMA HandleUnsub ==
  ASSUME BackpressureInv, HandleInv, NEW id \in Ids,
         SendUnsub(id) \/ \E c \in Conns : TakeUnsub(c, id)
  PROVE  HandleInv'
<1>0. /\ handles \subseteq Ids /\ ending \subseteq Ids
      /\ unsubs \in [Conns -> SUBSET Ids] /\ at \in [Ids -> Conns \cup {NoConn}]
  BY DEF BackpressureInv, TypeOK
<1>1. CASE SendUnsub(id)
  <2>1. PICK c \in Conns : c = at[id]
    BY <1>1 DEF SendUnsub, HandleInv, HandlesTaken
  <2>2. /\ id \in ending /\ unsubs' = [unsubs EXCEPT ![c] = @ \cup {id}]
        /\ ending' = ending \ {id}
        /\ UNCHANGED <<place, at, pc, handles, mailbox, task>>
    BY <1>1, <2>1 DEF SendUnsub
  <2>3. \A d \in Conns : unsubs'[d] = IF d = c THEN unsubs[c] \cup {id} ELSE unsubs[d]
    BY <1>0, <2>2
  <2>4. MailOwned' /\ HandlesTaken'
    BY <2>2 DEF HandleInv, MailOwned, HandlesTaken
  <2>5. UnsubsTaken'
    BY <2>1, <2>2, <2>3 DEF HandleInv, UnsubsTaken, HandlesTaken
  <2>6. ConfirmedOnce' /\ ConfirmsSent'
    <3>1. ~ Unconfirmed(id)
      BY <2>2 DEF Unconfirmed
    <3>2. \A n \in Ids \ {id} : Unconfirmed(n) => StillUnconfirmed(n)
      BY <2>2, <2>3 DEF Unconfirmed, StillUnconfirmed
    <3>3. QED
      BY <2>2, <3>1, <3>2, UnsubMail
  <2>7. QED
    BY <2>4, <2>5, <2>6 DEF HandleInv
<1>2. ASSUME NEW c \in Conns, TakeUnsub(c, id) PROVE HandleInv'
  <2>1. /\ id \in unsubs[c] /\ unsubs' = [unsubs EXCEPT ![c] = @ \ {id}]
        /\ Move({id} \cap Subscribers(c), "closed")
        /\ at' = [at EXCEPT ![id] = IF id \in Subscribers(c) THEN NoConn ELSE @]
        /\ UNCHANGED <<pc, handles, ending, mailbox, task>>
    BY <1>2 DEF TakeUnsub
  <2>2. /\ \A d \in Conns : unsubs'[d] \subseteq unsubs[d]
        /\ \A n \in Ids \ {id} : place'[n] = place[n] /\ at'[n] = at[n]
        /\ at'[id] \in {at[id], NoConn} /\ place'[id] \in {place[id], "closed"}
    <3>1. \A n \in Ids : place'[n] \in {place[n], IF n = id THEN "closed" ELSE place[n]}
      BY <2>1 DEF Move
    <3>2. QED
      BY <1>0, <2>1, <3>1
  <2>3. id \notin handles \cup ending
    BY <2>1 DEF HandleInv, UnsubsTaken
  <2>4. MailOwned' /\ HandlesTaken'
    <3>1. \A n \in handles \cup ending : n \in Ids \ {id}
      BY <1>0, <2>3
    <3>2. QED
      BY <2>1, <2>2, <3>1 DEF HandleInv, MailOwned, HandlesTaken
  <2>5. UnsubsTaken'
    <3> SUFFICES ASSUME NEW d \in Conns, NEW n \in unsubs'[d]
                 PROVE  /\ n \notin handles \cup ending
                        /\ place'[n] \in {"live", "told", "closed"}
                        /\ at'[n] \in {d, NoConn}
      BY <2>1 DEF UnsubsTaken
    <3>1. /\ n \in Ids /\ n \notin handles \cup ending
          /\ place[n] \in {"live", "told", "closed"} /\ at[n] \in {d, NoConn}
      BY <1>0, <2>2 DEF HandleInv, UnsubsTaken
    <3>2. QED
      BY <2>2, <3>1
  <2>6. ConfirmedOnce' /\ ConfirmsSent'
    <3>1. ~ Unconfirmed(id)
      BY <2>1 DEF Unconfirmed
    <3>2. \A n \in Ids \ {id} : Unconfirmed(n) => StillUnconfirmed(n)
      BY <2>1, <2>2 DEF Unconfirmed, StillUnconfirmed
    <3>3. QED
      BY <2>1, <2>2, <3>1, <3>2, UnsubMail
  <2>7. QED
    BY <2>4, <2>5, <2>6 DEF HandleInv
<1>3. QED
  BY <1>1, <1>2

\* A confirmation, a notification or a loss reaches a mailbox or finds no one.
LEMMA HandlePost ==
  ASSUME BackpressureInv, HandleInv, NEW c \in Conns, NEW id \in Ids, Post(c, id)
  PROVE  HandleInv'
<1>0. /\ Owner[id] \in Handlers /\ handles \subseteq Ids /\ ending \subseteq Ids
      /\ \A d \in Conns : unsubs[d] \subseteq Ids
      /\ at \in [Ids -> Conns \cup {NoConn}]
  BY BackpressureAssumption DEF BackpressureInv, TypeOK
<1>1. id \in task[c].sends /\ UNCHANGED <<pc, handles, ending, unsubs>>
  BY DEF Post
<1>2. /\ at[id] = c /\ task[c].type \in Types
      /\ place[id] = IF task[c].type = "Disconnected" THEN "told" ELSE "live"
      /\ \A d \in Conns \ {c} : id \notin task[d].sends
  BY <1>1 DEF BackpressureInv, SendsOwn
<1>3. \A d \in Conns : /\ task'[d].sends \subseteq task[d].sends \ {id}
                       /\ task'[d].sends # {} => task'[d].type = task[d].type
  BY <1>2, PostTask
<1>4. \A n : Unconfirmed(n) <=> StillUnconfirmed(n)
  BY <1>1 DEF Unconfirmed, StillUnconfirmed
<1>5. ConfirmsSent'
  <2> SUFFICES ASSUME NEW d \in Conns, task'[d].type = "Subscribed",
                      NEW n \in task'[d].sends
               PROVE  StillUnconfirmed(n)
    BY DEF ConfirmsSent, Unconfirmed, StillUnconfirmed
  <2> QED
    BY <1>3, <1>4 DEF HandleInv, ConfirmsSent
<1>6. ASSUME NEW n, \A d \in Conns : task[d].type = "Subscribed" =>
                                       n \notin task[d].sends
      PROVE  \A d \in Conns : task'[d].type = "Subscribed" => n \notin task'[d].sends
  BY <1>3, <1>6
<1>7. CASE /\ pc[Owner[id]] = "gone" /\ Move({id}, "closed") /\ UNCHANGED mailbox
           /\ at' = [at EXCEPT ![id] = NoConn]
  <2>1. /\ \A n \in Ids \ {id} : place'[n] = place[n] /\ at'[n] = at[n]
        /\ place'[id] = "closed" /\ at'[id] = NoConn
    BY <1>0, <1>7 DEF Move
  <2>2. id \notin handles \cup ending
    BY <1>7 DEF HandleInv, HandlesTaken
  <2>3. MailOwned'
    BY <1>1, <1>7 DEF HandleInv, MailOwned
  <2>4. HandlesTaken'
    <3>1. \A n \in handles \cup ending : n \in Ids \ {id}
      BY <1>0, <2>2
    <3>2. QED
      BY <1>1, <2>1, <3>1 DEF HandleInv, HandlesTaken
  <2>5. UnsubsTaken'
    <3> SUFFICES ASSUME NEW d \in Conns, NEW n \in unsubs[d]
                 PROVE  /\ n \notin handles \cup ending
                        /\ place'[n] \in {"live", "told", "closed"}
                        /\ at'[n] \in {d, NoConn}
      BY <1>1 DEF UnsubsTaken
    <3> QED
      BY <1>0, <2>1 DEF HandleInv, UnsubsTaken
  <2>6. ConfirmedOnce'
    <3> SUFFICES ASSUME NEW h \in Handlers, NEW i \in 1 .. Len(mailbox[h]),
                        Confirms(h, i)
                 PROVE  LET n == mailbox[h][i].id IN
                        /\ StillUnconfirmed(n) /\ place'[n] \in {"live", "told"}
                        /\ at'[n] \in Conns
                        /\ \A j \in 1 .. Len(mailbox[h]) :
                             Confirms(h, j) /\ mailbox[h][j].id = n => j = i
                        /\ \A j \in 1 .. Len(mailbox[h]) :
                             Lost(h, j) /\ mailbox[h][j].id = n => i < j
                        /\ \A d \in Conns : task'[d].type = "Subscribed" =>
                             n \notin task'[d].sends
      BY <1>7 DEF ConfirmedOnce, Confirms, Lost, Unconfirmed, StillUnconfirmed
    <3>1. PICK n \in Ids : n = mailbox[h][i].id
      BY ConfirmedMail
    <3>2. n # id
      <4>1. Owner[n] = h /\ mailbox[h] # <<>>
        BY <3>1, ConfirmedMail
      <4>2. pc[h] # "gone"
        BY <4>1 DEF HandleInv, MailOwned
      <4>3. QED
        BY <1>7, <4>1, <4>2
    <3>3. QED
      BY <1>4, <1>6, <2>1, <3>1, <3>2, ConfirmedMail
  <2>7. QED
    BY <1>5, <2>3, <2>4, <2>5, <2>6 DEF HandleInv
<1>8. ASSUME CanPost(id), UNCHANGED <<place, at>>,
             mailbox' = [mailbox EXCEPT ![Owner[id]] =
                           Append(@, [type |-> task[c].type, id |-> id])]
      PROVE  HandleInv'
  <2>0. PICK m \in Mail : m = [type |-> task[c].type, id |-> id]
    BY <1>2 DEF Mail
  <2>1. m.type = task[c].type /\ m.id = id
    BY <2>0
  <2>2. PICK h \in Handlers : h = Owner[id]
    BY <1>0
  <2>3. /\ mailbox' = [mailbox EXCEPT ![h] = Append(mailbox[h], m)]
        /\ Len(mailbox[h]) < MailboxCapacity /\ pc[h] # "gone"
    BY <1>8, <2>0, <2>2 DEF CanPost
  <2>4. /\ \A k \in Handlers \ {h} : mailbox'[k] = mailbox[k]
        /\ Len(mailbox[h]) \in Nat /\ Len(mailbox'[h]) = Len(mailbox[h]) + 1
        /\ \A i \in 1 .. Len(mailbox[h]) : mailbox'[h][i] = mailbox[h][i]
        /\ mailbox'[h][Len(mailbox[h]) + 1] = m
    BY <2>3, PostMail DEF BackpressureInv
  <2>5. \A i \in 1 .. Len(mailbox'[h]) :
          i \in 1 .. Len(mailbox[h]) \/ i = Len(mailbox[h]) + 1
    BY <2>4
  <2>6. MailOwned'
    BY <1>1, <2>1, <2>2, <2>3, <2>4, <2>5 DEF HandleInv, MailOwned
  <2>7. HandlesTaken' /\ UnsubsTaken'
    BY <1>1, <1>8 DEF HandleInv, HandlesTaken, UnsubsTaken
  <2>8. ASSUME NEW i \in 1 .. Len(mailbox[h]), mailbox[h][i].id = id
        PROVE  /\ task[c].type = "Subscribed" => ~ Confirms(h, i)
               /\ ~ Lost(h, i)
    <3>1. task[c].type = "Subscribed" => ~ Confirms(h, i)
      BY <1>1, <2>8, ConfirmedMail
    <3>2. ~ Lost(h, i)
      BY <1>1, <2>8 DEF BackpressureInv, ToldOnce
    <3>3. QED
      BY <3>1, <3>2
  <2>9. ConfirmedOnce'
    <3> SUFFICES ASSUME NEW k \in Handlers, NEW i \in 1 .. Len(mailbox'[k]),
                        mailbox'[k][i].type = "Subscribed"
                 PROVE  LET n == mailbox'[k][i].id IN
                        /\ StillUnconfirmed(n) /\ place[n] \in {"live", "told"}
                        /\ at[n] \in Conns
                        /\ \A j \in 1 .. Len(mailbox'[k]) :
                             /\ mailbox'[k][j].type = "Subscribed"
                             /\ mailbox'[k][j].id = n
                             => j = i
                        /\ \A j \in 1 .. Len(mailbox'[k]) :
                             /\ mailbox'[k][j].type = "Disconnected"
                             /\ mailbox'[k][j].id = n
                             => i < j
                        /\ \A d \in Conns : task'[d].type = "Subscribed" =>
                             n \notin task'[d].sends
      BY <1>8 DEF ConfirmedOnce, Confirms, Lost, Unconfirmed, StillUnconfirmed
    <3>1. CASE k # h
      <4>1. mailbox'[k] = mailbox[k] /\ i \in 1 .. Len(mailbox[k]) /\ Confirms(k, i)
        BY <2>4, <3>1 DEF Confirms
      <4>2. QED
        BY <1>4, <1>6, <4>1, ConfirmedMail DEF Confirms, Lost
    <3>2. CASE k = h /\ i = Len(mailbox[h]) + 1
      <4>1. /\ mailbox'[k][i].id = id /\ task[c].type = "Subscribed"
        BY <2>1, <2>4, <3>2
      <4>2. StillUnconfirmed(id)
        BY <1>1, <1>4, <4>1 DEF HandleInv, ConfirmsSent
      <4>3. place[id] \in {"live", "told"} /\ at[id] \in Conns
        BY <1>2
      <4>4. ASSUME NEW j \in 1 .. Len(mailbox'[h]), mailbox'[h][j].id = id
            PROVE  /\ mailbox'[h][j].type = "Subscribed" => j = i
                   /\ mailbox'[h][j].type = "Disconnected" => i < j
        <5>1. CASE j = i
          BY <3>2, <5>1
        <5>2. CASE j \in 1 .. Len(mailbox[h])
          <6>1. mailbox[h][j] = mailbox'[h][j] /\ mailbox[h][j].id = id
            BY <2>4, <4>4, <5>2
          <6>2. ~ Confirms(h, j) /\ ~ Lost(h, j)
            BY <2>8, <4>1, <5>2, <6>1
          <6>3. QED
            BY <5>2, <6>1, <6>2 DEF Confirms, Lost
        <5>3. QED
          BY <2>5, <3>2, <5>1, <5>2
      <4>5. \A d \in Conns : id \notin task'[d].sends
        BY <1>3
      <4>6. QED
        BY <3>2, <4>1, <4>2, <4>3, <4>4, <4>5
    <3>3. CASE k = h /\ i \in 1 .. Len(mailbox[h])
      <4>1. mailbox'[h][i] = mailbox[h][i] /\ Confirms(h, i)
        BY <2>4, <3>3 DEF Confirms
      <4>2. PICK n \in Ids : n = mailbox[h][i].id
        BY <3>3, <4>1, ConfirmedMail
      <4>3. /\ Unconfirmed(n) /\ place[n] \in {"live", "told"} /\ at[n] \in Conns
            /\ \A j \in 1 .. Len(mailbox[h]) :
                 Confirms(h, j) /\ mailbox[h][j].id = n => j = i
            /\ \A j \in 1 .. Len(mailbox[h]) :
                 Lost(h, j) /\ mailbox[h][j].id = n => i < j
            /\ \A d \in Conns : task[d].type = "Subscribed" => n \notin task[d].sends
        BY <3>3, <4>1, <4>2, ConfirmedMail
      <4>4. ASSUME NEW j \in 1 .. Len(mailbox'[h]), mailbox'[h][j].id = n
            PROVE  /\ mailbox'[h][j].type = "Subscribed" => j = i
                   /\ mailbox'[h][j].type = "Disconnected" => i < j
        <5>1. CASE j = Len(mailbox[h]) + 1
          <6>1. n = id /\ mailbox'[h][j].type = task[c].type
            BY <2>1, <2>4, <4>4, <5>1
          <6>2. task[c].type # "Subscribed"
            BY <1>1, <4>3, <6>1
          <6>3. i < j
            BY <2>4, <3>3, <5>1
          <6>4. QED
            BY <6>1, <6>2, <6>3
        <5>2. CASE j \in 1 .. Len(mailbox[h])
          <6>1. mailbox[h][j] = mailbox'[h][j] /\ mailbox[h][j].id = n
            BY <2>4, <4>4, <5>2
          <6>2. QED
            BY <4>3, <5>2, <6>1 DEF Confirms, Lost
        <5>3. QED
          BY <2>5, <5>1, <5>2
      <4>5. /\ StillUnconfirmed(n)
            /\ \A d \in Conns : task'[d].type = "Subscribed" => n \notin task'[d].sends
        BY <1>4, <1>6, <4>3
      <4>6. QED
        BY <3>3, <4>1, <4>2, <4>3, <4>4, <4>5
    <3>4. QED
      BY <2>5, <3>1, <3>2, <3>3
  <2>10. QED
    BY <1>5, <2>6, <2>7, <2>9 DEF HandleInv
<1>9. QED
  BY <1>7, <1>8 DEF Post

-----------------------------------------------------------------------------
\* What handlers hold and end survives every step.
LEMMA HandleNext == BackpressureInv /\ HandleInv /\ [Next]_vars => HandleInv'
<1> SUFFICES ASSUME BackpressureInv, HandleInv, [Next]_vars PROVE HandleInv'
  OBVIOUS
<1>1. ASSUME NEW h \in Handlers, HandlerStep(h) PROVE HandleInv'
  BY <1>1, HandleReadSubscribed, HandleReadNotification, HandleReadDisconnected,
     HandleOutside, HandleClosing, HandleUnsub DEF HandlerStep, Own
<1>2. ASSUME NEW c \in Conns, NEW id \in Ids, Post(c, id) \/ TakeUnsub(c, id)
      PROVE  HandleInv'
  BY <1>2, HandlePost, HandleUnsub
<1>3. CASE UNCHANGED vars
  <2>1. /\ UNCHANGED <<pc, handles, ending, mailbox, unsubs>>
        /\ UNCHANGED <<place, at, task>>
    BY <1>3 DEF vars
  <2>2. QED
    BY <2>1, OutsideSteps
<1>4. QED
  BY <1>1, <1>2, <1>3, HandleOutside, HandleClosing DEF Next, Dispatch

\* What handlers hold and end is as it should be in every reachable state.
LEMMA HandleInvariant == Spec => []HandleInv
BY HandleInit, HandleNext, BackpressureInvariant, PTL DEF Spec

-----------------------------------------------------------------------------
(* Waiting in a circle                                                     *)

\* Disjoint sets of requests: their sizes add up.
LEMMA DisjointSizes ==
  ASSUME NEW S \in SUBSET Ids, NEW T \in SUBSET Ids, S \cap T = {}
  PROVE  /\ S \cup T \in SUBSET Ids
         /\ Cardinality(S \cup T) = Cardinality(S) + Cardinality(T)
<1>1. IsFiniteSet(S) /\ IsFiniteSet(T) /\ Cardinality(S) \in Nat /\ Cardinality(T) \in Nat
  BY FiniteIds
<1>2. Cardinality(S \cup T) = Cardinality(S) + Cardinality(T) - Cardinality({})
  BY <1>1, FS_Union
<1>3. QED
  BY <1>1, <1>2, FS_EmptySet

\* A place with a request in it has at least one.
LEMMA SomeIn ==
  ASSUME NEW S \in SUBSET Ids, S # {}
  PROVE  Cardinality(S) >= 1
<1>1. IsFiniteSet(S) /\ Cardinality(S) \in Nat
  BY FiniteIds
<1>2. Cardinality(S) # 0
  BY <1>1, FS_EmptySet
<1>3. QED
  BY <1>1, <1>2

\* A set with a request of every connection is at least as large as the set of
\* the connections.
LEMMA EveryConnHasOne ==
  ASSUME NEW T \in SUBSET Ids, NEW f, \A c \in Conns : f[c] \in T /\ at[f[c]] = c,
         f = [c \in Conns |-> f[c]]
  PROVE  Cardinality(Conns) \in Nat /\ Cardinality(Conns) <= Cardinality(T)
<1>1. f \in [Conns -> T] /\ \A a, b \in Conns : f[a] = f[b] => a = b
  OBVIOUS
<1>2. f \in Injection(Conns, T)
  BY <1>1 DEF Injection, IsInjective
<1>3. IsFiniteSet(T)
  BY FiniteIds
<1>4. QED
  BY <1>2, <1>3, FS_Injection, FS_CardinalityType

\* A blocked dispatcher holds a request, and the queue is full; all of these
\* are apart from any requests elsewhere.
LEMMA DispatcherHolds ==
  ASSUME BackpressureInv, DispatcherStuck, NEW S \in SUBSET Ids,
         \A id \in S : place[id] \notin {"queue", "blocked"}
  PROVE  Cardinality(Ids) \in Nat
         /\ Cardinality(Ids) >= Cardinality(S) + QueueCapacity + 1
<1> DEFINE Q == In("queue")
           B == In("blocked")
<1>0. /\ Q \in SUBSET Ids /\ B \in SUBSET Ids /\ B # {}
      /\ ~ (Cardinality(Q) < QueueCapacity)
      /\ S \cap Q = {} /\ (S \cup Q) \cap B = {}
  BY DEF DispatcherStuck, Room, In
<1> HIDE DEF Q, B
<1>1. S \cup Q \in SUBSET Ids /\ Cardinality(S \cup Q) = Cardinality(S) + Cardinality(Q)
  BY <1>0, DisjointSizes
<1>2. /\ (S \cup Q) \cup B \in SUBSET Ids
      /\ Cardinality((S \cup Q) \cup B) = Cardinality(S \cup Q) + Cardinality(B)
  BY <1>0, <1>1, DisjointSizes
<1>3. Cardinality((S \cup Q) \cup B) <= Cardinality(Ids) /\ Cardinality(Ids) \in Nat
  BY <1>2, BackpressureAssumption, FS_Subset, FS_CardinalityType
<1>4. Cardinality(B) >= 1
  BY <1>0, SomeIn
<1>5. /\ Cardinality(S) \in Nat /\ Cardinality(Q) \in Nat /\ Cardinality(B) \in Nat
      /\ QueueCapacity \in Nat
  BY <1>0, FiniteIds, BackpressureAssumption
<1>6. QED
  BY <1>0, <1>1, <1>2, <1>3, <1>4, <1>5

\* If a handler waits for room in the channel, the channel is full and there is
\* one more request, beside the one that every connection is sending to.
LEMMA ChannelCircle ==
  ASSUME BackpressureInv, CircularWait, NEW h \in Handlers, Waits(h),
         Cardinality(In("channel")) = ChannelCapacity
  PROVE  /\ Cardinality(Ids) \in Nat /\ Cardinality(Conns) \in Nat
         /\ Cardinality(Ids) >= QueueCapacity + 1 + Cardinality(Conns)
                                  + ChannelCapacity + 1
<1> DEFINE T == In("live") \cup In("told")
           Ch == In("channel")
           W == In("sending")
           f == [c \in Conns |-> CHOOSE id \in task[c].sends : TRUE]
<1>1. ASSUME NEW c \in Conns PROVE f[c] \in T /\ at[f[c]] = c
  <2>1. f[c] \in task[c].sends
    BY DEF CircularWait, ConnStuck
  <2>2. QED
    BY <2>1 DEF BackpressureInv, SendsOwn, TypeOK, Task, In
<1>2. f = [c \in Conns |-> f[c]]
  OBVIOUS
<1>3. /\ T \in SUBSET Ids /\ Ch \in SUBSET Ids /\ W \in SUBSET Ids /\ W # {}
      /\ T \cap Ch = {} /\ (T \cup Ch) \cap W = {}
      /\ \A id \in (T \cup Ch) \cup W : place[id] \notin {"queue", "blocked"}
  BY DEF In, Waits, Own
<1>4. Cardinality(Ch) = ChannelCapacity
  OBVIOUS
<1> HIDE DEF f, T, Ch, W
<1>5. Cardinality(Conns) \in Nat /\ Cardinality(Conns) <= Cardinality(T)
  BY <1>1, <1>2, <1>3, EveryConnHasOne
<1>6. T \cup Ch \in SUBSET Ids /\ Cardinality(T \cup Ch) = Cardinality(T) + Cardinality(Ch)
  BY <1>3, DisjointSizes
<1>7. /\ (T \cup Ch) \cup W \in SUBSET Ids
      /\ Cardinality((T \cup Ch) \cup W) = Cardinality(T \cup Ch) + Cardinality(W)
  BY <1>3, <1>6, DisjointSizes
<1>8. Cardinality(W) >= 1 /\ Cardinality(W) \in Nat /\ Cardinality(T) \in Nat
  BY <1>3, SomeIn, FiniteIds
<1>9. /\ Cardinality(Ids) \in Nat
      /\ Cardinality(Ids) >= Cardinality((T \cup Ch) \cup W) + QueueCapacity + 1
  BY <1>3, <1>7, DispatcherHolds DEF CircularWait
<1>10. QED
  BY <1>4, <1>5, <1>6, <1>7, <1>8, <1>9, BackpressureAssumption

\* If a handler waits for room to send an unsubscription, the channel of that
\* connection is full; the subscription it ends belongs to that connection, and
\* every other connection is sending to one of its own.
LEMMA UnsubCircle ==
  ASSUME BackpressureInv, HandleInv, CircularWait, NEW x \in ending,
         Cardinality(unsubs[at[x]]) = UnsubCapacity
  PROVE  /\ Cardinality(Ids) \in Nat /\ Cardinality(Conns) \in Nat
         /\ Cardinality(Ids) >= QueueCapacity + 1 + Cardinality(Conns)
                                  + UnsubCapacity
<1>0. x \in Ids /\ place[x] \in {"live", "told"} /\ at[x] \in Conns
  BY DEF BackpressureInv, TypeOK, HandleInv, HandlesTaken
<1>1. PICK d \in Conns : d = at[x]
  BY <1>0
<1> DEFINE U == unsubs[d]
           T == (In("live") \cup In("told")) \ U
           f == [c \in Conns |-> IF c = d THEN x
                                 ELSE CHOOSE id \in task[c].sends : TRUE]
<1>2. /\ U \in SUBSET Ids /\ Cardinality(U) = UnsubCapacity /\ x \notin U
      /\ \A id \in U : /\ place[id] \in {"live", "told", "closed"}
                       /\ at[id] \in {d, NoConn}
  BY <1>1 DEF BackpressureInv, TypeOK, HandleInv, UnsubsTaken
<1>3. ASSUME NEW c \in Conns PROVE f[c] \in T /\ at[f[c]] = c
  <2>1. CASE c = d
    BY <1>0, <1>1, <1>2, <2>1 DEF In
  <2>2. CASE c # d
    <3>1. f[c] \in task[c].sends
      BY <2>2 DEF CircularWait, ConnStuck
    <3>2. f[c] \in In("live") \cup In("told") /\ at[f[c]] = c
      BY <3>1 DEF BackpressureInv, SendsOwn, TypeOK, Task, In
    <3>3. f[c] \notin U
      BY <1>2, <2>2, <3>2, BackpressureAssumption
    <3>4. QED
      BY <3>2, <3>3
  <2>3. QED
    BY <2>1, <2>2
<1>4. f = [c \in Conns |-> f[c]]
  OBVIOUS
<1>5. /\ T \in SUBSET Ids /\ T \cap U = {}
      /\ \A id \in T \cup U : place[id] \notin {"queue", "blocked"}
  BY <1>2 DEF In
<1> HIDE DEF f, T, U
<1>6. Cardinality(Conns) \in Nat /\ Cardinality(Conns) <= Cardinality(T)
  BY <1>3, <1>4, <1>5, EveryConnHasOne
<1>7. T \cup U \in SUBSET Ids /\ Cardinality(T \cup U) = Cardinality(T) + Cardinality(U)
  BY <1>2, <1>5, DisjointSizes
<1>8. Cardinality(T) \in Nat
  BY <1>5, FiniteIds
<1>9. /\ Cardinality(Ids) \in Nat
      /\ Cardinality(Ids) >= Cardinality(T \cup U) + QueueCapacity + 1
  BY <1>5, <1>7, DispatcherHolds DEF CircularWait
<1>10. QED
  BY <1>2, <1>6, <1>7, <1>8, <1>9, BackpressureAssumption

\* A circle goes over the channel of the dispatcher or over an unsubscription
\* channel, and either takes its requests.
LEMMA CircleNeedsRequests ==
  ASSUME BackpressureInv, HandleInv, CircularWait
  PROVE  ~ (Cardinality(Ids) < CircleSize)
<1>1. PICK c \in Conns : ConnStuck(c)
  BY DEF CircularWait
<1>2. PICK id \in task[c].sends : HandlerStuck(Owner[id])
  BY <1>1 DEF ConnStuck
<1>3. Owner[id] \in Handlers
  BY <1>2, BackpressureAssumption DEF BackpressureInv, TypeOK, Task
<1>4. CASE /\ Waits(Owner[id])
           /\ Cardinality(In("channel")) = ChannelCapacity
  BY <1>3, <1>4, ChannelCircle, BackpressureAssumption DEF CircleSize
<1>5. ASSUME NEW x \in ending, Cardinality(unsubs[at[x]]) = UnsubCapacity
      PROVE  ~ (Cardinality(Ids) < CircleSize)
  BY <1>5, UnsubCircle, BackpressureAssumption DEF CircleSize
<1>6. QED
  BY <1>2, <1>4, <1>5 DEF HandlerStuck

\* Handlers, dispatcher and connections never wait for each other in a circle,
\* over the channel of the dispatcher or over the unsubscriptions, while there
\* are fewer requests than such a circle takes, whatever the capacities and
\* whatever is lost, closed or asked for again on the way.
THEOREM CirclesNeedRequests == Spec => []NoCircularWait
<1>1. BackpressureInv /\ HandleInv => NoCircularWait
  BY CircleNeedsRequests DEF NoCircularWait
<1>2. QED
  BY <1>1, BackpressureInvariant, HandleInvariant, PTL

=============================================================================
