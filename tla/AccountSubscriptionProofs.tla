----------------------- MODULE AccountSubscriptionProofs -----------------------
(***************************************************************************)
(* Theorems about one accountSubscribe, for any number of ER nodes, of     *)
(* delegations, of ids and of faults.                                      *)
(***************************************************************************)
EXTENDS AccountSubscription, FiniteSetTheorems, TLAPS

TypeInv == TypeOK /\ \A u \in Upstreams : IsFiniteSet(subscriptions[u])

\* Without a lost connection, what the handler made on a delegation has an id
\* other than its own, is marked "Ephem" and is about an ER node.
RequestMarked(q) ==
  /\ q.request_id = 0 <=> q.upstream = "Chain"
  /\ q.request_id # 0 => q.destination \in Ers
SubscriberMarked(u, s) ==
  /\ s.request_id = 0 <=> s.upstream = "Chain"
  /\ u = Chain => s.upstream = "Chain"
MessageMarked(m) ==
  /\ m.type # "Disconnected"
  /\ m.type = "Subscribed" /\ m.id # 0 => m.handle.unsub \in Ers
  /\ m.type = "Notification" /\ m.upstream = "Ephem" => m.id # 0
Marked ==
  /\ \A q \in requests : RequestMarked(q)
  /\ \A u \in Upstreams : \A s \in subscriptions[u] : SubscriberMarked(u, s)
  /\ \A m \in Range(mailbox) : MessageMarked(m)
  /\ \A i \in Ids \ {0} : handles[i] # None => handles[i].unsub \in Ers
  /\ \A q \in unsubs : q.to \in Ers

ChainWatched == Listening(Chain) \/ \E q \in requests : q.destination = Chain

\* The handler follows the account to its node, or is still to be told of the
\* delegation by the base chain.
Announced ==
  \E n \in Range(feed[Chain]) :
    n.owner = "dlp" /\ \E s \in subscriptions[Chain] : s.sub = n.sub
Told(m) == m.type = "Notification" /\ m.upstream = "Chain" /\ m.owner = "dlp"
Followed ==
  \/ Listening(authority)
  \/ \E q \in requests : q.destination = authority
  \/ Announced
  \/ \E m \in Range(mailbox) : Told(m)

Watched == pc # "gone" /\ "connection lost" \notin excuses

AccountInv ==
  /\ TypeInv
  /\ Watched => Marked
  /\ Watched /\ pc # "idle" => ChainWatched
  /\ excuses = {} /\ Open /\ authority # None => Followed

-----------------------------------------------------------------------------
(* Sequences and what is in them                                           *)

\* What a sequence holds when an element is added.
LEMMA AppendRange ==
  ASSUME NEW S, NEW s \in Seq(S), NEW v \in S
  PROVE  Append(s, v) \in Seq(S) /\ Range(Append(s, v)) = Range(s) \cup {v}
<1>1. /\ Len(s) \in Nat /\ DOMAIN s = 1 .. Len(s) /\ Append(s, v) \in Seq(S)
      /\ DOMAIN Append(s, v) = 1 .. Len(s) + 1
      /\ \A i \in 1 .. Len(s) : Append(s, v)[i] = s[i]
      /\ Append(s, v)[Len(s) + 1] = v
  OBVIOUS
<1> DEFINE t == Append(s, v)
<1>2. \A i : i \in 1 .. Len(s) + 1 <=> i \in 1 .. Len(s) \/ i = Len(s) + 1
  BY <1>1
<1>3. Range(t) \subseteq Range(s) \cup {v}
  BY <1>1, <1>2, Zenon DEF Range
<1>4. Range(s) \cup {v} \subseteq Range(t)
  BY <1>1, <1>2, Zenon DEF Range
<1>5. QED
  BY <1>1, <1>3, <1>4

\* When the first is read.
LEMMA TailRange ==
  ASSUME NEW S, NEW s \in Seq(S), s # <<>>
  PROVE  /\ Head(s) \in S /\ Tail(s) \in Seq(S)
         /\ Range(s) = {Head(s)} \cup Range(Tail(s))
<1>1. /\ Len(s) \in Nat \ {0} /\ DOMAIN s = 1 .. Len(s)
      /\ DOMAIN Tail(s) = 1 .. Len(s) - 1
      /\ \A i \in 1 .. Len(s) - 1 : Tail(s)[i] = s[i + 1]
      /\ Head(s) = s[1] /\ Head(s) \in S /\ Tail(s) \in Seq(S)
  OBVIOUS
<1>2. ASSUME NEW i \in DOMAIN s PROVE s[i] \in {Head(s)} \cup Range(Tail(s))
  <2>1. CASE i = 1
    BY <1>1, <2>1
  <2>2. CASE i # 1
    <3>1. i - 1 \in DOMAIN Tail(s) /\ Tail(s)[i - 1] = s[i]
      BY <1>1, <2>2
    <3>2. QED
      BY <3>1 DEF Range
  <2>3. QED
    BY <2>1, <2>2
<1>3. ASSUME NEW i \in DOMAIN Tail(s) PROVE Tail(s)[i] \in Range(s)
  <2>1. i + 1 \in DOMAIN s /\ Tail(s)[i] = s[i + 1]
    BY <1>1
  <2>2. QED
    BY <2>1 DEF Range
<1>4. Head(s) \in Range(s)
  BY <1>1 DEF Range
<1>5. Range(s) \subseteq {Head(s)} \cup Range(Tail(s))
  BY <1>2 DEF Range
<1>6. {Head(s)} \cup Range(Tail(s)) \subseteq Range(s)
  <2>1. Range(Tail(s)) \subseteq Range(s)
    <3> SUFFICES ASSUME NEW x \in Range(Tail(s)) PROVE x \in Range(s)
      OBVIOUS
    <3>1. PICK i \in DOMAIN Tail(s) : x = Tail(s)[i]
      BY DEF Range
    <3>2. QED
      BY <1>3, <3>1
  <2>2. QED
    BY <1>4, <2>1
<1>7. QED
  BY <1>1, <1>5, <1>6

\* When others are appended.
LEMMA ConcatRange ==
  ASSUME NEW S, NEW s \in Seq(S), NEW t \in Seq(S)
  PROVE  s \o t \in Seq(S) /\ Range(s \o t) = Range(s) \cup Range(t)
<1>1. /\ Len(s) \in Nat /\ DOMAIN s = 1 .. Len(s)
      /\ Len(t) \in Nat /\ DOMAIN t = 1 .. Len(t)
      /\ s \o t \in Seq(S) /\ DOMAIN (s \o t) = 1 .. Len(s) + Len(t)
      /\ \A i \in 1 .. Len(s) + Len(t) :
           (s \o t)[i] = IF i <= Len(s) THEN s[i] ELSE t[i - Len(s)]
  OBVIOUS
<1>2. ASSUME NEW i \in DOMAIN (s \o t) PROVE (s \o t)[i] \in Range(s) \cup Range(t)
  <2>1. CASE i <= Len(s)
    <3>1. i \in DOMAIN s /\ (s \o t)[i] = s[i]
      BY <1>1, <2>1
    <3>2. QED
      BY <3>1 DEF Range
  <2>2. CASE ~ (i <= Len(s))
    <3>1. i - Len(s) \in DOMAIN t /\ (s \o t)[i] = t[i - Len(s)]
      BY <1>1, <2>2
    <3>2. QED
      BY <3>1 DEF Range
  <2>3. QED
    BY <2>1, <2>2
<1>3. ASSUME NEW i \in DOMAIN s PROVE s[i] \in Range(s \o t)
  <2>1. i \in DOMAIN (s \o t) /\ (s \o t)[i] = s[i]
    BY <1>1
  <2>2. QED
    BY <2>1 DEF Range
<1>4. ASSUME NEW i \in DOMAIN t PROVE t[i] \in Range(s \o t)
  <2>1. i + Len(s) \in DOMAIN (s \o t) /\ (s \o t)[i + Len(s)] = t[i]
    BY <1>1
  <2>2. QED
    BY <2>1 DEF Range
<1>5. ASSUME NEW x \in Range(s \o t) PROVE x \in Range(s) \cup Range(t)
  <2>1. PICK i \in DOMAIN (s \o t) : x = (s \o t)[i]
    BY <1>5 DEF Range
  <2>2. QED
    BY <1>2, <2>1
<1>6. ASSUME NEW x \in Range(s) \cup Range(t) PROVE x \in Range(s \o t)
  <2>1. \/ \E i \in DOMAIN s : x = s[i]
        \/ \E i \in DOMAIN t : x = t[i]
    BY <1>6 DEF Range
  <2>2. QED
    BY <1>3, <1>4, <2>1
<1>7. QED
  BY <1>1, <1>5, <1>6

\* An order of a finite set is a sequence of all its elements.
LEMMA OrderRange ==
  ASSUME NEW S, IsFiniteSet(S), NEW order \in SetToSeqs(S)
  PROVE  order \in Seq(S) /\ Range(order) = S
<1> DEFINE D == 1 .. Cardinality(S)
<1>1. /\ Cardinality(S) \in Nat /\ order \in [D -> S]
      /\ \A i, j \in D : i # j => order[i] # order[j]
  BY FS_CardinalityType DEF SetToSeqs
<1>2. order \in Seq(S)
  BY <1>1
<1>3. Range(order) \subseteq S
  BY <1>1 DEF Range
<1>4. ASSUME NEW x \in S, x \notin Range(order)
      PROVE  FALSE
  <2>1. order \in [D -> S \ {x}]
    BY <1>1, <1>4 DEF Range
  <2>2. IsFiniteSet(S \ {x}) /\ Cardinality(S \ {x}) = Cardinality(S) - 1
    BY FS_RemoveElement
  <2>3. IsFiniteSet(D) /\ Cardinality(D) = Cardinality(S)
    <3>1. Cardinality(S) # 0
      BY FS_EmptySet
    <3>2. QED
      BY <1>1, <3>1, FS_Interval
  <2>4. Cardinality(S \ {x}) < Cardinality(D)
    BY <1>1, <2>2, <2>3
  <2>5. \E i, j \in D : i # j /\ order[i] = order[j]
    <3> HIDE DEF D
    <3>1. QED
      BY ONLY <2>1, <2>2, <2>3, <2>4, FS_PigeonHole, Zenon
  <2>6. QED
    BY <1>1, <2>5
<1>5. QED
  BY <1>2, <1>3, <1>4

-----------------------------------------------------------------------------
(* Types                                                                   *)

\* The fields of a request.
LEMMA RequestFields ==
  ASSUME NEW q \in Subscription
  PROVE  /\ q.request_id \in Ids /\ q.subscriber_id \in Ids
         /\ q.destination \in Upstreams /\ q.upstream \in Kinds
BY DEF Subscription

\* Of a subscriber.
LEMMA SubscriberFields ==
  ASSUME NEW s \in SubscriberHandle
  PROVE  /\ s.sub \in 1 .. MaxSubs /\ s.request_id \in Ids
         /\ s.subscriber_id \in Ids /\ s.upstream \in Kinds
BY DEF SubscriberHandle

\* Of a message.
LEMMA MessageFields ==
  ASSUME NEW m \in Message
  PROVE  /\ m.type \in {"Subscribed", "Notification", "Disconnected"}
         /\ m.id \in Ids
         /\ m.type = "Subscribed" => m.handle \in SubscriptionHandle
         /\ m.type = "Notification" => /\ m.upstream \in Kinds
                                       /\ m.owner \in {"dlp", "own"}
BY DEF Message

\* A bound that is spent.
LEMMA SpendType ==
  ASSUME left \in [Events -> Nat], NEW b \in Events, Spend(b)
  PROVE  left' \in [Events -> Nat]
BY DEF Spend

\* What an upstream sends, and what a connection makes of it.
Notice == [sub : 1 .. MaxSubs, owner : {"dlp", "own"}]
Passed(s, owner) == [type |-> "Notification", id |-> s.request_id,
                     upstream |-> s.upstream, owner |-> owner]
Ended(s) == [type |-> "Disconnected", id |-> s.request_id]

\* The feeds when upstreams notify.
LEMMA NotifyFeed ==
  ASSUME TypeOK, NEW owners, \A u \in DOMAIN owners : owners[u] \in {"dlp", "own"},
         Notify(owners)
  PROVE  /\ feed' \in [Upstreams -> Seq(Notice)]
         /\ \A u \in Upstreams : Range(feed[u]) \subseteq Range(feed'[u])
         /\ \A u \in Upstreams \cap DOMAIN owners : active[u] # 0 =>
              [sub |-> active[u], owner |-> owners[u]] \in Range(feed'[u])
<1>1. feed \in [Upstreams -> Seq(Notice)] /\ active \in [Upstreams -> 0 .. MaxSubs]
  BY DEF TypeOK, Notice
<1>2. ASSUME NEW u \in Upstreams
      PROVE  /\ feed'[u] \in Seq(Notice) /\ Range(feed[u]) \subseteq Range(feed'[u])
             /\ u \in DOMAIN owners /\ active[u] # 0 =>
                  [sub |-> active[u], owner |-> owners[u]] \in Range(feed'[u])
  <2>1. CASE u \in DOMAIN owners /\ active[u] # 0
    <3>1. PICK n : n = [sub |-> active[u], owner |-> owners[u]]
      OBVIOUS
    <3>2. active[u] \in 1 .. MaxSubs
      BY <1>1, <2>1, AccountAssumption
    <3>3. n \in Notice
      BY <2>1, <3>1, <3>2 DEF Notice
    <3>4. feed'[u] = Append(feed[u], n)
      BY <2>1, <3>1 DEF Notify
    <3>5. QED
      BY <1>1, <3>1, <3>3, <3>4, AppendRange
  <2>2. CASE ~ (u \in DOMAIN owners /\ active[u] # 0)
    <3>1. feed'[u] = feed[u]
      BY <2>2 DEF Notify
    <3>2. QED
      BY <1>1, <2>2, <3>1
  <2>3. QED
    BY <2>1, <2>2
<1>3. feed' = [u \in Upstreams |-> feed'[u]]
  BY DEF Notify
<1>4. feed' \in [Upstreams -> Seq(Notice)]
  BY <1>2, <1>3
<1>5. QED
  BY <1>2, <1>4

\* A notification passed on to the listeners.
LEMMA PassedRange ==
  ASSUME NEW S, IsFiniteSet(S), S \subseteq SubscriberHandle, NEW order \in SetToSeqs(S),
         NEW owner \in {"dlp", "own"}, NEW t,
         t = [i \in DOMAIN order |-> Passed(order[i], owner)]
  PROVE  t \in Seq(Message) /\ Range(t) = {Passed(s, owner) : s \in S}
<1>1. order \in Seq(S) /\ Range(order) = S
  BY OrderRange
<1>2. PICK len \in Nat : DOMAIN order = 1 .. len
  BY <1>1
<1>3. \A s \in S : Passed(s, owner) \in Message
  BY SubscriberFields DEF Passed, Message
<1>4. \A i \in 1 .. len : order[i] \in S
  BY <1>1, <1>2
<1>5. \A i \in 1 .. len : t[i] \in Message
  BY <1>2, <1>3, <1>4
<1>6. t \in Seq(Message)
  <2>1. t = [i \in 1 .. len |-> t[i]]
    BY <1>2
  <2>2. QED
    BY <1>5, <2>1
<1>7. \A x : x \in Range(t) <=> \E i \in DOMAIN order : x = Passed(order[i], owner)
  BY DEF Range
<1>8. \A s : s \in S <=> \E i \in DOMAIN order : s = order[i]
  BY <1>1 DEF Range
<1>9. Range(t) = {Passed(s, owner) : s \in S}
  BY <1>7, <1>8, Zenon
<1>10. QED
  BY <1>6, <1>9

\* A loss that the subscribers are told of.
LEMMA EndedRange ==
  ASSUME NEW S, IsFiniteSet(S), S \subseteq SubscriberHandle, NEW order \in SetToSeqs(S),
         NEW t, t = [i \in DOMAIN order |-> Ended(order[i])]
  PROVE  t \in Seq(Message)
<1>1. order \in Seq(S)
  BY OrderRange
<1>2. PICK len \in Nat : DOMAIN order = 1 .. len
  BY <1>1
<1>3. \A s \in S : Ended(s) \in Message
  BY SubscriberFields DEF Ended, Message
<1>4. \A i \in 1 .. len : order[i] \in S
  BY <1>1, <1>2
<1>5. \A i \in 1 .. len : t[i] \in Message
  BY <1>2, <1>3, <1>4
<1>6. t = [i \in 1 .. len |-> t[i]]
  BY <1>2
<1>7. QED
  BY <1>5, <1>6

-----------------------------------------------------------------------------
(* The environment                                                         *)

\* The invariant holds at the start.
LEMMA AccountInit == Init => AccountInv
<1> SUFFICES ASSUME Init PROVE AccountInv
  OBVIOUS
<1>1. /\ 0 \in 0 .. MaxSubs /\ 0 \in Ids /\ {} \in SUBSET SubscriberHandle
      /\ <<>> \in Seq(Notice) /\ <<>> \in Seq(Message) /\ Range(<<>>) = {}
  BY AccountAssumption DEF Ids, Range
<1>2. /\ active \in [Upstreams -> 0 .. MaxSubs] /\ given \in [Upstreams -> 0 .. MaxSubs]
      /\ request_to_subs \in [Upstreams -> [Ids -> 0 .. MaxSubs]]
      /\ subscriptions \in [Upstreams -> SUBSET SubscriberHandle]
      /\ feed \in [Upstreams -> Seq(Notice)]
  BY <1>1 DEF Init
<1>3. /\ handles \in [Ids -> SubscriptionHandle \cup {None}] /\ left \in [Events -> Nat]
      /\ mailbox \in Seq(Message)
  BY <1>1, AccountAssumption DEF Init, NoHandles
<1>4. TypeOK
  BY <1>1, <1>2, <1>3 DEF Init, TypeOK, Notice
<1>5. \A u \in Upstreams : IsFiniteSet(subscriptions[u])
  BY FS_EmptySet DEF Init
<1>6. Marked
  BY <1>1 DEF Init, Marked, NoHandles
<1>7. QED
  BY <1>4, <1>5, <1>6 DEF Init, AccountInv, TypeInv, Open

\* What is noted down stays.
LEMMA ExcuseKept ==
  ASSUME excuses \subseteq Excuses, NEW e \in Excuses, NEW happened,
         Excuse(e, happened)
  PROVE  /\ excuses' \subseteq Excuses /\ excuses \subseteq excuses'
         /\ happened => e \in excuses'
BY DEF Excuse

\* A step of the account, the nodes or the delegation cache.
LEMMA EnvironmentStep ==
  ASSUME AccountInv,
         UNCHANGED <<requests, unsubs, active, given, request_to_subs,
                     subscriptions, handler, mailbox>>,
         authority' \in Ers \cup {None}, cached' \in Ers \cup {None},
         inner' \subseteq Ers, feed' \in [Upstreams -> Seq(Notice)],
         \A u \in Upstreams : Range(feed[u]) \subseteq Range(feed'[u]),
         excuses \subseteq excuses', excuses' \subseteq Excuses,
         left' \in [Events -> Nat],
         excuses' = {} /\ Open /\ authority' # None =>
           authority' = authority \/ Announced'
  PROVE  AccountInv'
<1>1. TypeInv'
  BY DEF AccountInv, TypeInv, TypeOK, handler, Notice
<1>2. Chain \in Upstreams
  BY DEF Upstreams
<1>3. Announced => Announced'
  BY <1>2 DEF Announced
<1>4. Watched' => Watched /\ Marked'
  BY DEF AccountInv, Marked, Watched, handler
<1>5. Watched' /\ pc' # "idle" => ChainWatched'
  BY <1>4 DEF AccountInv, ChainWatched, Listening, handler
<1>6. excuses' = {} /\ Open' /\ authority' # None => Followed'
  <2> SUFFICES ASSUME excuses' = {}, Open', authority' # None
               PROVE  Followed'
    OBVIOUS
  <2>1. excuses = {} /\ Open
    BY DEF Open, handler
  <2>2. CASE Announced'
    BY <2>2 DEF Followed
  <2>3. CASE authority' = authority
    <3>1. Followed
      BY <2>1, <2>3 DEF AccountInv
    <3>2. QED
      BY <1>3, <2>3, <3>1 DEF Followed, Listening
  <2>4. QED
    BY <2>1, <2>2, <2>3
<1>7. QED
  BY <1>1, <1>4, <1>5, <1>6 DEF AccountInv

\* The account is delegated: the base chain says so, or nobody listens to it.
LEMMA AccountDelegate ==
  ASSUME AccountInv, NEW v \in Ers, Delegate(v)
  PROVE  AccountInv'
<1>1. TypeOK
  BY DEF AccountInv, TypeInv
<1>2. PICK owners : owners = [u \in {Chain} |-> "dlp"] /\ Notify(owners)
  BY DEF Delegate
<1>3. /\ DOMAIN owners = {Chain} /\ owners[Chain] = "dlp"
      /\ \A u \in DOMAIN owners : owners[u] \in {"dlp", "own"}
      /\ Chain \in Upstreams
  BY <1>2 DEF Upstreams
<1>4. /\ feed' \in [Upstreams -> Seq(Notice)]
      /\ \A u \in Upstreams : Range(feed[u]) \subseteq Range(feed'[u])
      /\ active[Chain] # 0 =>
           [sub |-> active[Chain], owner |-> "dlp"] \in Range(feed'[Chain])
  BY <1>1, <1>2, <1>3, NotifyFeed
<1>5. left' \in [Events -> Nat]
  BY <1>1, SpendType DEF Delegate, TypeOK, Events
<1>6. /\ excuses' \subseteq Excuses /\ excuses \subseteq excuses'
      /\ ~ Listening(Chain) => "change unobserved" \in excuses'
  <2>1. "change unobserved" \in Excuses /\ excuses \subseteq Excuses
    BY <1>1 DEF Excuses, TypeOK
  <2>2. QED
    BY <2>1, ExcuseKept DEF Delegate
<1>7. ASSUME excuses' = {} PROVE Announced'
  <2>1. PICK s \in subscriptions[Chain] : s.sub = active[Chain] /\ active[Chain] # 0
    BY <1>6, <1>7 DEF Listening
  <2>2. PICK n \in Range(feed'[Chain]) : n.sub = active[Chain] /\ n.owner = "dlp"
    BY <1>4, <2>1
  <2>3. subscriptions' = subscriptions
    BY DEF Delegate
  <2>4. QED
    BY <2>1, <2>2, <2>3 DEF Announced
<1>8. /\ authority' \in Ers \cup {None} /\ cached' \in Ers \cup {None}
      /\ inner' \subseteq Ers
      /\ UNCHANGED <<requests, unsubs, active, given, request_to_subs,
                     subscriptions, handler, mailbox>>
  BY <1>1 DEF Delegate, TypeOK
<1>9. QED
  BY <1>4, <1>5, <1>6, <1>7, <1>8, EnvironmentStep

\* The other changes outside the router.
LEMMA AccountEnvironment ==
  ASSUME AccountInv,
         \/ Undelegate \/ CacheSync
         \/ \E u \in Upstreams : Touch(u)
         \/ \E v \in Ers : RouteLost(v)
  PROVE  AccountInv'
<1>1. TypeOK
  BY DEF AccountInv, TypeInv
<1>2. /\ UNCHANGED <<requests, unsubs, active, given, request_to_subs,
                     subscriptions, handler, mailbox, excuses>>
      /\ authority' \in {authority, None} /\ cached' \in {authority, cached}
      /\ inner' \subseteq inner
  BY DEF Undelegate, CacheSync, Touch, RouteLost, chain, tables
<1>3. left' \in [Events -> Nat]
  <2>1. Spend("change") \/ Spend("fault") \/ UNCHANGED left
    BY DEF Undelegate, CacheSync, Touch, RouteLost
  <2>2. QED
    BY <1>1, <2>1, SpendType DEF TypeOK, Events
<1>4. /\ feed' \in [Upstreams -> Seq(Notice)]
      /\ \A u \in Upstreams : Range(feed[u]) \subseteq Range(feed'[u])
  <2>1. CASE UNCHANGED feed
    BY <1>1, <2>1 DEF TypeOK, Notice
  <2>2. ASSUME NEW owners, \A u \in DOMAIN owners : owners[u] \in {"dlp", "own"},
               Notify(owners)
        PROVE  /\ feed' \in [Upstreams -> Seq(Notice)]
               /\ \A u \in Upstreams : Range(feed[u]) \subseteq Range(feed'[u])
    BY <1>1, <2>2, NotifyFeed
  <2>3. CASE Undelegate
    <3>1. PICK owners :
            /\ owners = [u \in {Chain, authority} |-> IF u = Chain THEN "own" ELSE "dlp"]
            /\ Notify(owners)
      BY <2>3 DEF Undelegate
    <3>2. \A u \in DOMAIN owners : owners[u] \in {"dlp", "own"}
      BY <3>1
    <3>3. QED
      BY <2>2, <3>1, <3>2
  <2>4. ASSUME NEW u \in Upstreams, Touch(u)
        PROVE  /\ feed' \in [Upstreams -> Seq(Notice)]
               /\ \A w \in Upstreams : Range(feed[w]) \subseteq Range(feed'[w])
    <3>1. PICK owners :
            /\ owners = [w \in {u} |-> IF u = Chain /\ authority # None THEN "dlp"
                                       ELSE "own"]
            /\ Notify(owners)
      BY <2>4 DEF Touch
    <3>2. \A w \in DOMAIN owners : owners[w] \in {"dlp", "own"}
      BY <3>1
    <3>3. QED
      BY <2>2, <3>1, <3>2
  <2>5. QED
    BY <2>1, <2>3, <2>4 DEF CacheSync, RouteLost, tables
<1>5. /\ authority' \in Ers \cup {None} /\ cached' \in Ers \cup {None}
      /\ inner' \subseteq Ers /\ excuses' \subseteq Excuses
  BY <1>1, <1>2 DEF TypeOK
<1>6. QED
  BY <1>2, <1>3, <1>4, <1>5, EnvironmentStep

-----------------------------------------------------------------------------
(* The connections                                                         *)

\* The subscribers of a connection after a confirmation.
Registered(old, sub, q) ==
  {s \in old : s.sub # sub \/ s.subscriber_id # q.subscriber_id}
    \cup {[sub |-> sub, subscriber_id |-> q.subscriber_id,
            request_id |-> q.request_id, upstream |-> q.upstream]}

\* The new subscriber is among them, and no id is without one that had one.
LEMMA RegisteredSubs ==
  ASSUME NEW old \in SUBSET SubscriberHandle, IsFiniteSet(old),
         NEW sub \in 1 .. MaxSubs, NEW q \in Subscription
  PROVE  /\ Registered(old, sub, q) \in SUBSET SubscriberHandle
         /\ IsFiniteSet(Registered(old, sub, q))
         /\ \A s \in Registered(old, sub, q) :
              s \in old \/ (s.request_id = q.request_id /\ s.upstream = q.upstream)
         /\ \E s \in Registered(old, sub, q) : s.sub = sub
         /\ \A s \in old : \E t \in Registered(old, sub, q) : t.sub = s.sub
<1>1. PICK kept : kept = {s \in old : s.sub # sub \/ s.subscriber_id # q.subscriber_id}
  OBVIOUS
<1>2. PICK new : new = [sub |-> sub, subscriber_id |-> q.subscriber_id,
                        request_id |-> q.request_id, upstream |-> q.upstream]
  OBVIOUS
<1>3. /\ new \in SubscriberHandle /\ new.sub = sub
      /\ new.request_id = q.request_id /\ new.upstream = q.upstream
  BY <1>2, RequestFields DEF SubscriberHandle
<1>4. Registered(old, sub, q) = kept \cup {new}
  BY <1>1, <1>2 DEF Registered
<1>5. kept \in SUBSET old /\ IsFiniteSet(kept)
  <2>1. kept \in SUBSET old
    BY <1>1
  <2>2. QED
    BY <2>1, FS_Subset
<1>6. IsFiniteSet(kept \cup {new})
  BY <1>5, FS_AddElement
<1>7. \A s \in old : s \in kept \/ s.sub = new.sub
  BY <1>1, <1>3
<1>8. QED
  BY <1>3, <1>4, <1>5, <1>6, <1>7

\* A subscription is confirmed.
LEMMA AccountConfirm ==
  ASSUME AccountInv, NEW q \in requests, Confirm(q)
  PROVE  AccountInv'
<1>1. TypeOK /\ \A w \in Upstreams : IsFiniteSet(subscriptions[w])
  BY DEF AccountInv, TypeInv
<1>2. q \in Subscription
  BY <1>1 DEF TypeOK
<1>3. PICK u \in Upstreams, sub \in 1 .. MaxSubs :
        /\ u = q.destination
        /\ sub = IF active[u] # 0 THEN active[u] ELSE given[u] + 1
  BY <1>2, RequestFields DEF Confirm
<1>4. /\ requests' = requests \ {q} /\ active' = [active EXCEPT ![u] = sub]
      /\ UNCHANGED <<authority, cached, inner, unsubs, feed, pc, sink, handles,
                     generated, excuses, left>>
  BY <1>3 DEF Confirm, chain, handler
<1>5. /\ active' \in [Upstreams -> 0 .. MaxSubs] /\ given' \in [Upstreams -> 0 .. MaxSubs]
      /\ request_to_subs' \in [Upstreams -> [Ids -> 0 .. MaxSubs]]
  <2>1. sub \in 0 .. MaxSubs /\ q.request_id \in Ids
    BY <1>2, RequestFields, AccountAssumption
  <2>2. active' \in [Upstreams -> 0 .. MaxSubs]
    BY <1>1, <1>4, <2>1 DEF TypeOK
  <2>3. given' = [given EXCEPT ![u] = IF sub > given[u] THEN sub ELSE given[u]]
    BY <1>3 DEF Confirm
  <2>4. given' \in [Upstreams -> 0 .. MaxSubs]
    BY <1>1, <2>1, <2>3 DEF TypeOK
  <2>5. request_to_subs' = [request_to_subs EXCEPT ![u][q.request_id] = sub]
    BY <1>3 DEF Confirm
  <2>6. request_to_subs' \in [Upstreams -> [Ids -> 0 .. MaxSubs]]
    BY <1>1, <2>1, <2>5 DEF TypeOK
  <2>7. QED
    BY <2>2, <2>4, <2>6
<1>6. CASE ~ Open
  <2>1. UNCHANGED <<mailbox, subscriptions>>
    BY <1>6 DEF Confirm
  <2>2. TypeInv'
    BY <1>1, <1>4, <1>5, <2>1 DEF TypeInv, TypeOK
  <2>3. Watched' => Marked'
    BY <1>4, <2>1 DEF AccountInv, Watched, Marked
  <2>4. ~ Open' /\ (pc' = "idle" \/ pc' = "gone")
    BY <1>1, <1>4, <1>6 DEF TypeOK, Open
  <2>5. QED
    BY <2>2, <2>3, <2>4 DEF AccountInv, Watched
<1>7. CASE Open
  <2>1. PICK m : m = [type |-> "Subscribed", id |-> q.request_id,
                      handle |-> [unsub |-> u, upstream |-> q.upstream]]
    OBVIOUS
  <2>2. /\ mailbox' = Append(mailbox, m)
        /\ subscriptions' = [subscriptions EXCEPT ![u] =
                               Registered(subscriptions[u], sub, q)]
    BY <1>3, <1>7, <2>1 DEF Confirm, Registered
  <2>3. /\ m \in Message /\ m.type = "Subscribed" /\ m.id = q.request_id
        /\ m.handle.unsub = u
    BY <1>2, <2>1, RequestFields DEF Message, SubscriptionHandle
  <2>4. mailbox' \in Seq(Message) /\ Range(mailbox') = Range(mailbox) \cup {m}
    BY <1>1, <2>2, <2>3, AppendRange DEF TypeOK
  <2>5. PICK new : new = Registered(subscriptions[u], sub, q)
    OBVIOUS
  <2>6. /\ new \in SUBSET SubscriberHandle /\ IsFiniteSet(new)
        /\ \A s \in new : s \in subscriptions[u]
                           \/ (s.request_id = q.request_id /\ s.upstream = q.upstream)
        /\ \E s \in new : s.sub = sub
        /\ \A s \in subscriptions[u] : \E t \in new : t.sub = s.sub
    <3>1. subscriptions[u] \in SUBSET SubscriberHandle /\ IsFiniteSet(subscriptions[u])
      BY <1>1 DEF TypeOK
    <3>2. QED
      BY <1>2, <2>5, <3>1, RegisteredSubs
  <2>7. /\ subscriptions' \in [Upstreams -> SUBSET SubscriberHandle]
        /\ subscriptions'[u] = new
        /\ \A w \in Upstreams \ {u} : subscriptions'[w] = subscriptions[w]
    BY <1>1, <2>2, <2>5, <2>6 DEF TypeOK
  <2>8. TypeInv'
    BY <1>1, <1>4, <1>5, <2>4, <2>6, <2>7 DEF TypeInv, TypeOK
  <2>9. Watched' => Marked'
    <3> SUFFICES ASSUME Watched' PROVE Marked'
      OBVIOUS
    <3>1. Marked /\ RequestMarked(q)
      BY <1>4 DEF AccountInv, Watched, Marked
    <3>2. \A w \in Upstreams : \A s \in subscriptions'[w] : SubscriberMarked(w, s)
      <4>1. Chain \notin Ers
        BY AccountAssumption
      <4>2. ASSUME NEW s \in new PROVE SubscriberMarked(u, s)
        <5>1. CASE s \in subscriptions[u]
          BY <3>1, <5>1 DEF Marked
        <5>2. CASE s.request_id = q.request_id /\ s.upstream = q.upstream
          BY <1>3, <3>1, <4>1, <5>2 DEF RequestMarked, SubscriberMarked
        <5>3. QED
          BY <2>6, <5>1, <5>2
      <4>3. QED
        BY <2>7, <3>1, <4>2 DEF Marked
    <3>3. MessageMarked(m)
      BY <1>3, <2>3, <3>1 DEF MessageMarked, RequestMarked
    <3>4. QED
      BY <1>4, <2>4, <3>1, <3>2, <3>3 DEF Marked
  <2>10. /\ Listening(u)'
         /\ \A w \in Upstreams : Listening(w) => Listening(w)'
    <3>1. /\ active'[u] = sub /\ sub # 0
          /\ \A w \in Upstreams \ {u} : active'[w] = active[w]
      BY <1>1, <1>4 DEF TypeOK
    <3>2. QED
      BY <2>6, <2>7, <3>1 DEF Listening
  <2>11. Announced => Announced'
    <3>1. \A s \in subscriptions[Chain] : \E t \in subscriptions'[Chain] : t.sub = s.sub
      BY <2>6, <2>7 DEF Upstreams
    <3>2. QED
      BY <1>4, <3>1 DEF Announced
  <2>12. Watched' /\ pc' # "idle" => ChainWatched'
    <3>1. Chain \in Upstreams
      BY DEF Upstreams
    <3>2. QED
      BY <1>3, <1>4, <2>10, <3>1 DEF AccountInv, Watched, ChainWatched
  <2>13. excuses' = {} /\ Open' /\ authority' # None => Followed'
    <3> SUFFICES ASSUME excuses' = {}, Open', authority' # None
                 PROVE  Followed'
      OBVIOUS
    <3>1. Followed /\ authority' = authority /\ authority \in Upstreams
      BY <1>1, <1>4, <1>7 DEF AccountInv, TypeOK, Upstreams
    <3>2. CASE Listening(authority)
      <4>1. Listening(authority)'
        BY <2>10, <3>1, <3>2 DEF Listening
      <4>2. QED
        BY <4>1 DEF Followed
    <3>3. CASE \E p \in requests : p.destination = authority
      <4>1. PICK p \in requests : p.destination = authority
        BY <3>3
      <4>2. CASE p = q
        <5>1. Listening(authority)'
          BY <1>3, <2>10, <3>1, <4>1, <4>2 DEF Listening
        <5>2. QED
          BY <5>1 DEF Followed
      <4>3. CASE p # q
        BY <1>4, <4>1, <4>3 DEF Followed
      <4>4. QED
        BY <4>2, <4>3
    <3>4. CASE Announced
      BY <2>11, <3>4 DEF Followed
    <3>5. CASE \E p \in Range(mailbox) : Told(p)
      BY <2>4, <3>5 DEF Followed
    <3>6. QED
      BY <3>1, <3>2, <3>3, <3>4, <3>5 DEF Followed
  <2>14. QED
    BY <2>8, <2>9, <2>12, <2>13 DEF AccountInv
<1>8. QED
  BY <1>6, <1>7

\* A notification is passed on: what the base chain announced is told.
LEMMA AccountDeliver ==
  ASSUME AccountInv, NEW u \in Upstreams, Deliver(u)
  PROVE  AccountInv'
<1>1. TypeOK /\ \A w \in Upstreams : IsFiniteSet(subscriptions[w])
  BY DEF AccountInv, TypeInv
<1>2. /\ feed \in [Upstreams -> Seq(Notice)] /\ feed[u] \in Seq(Notice) /\ feed[u] # <<>>
      /\ mailbox \in Seq(Message)
  BY <1>1 DEF Deliver, TypeOK, Notice
<1>3. PICK n \in Notice : n = Head(feed[u])
  BY <1>2, TailRange
<1>4. PICK listeners : listeners = {s \in subscriptions[u] : s.sub = n.sub}
  OBVIOUS
<1>5. /\ feed' = [feed EXCEPT ![u] = Tail(feed[u])]
      /\ UNCHANGED <<authority, cached, inner, requests, unsubs, active, given,
                     request_to_subs, pc, sink, handles, generated, excuses, left>>
  BY DEF Deliver, chain, handler
<1>6. /\ feed' \in [Upstreams -> Seq(Notice)]
      /\ Range(feed[u]) = {n} \cup Range(feed'[u])
      /\ \A w \in Upstreams \ {u} : feed'[w] = feed[w]
  <2>1. Tail(feed[u]) \in Seq(Notice) /\ Range(feed[u]) = {n} \cup Range(Tail(feed[u]))
    BY <1>2, <1>3, TailRange
  <2>2. QED
    BY <1>2, <1>5, <2>1
<1>7. listeners \in SUBSET subscriptions[u] /\ subscriptions[u] \in SUBSET SubscriberHandle
  BY <1>1, <1>4 DEF TypeOK
<1>8. CASE ~ Open
  <2>1. subscriptions' = [subscriptions EXCEPT ![u] = @ \ listeners] /\ UNCHANGED mailbox
    BY <1>3, <1>4, <1>8 DEF Deliver
  <2>2. /\ subscriptions' \in [Upstreams -> SUBSET SubscriberHandle]
        /\ \A w \in Upstreams : subscriptions'[w] \in SUBSET subscriptions[w]
    BY <1>1, <2>1 DEF TypeOK
  <2>3. \A w \in Upstreams : IsFiniteSet(subscriptions'[w])
    BY <1>1, <2>2, FS_Subset
  <2>4. TypeInv'
    BY <1>1, <1>5, <1>6, <2>1, <2>2, <2>3 DEF TypeInv, TypeOK, Notice
  <2>5. Watched' => Marked'
    BY <1>5, <2>1, <2>2 DEF AccountInv, Watched, Marked
  <2>6. ~ Open' /\ (pc' = "idle" \/ pc' = "gone")
    BY <1>1, <1>5, <1>8 DEF TypeOK, Open
  <2>7. QED
    BY <2>4, <2>5, <2>6 DEF AccountInv, Watched
<1>9. CASE Open
  <2>1. n.owner \in {"dlp", "own"}
    BY DEF Notice
  <2>2. PICK order, t :
          /\ order \in SetToSeqs(listeners)
          /\ t = [i \in DOMAIN order |-> Passed(order[i], n.owner)]
          /\ mailbox' = mailbox \o t
    BY <1>3, <1>4, <1>9 DEF Deliver, Passed
  <2>3. t \in Seq(Message) /\ Range(t) = {Passed(s, n.owner) : s \in listeners}
    <3>1. IsFiniteSet(listeners) /\ listeners \subseteq SubscriberHandle
      BY <1>1, <1>7, FS_Subset
    <3>2. QED
      BY <2>1, <2>2, <3>1, PassedRange
  <2>4. /\ mailbox' \in Seq(Message)
        /\ Range(mailbox') = Range(mailbox) \cup {Passed(s, n.owner) : s \in listeners}
    <3>1. /\ mailbox \o t \in Seq(Message)
          /\ Range(mailbox \o t) = Range(mailbox) \cup Range(t)
      BY ONLY <1>2, <2>3, ConcatRange
    <3>2. QED
      BY <2>2, <2>3, <3>1, Zenon
  <2>5. UNCHANGED subscriptions
    BY <1>9 DEF Deliver
  <2>6. TypeInv'
    BY <1>1, <1>5, <1>6, <2>4, <2>5 DEF TypeInv, TypeOK, Notice
  <2>7. \A s : /\ Passed(s, n.owner).type = "Notification"
               /\ Passed(s, n.owner).id = s.request_id
               /\ Passed(s, n.owner).upstream = s.upstream
               /\ Passed(s, n.owner).owner = n.owner
    BY DEF Passed
  <2>8. Watched' => Marked'
    <3> SUFFICES ASSUME Watched' PROVE Marked'
      OBVIOUS
    <3>1. Marked
      BY <1>5 DEF AccountInv, Watched
    <3>2. ASSUME NEW s \in listeners PROVE MessageMarked(Passed(s, n.owner))
      <4>1. SubscriberMarked(u, s)
        BY <1>7, <3>1 DEF Marked
      <4>2. QED
        BY <2>7, <4>1 DEF MessageMarked, SubscriberMarked
    <3>3. \A m \in Range(mailbox') : MessageMarked(m)
      BY <2>4, <3>1, <3>2 DEF Marked
    <3>4. QED
      BY <1>5, <2>5, <3>1, <3>3 DEF Marked
  <2>9. Watched' /\ pc' # "idle" => ChainWatched'
    BY <1>5, <2>5 DEF AccountInv, Watched, ChainWatched, Listening
  <2>10. excuses' = {} /\ Open' /\ authority' # None => Followed'
    <3> SUFFICES ASSUME excuses' = {}, Open', authority' # None
                 PROVE  Followed'
      OBVIOUS
    <3>1. Followed /\ authority' = authority /\ Marked
      BY <1>5, <1>9 DEF AccountInv, Watched, Open
    <3>2. CASE Listening(authority) \/ \E q \in requests : q.destination = authority
      BY <1>5, <2>5, <3>2 DEF Followed, Listening
    <3>3. CASE \E p \in Range(mailbox) : Told(p)
      BY <2>4, <3>3 DEF Followed
    <3>4. CASE Announced
      <4>1. PICK x \in Range(feed[Chain]), s \in subscriptions[Chain] :
              x.owner = "dlp" /\ s.sub = x.sub
        BY <3>4 DEF Announced
      <4>2. CASE x \in Range(feed'[Chain])
        BY <2>5, <4>1, <4>2 DEF Followed, Announced
      <4>3. CASE x \notin Range(feed'[Chain])
        <5>1. u = Chain /\ x = n
          BY <1>6, <4>1, <4>3 DEF Upstreams
        <5>2. s \in listeners /\ s.upstream = "Chain"
          BY <1>4, <3>1, <4>1, <5>1 DEF Marked, SubscriberMarked
        <5>3. Told(Passed(s, n.owner)) /\ Passed(s, n.owner) \in Range(mailbox')
          BY <2>4, <2>7, <4>1, <5>1, <5>2 DEF Told
        <5>4. QED
          BY <5>3 DEF Followed
      <4>4. QED
        BY <4>2, <4>3
    <3>5. QED
      BY <3>1, <3>2, <3>3, <3>4 DEF Followed
  <2>11. QED
    BY <2>6, <2>8, <2>9, <2>10 DEF AccountInv
<1>10. QED
  BY <1>8, <1>9

\* An unsubscription ends what the handler has at an ER node, and only that.
LEMMA AccountUnsubscribe ==
  ASSUME AccountInv, NEW q \in unsubs, unsubscribe(q)
  PROVE  AccountInv'
<1>1. TypeOK /\ \A w \in Upstreams : IsFiniteSet(subscriptions[w])
  BY DEF AccountInv, TypeInv
<1>2. PICK u \in Upstreams : u = q.to
  BY <1>1 DEF TypeOK, Unsubscription
<1>3. /\ unsubs' = unsubs \ {q}
      /\ UNCHANGED <<authority, cached, inner, requests, given, request_to_subs,
                     feed, pc, sink, handles, generated, mailbox, left>>
  BY DEF unsubscribe, chain, handler
<1>4. /\ excuses' \subseteq Excuses /\ excuses \subseteq excuses'
      /\ \/ UNCHANGED <<subscriptions, active, excuses>>
         \/ Open /\ authority = u => excuses' # {}
  <2>1. "late unsubscription" \in Excuses /\ excuses \subseteq Excuses
    BY <1>1 DEF Excuses, TypeOK
  <2>2. CASE UNCHANGED <<subscriptions, active, excuses>>
    BY <2>1, <2>2
  <2>3. CASE Excuse("late unsubscription", Open /\ authority = u)
    <3>1. /\ excuses' \subseteq Excuses /\ excuses \subseteq excuses'
          /\ Open /\ authority = u => "late unsubscription" \in excuses'
      BY <2>1, <2>3, ExcuseKept
    <3>2. QED
      BY <3>1
  <2>4. QED
    BY <1>2, <2>2, <2>3 DEF unsubscribe
<1>5. /\ subscriptions' \in [Upstreams -> SUBSET SubscriberHandle]
      /\ \A w \in Upstreams : subscriptions'[w] \in SUBSET subscriptions[w]
      /\ \A w \in Upstreams \ {u} : subscriptions'[w] = subscriptions[w]
      /\ active' \in [Upstreams -> 0 .. MaxSubs]
      /\ \A w \in Upstreams \ {u} : active'[w] = active[w]
  <2>1. CASE UNCHANGED <<subscriptions, active>>
    BY <1>1, <2>1 DEF TypeOK
  <2>2. CASE ~ UNCHANGED <<subscriptions, active>>
    <3>1. PICK sub : sub = request_to_subs[u][q.request_id]
      OBVIOUS
    <3>2. /\ subscriptions' = [subscriptions EXCEPT ![u] =
               {s \in @ : s.sub # sub \/ s.subscriber_id # 0}]
          /\ active' = [active EXCEPT ![u] = IF @ = sub THEN 0 ELSE @]
      BY <1>2, <2>2, <3>1 DEF unsubscribe
    <3>3. 0 \in 0 .. MaxSubs
      BY AccountAssumption
    <3>4. QED
      BY <1>1, <3>2, <3>3 DEF TypeOK
  <2>3. QED
    BY <2>1, <2>2
<1>6. \A w \in Upstreams : IsFiniteSet(subscriptions'[w])
  BY <1>1, <1>5, FS_Subset
<1>7. TypeInv'
  BY <1>1, <1>3, <1>4, <1>5, <1>6 DEF TypeInv, TypeOK
<1>8. Watched' => Watched /\ Marked /\ u \in Ers
  BY <1>2, <1>3, <1>4 DEF AccountInv, Watched, Marked
<1>9. Watched' => Marked'
  BY <1>3, <1>5, <1>8 DEF Marked
<1>10. Watched' => /\ subscriptions'[Chain] = subscriptions[Chain]
                   /\ active'[Chain] = active[Chain]
  BY <1>5, <1>8, AccountAssumption DEF Upstreams
<1>11. Watched' /\ pc' # "idle" => ChainWatched'
  BY <1>3, <1>8, <1>10 DEF AccountInv, ChainWatched, Listening
<1>12. excuses' = {} /\ Open' /\ authority' # None => Followed'
  <2> SUFFICES ASSUME excuses' = {}, Open', authority' # None
               PROVE  Followed'
    OBVIOUS
  <2>1. /\ Followed /\ authority' = authority /\ Watched' /\ Open
        /\ authority \in Upstreams
    BY <1>1, <1>3, <1>4 DEF AccountInv, Watched, Open, TypeOK, Upstreams
  <2>2. Announced => Announced'
    BY <1>3, <1>10, <2>1 DEF Announced
  <2>3. Listening(authority) => Listening(authority)'
    <3>1. CASE UNCHANGED <<subscriptions, active>>
      BY <2>1, <3>1 DEF Listening
    <3>2. CASE authority # u
      BY <1>5, <2>1, <3>2 DEF Listening
    <3>3. QED
      BY <1>4, <2>1, <3>1, <3>2
  <2>4. QED
    BY <1>3, <2>1, <2>2, <2>3 DEF Followed
<1>13. QED
  BY <1>7, <1>9, <1>11, <1>12 DEF AccountInv

\* A connection is lost.
LEMMA AccountReestablish ==
  ASSUME AccountInv, NEW u \in Upstreams, reestablish(u)
  PROVE  AccountInv'
<1>1. TypeOK /\ \A w \in Upstreams : IsFiniteSet(subscriptions[w])
  BY DEF AccountInv, TypeInv
<1>2. UNCHANGED <<authority, cached, inner, requests, unsubs, given, pc, sink,
                  handles, generated>>
  BY DEF reestablish, chain, handler
<1>3. /\ request_to_subs' \in [Upstreams -> [Ids -> 0 .. MaxSubs]]
      /\ subscriptions' \in [Upstreams -> SUBSET SubscriberHandle]
      /\ active' \in [Upstreams -> 0 .. MaxSubs]
      /\ feed' \in [Upstreams -> Seq(Notice)]
      /\ \A w \in Upstreams : subscriptions'[w] \in SUBSET subscriptions[w]
  <2>1. 0 \in 0 .. MaxSubs /\ <<>> \in Seq(Notice)
    BY AccountAssumption
  <2>2. QED
    BY <1>1, <2>1 DEF reestablish, TypeOK, Notice
<1>4. left' \in [Events -> Nat]
  BY <1>1, SpendType DEF reestablish, TypeOK, Events
<1>5. "connection lost" \in excuses' /\ excuses' \subseteq Excuses
  BY <1>1 DEF reestablish, Excuse, TypeOK, Excuses
<1>6. mailbox' \in Seq(Message)
  <2>1. CASE Open
    <3>1. PICK order, t :
            /\ order \in SetToSeqs(subscriptions[u])
            /\ t = [i \in DOMAIN order |-> Ended(order[i])]
            /\ mailbox' = mailbox \o t
      BY <2>1 DEF reestablish, Ended
    <3>2. IsFiniteSet(subscriptions[u]) /\ subscriptions[u] \subseteq SubscriberHandle
      BY <1>1 DEF TypeOK
    <3>3. t \in Seq(Message)
      BY <3>1, <3>2, EndedRange
    <3>4. QED
      BY <1>1, <3>1, <3>3, ConcatRange DEF TypeOK
  <2>2. CASE ~ Open
    BY <1>1, <2>2 DEF reestablish, TypeOK
  <2>3. QED
    BY <2>1, <2>2
<1>7. \A w \in Upstreams : IsFiniteSet(subscriptions'[w])
  BY <1>1, <1>3, FS_Subset
<1>8. TypeInv'
  BY <1>1, <1>2, <1>3, <1>4, <1>5, <1>6, <1>7 DEF TypeInv, TypeOK, Notice
<1>9. QED
  BY <1>5, <1>8 DEF AccountInv, Watched

-----------------------------------------------------------------------------
(* The handler                                                             *)

\* A step of the handler: it keeps what it has asked for, and what it was told
\* and has yet to act on, or asks anew.
LEMMA HandlerStep ==
  ASSUME AccountInv, UNCHANGED <<chain, tables, left>>,
         pc' \in {"idle", "confirm", "live", "gone"}, sink' \in {"open", "closed"},
         requests' \subseteq Subscription, unsubs' \subseteq Unsubscription,
         handles' \in [Ids -> SubscriptionHandle \cup {None}], generated' \in Ids,
         mailbox' \in Seq(Message), excuses \subseteq excuses', excuses' \subseteq Excuses,
         Watched' => Marked',
         Watched' /\ pc' # "idle" =>
           \/ \E q \in requests' : q.destination = Chain
           \/ Open /\ requests \subseteq requests',
         excuses' = {} /\ Open' /\ authority # None =>
           \/ \E q \in requests' : q.destination = authority
           \/ /\ Open /\ requests \subseteq requests'
              /\ \A m \in Range(mailbox) : Told(m) => m \in Range(mailbox')
  PROVE  AccountInv'
<1>1. TypeInv'
  BY DEF AccountInv, TypeInv, TypeOK, chain, tables
<1>2. /\ UNCHANGED <<authority, active, subscriptions, feed>>
      /\ \A u : Listening(u) => active'[u] # 0 /\ \E s \in subscriptions'[u] :
                                                   s.sub = active'[u]
  BY DEF chain, tables, Listening
<1>3. Watched' /\ pc' # "idle" => ChainWatched'
  <2> SUFFICES ASSUME Watched', pc' # "idle" PROVE ChainWatched'
    OBVIOUS
  <2>1. CASE \E q \in requests' : q.destination = Chain
    BY <2>1 DEF ChainWatched
  <2>2. CASE Open /\ requests \subseteq requests'
    <3>1. ChainWatched
      BY <2>2 DEF AccountInv, Watched, Open
    <3>2. QED
      BY <1>2, <2>2, <3>1 DEF ChainWatched, Listening
  <2>3. QED
    BY <2>1, <2>2
<1>4. excuses' = {} /\ Open' /\ authority' # None => Followed'
  <2> SUFFICES ASSUME excuses' = {}, Open', authority' # None PROVE Followed'
    OBVIOUS
  <2>1. CASE \E q \in requests' : q.destination = authority
    BY <1>2, <2>1 DEF Followed
  <2>2. CASE /\ Open /\ requests \subseteq requests'
             /\ \A m \in Range(mailbox) : Told(m) => m \in Range(mailbox')
    <3>1. Followed
      BY <1>2, <2>2 DEF AccountInv
    <3>2. Announced => Announced'
      BY <1>2 DEF Announced
    <3>3. Listening(authority) => Listening(authority)'
      BY <1>2 DEF Listening
    <3>4. QED
      BY <1>2, <2>2, <3>1, <3>2, <3>3 DEF Followed
  <2>3. QED
    BY <1>2, <2>1, <2>2
<1>5. QED
  BY <1>1, <1>3, <1>4 DEF AccountInv

\* A request is well-formed.
LEMMA RequestType ==
  ASSUME NEW id \in Ids, NEW subscriber \in Ids, NEW destination \in Upstreams,
         NEW kind \in Kinds
  PROVE  LET q == Request(id, subscriber, destination, kind) IN
         /\ q \in Subscription /\ q.request_id = id /\ q.subscriber_id = subscriber
         /\ q.destination = destination /\ q.upstream = kind
BY DEF Request, Subscription

\* The subscription begins, at the base chain and at the node of the account.
LEMMA AccountSubscribe ==
  ASSUME AccountInv, account_subscribe
  PROVE  AccountInv'
<1>1. TypeOK
  BY DEF AccountInv, TypeInv
<1>2. /\ UNCHANGED <<chain, tables, left>> /\ UNCHANGED <<unsubs, sink, handles,
                                                         generated, mailbox>>
      /\ UNCHANGED subscriptions /\ pc = "idle"
  BY DEF account_subscribe, tables
<1>3. CASE cached \in Ers \ inner
  <2>1. pc' = "gone" /\ UNCHANGED <<requests, excuses>>
    BY <1>3 DEF account_subscribe
  <2>2. ~ Watched' /\ ~ Open'
    BY <2>1 DEF Watched, Open
  <2>3. QED
    BY <1>1, <1>2, <2>1, <2>2, HandlerStep DEF TypeOK
<1>4. CASE cached \notin Ers \ inner
  <2>1. /\ pc' = "confirm" /\ requests' = FirstRequests
        /\ Excuse("cache behind", cached # authority)
    BY <1>4 DEF account_subscribe
  <2>2. ASSUME NEW u \in Upstreams
        PROVE  LET q == Request(0, 0, u, "Chain") IN
               /\ q \in Subscription /\ RequestMarked(q) /\ q.destination = u
    <3>1. 0 \in Ids /\ "Chain" \in Kinds
      BY AccountAssumption DEF Ids, Kinds
    <3>2. QED
      BY <3>1, RequestType DEF RequestMarked
  <2>3. /\ {Chain, cached} \ {None} \subseteq Upstreams /\ Chain # None
        /\ authority \in Ers \cup {None}
    BY <1>1, AccountAssumption DEF TypeOK, Upstreams
  <2>4. /\ requests' \subseteq Subscription /\ \A q \in requests' : RequestMarked(q)
        /\ \A u \in {Chain, cached} \ {None} : \E q \in requests' : q.destination = u
    BY <2>1, <2>2, <2>3 DEF FirstRequests
  <2>5. /\ excuses' \subseteq Excuses /\ excuses \subseteq excuses'
        /\ cached # authority => "cache behind" \in excuses'
    <3>1. "cache behind" \in Excuses /\ excuses \subseteq Excuses
      BY <1>1 DEF Excuses, TypeOK
    <3>2. QED
      BY <2>1, <3>1, ExcuseKept
  <2>6. Watched' => Marked'
    <3>1. Watched' => Watched
      BY <1>2, <2>5 DEF Watched
    <3>2. QED
      BY <1>2, <2>4, <3>1 DEF AccountInv, Marked
  <2>7. Watched' /\ pc' # "idle" => \E q \in requests' : q.destination = Chain
    BY <2>3, <2>4
  <2>8. excuses' = {} /\ Open' /\ authority # None =>
          \E q \in requests' : q.destination = authority
    BY <2>3, <2>4, <2>5
  <2>9. QED
    BY <1>1, <1>2, <2>1, <2>4, <2>5, <2>6, <2>7, <2>8, HandlerStep DEF TypeOK
<1>5. QED
  BY <1>3, <1>4

\* The handler ends, with or without unsubscribing.
LEMMA AccountGone ==
  ASSUME AccountInv, ConfirmationTimeout \/ SinkClosed
  PROVE  AccountInv'
<1>1. TypeOK
  BY DEF AccountInv, TypeInv
<1>2. /\ UNCHANGED <<chain, tables, left>> /\ Gone
      /\ UNCHANGED <<requests, sink, generated, excuses>>
  BY DEF ConfirmationTimeout, SinkClosed
<1>3. unsubs' \subseteq Unsubscription
  <2>1. CASE ConfirmationTimeout
    BY <1>1, <2>1 DEF ConfirmationTimeout, TypeOK
  <2>2. CASE SinkClosed
    <3>1. \A i \in Ids : handles[i] # None => handles[i].unsub \in Upstreams
      BY <1>1 DEF TypeOK, SubscriptionHandle
    <3>2. \A i \in Ids : handles[i] # None =>
            [to |-> handles[i].unsub, request_id |-> i] \in Unsubscription
      BY <3>1 DEF Unsubscription
    <3>3. QED
      BY <1>1, <2>2, <3>2 DEF SinkClosed, TypeOK
  <2>3. QED
    BY <2>1, <2>2
<1>4. /\ pc' = "gone" /\ handles' \in [Ids -> SubscriptionHandle \cup {None}]
      /\ mailbox' \in Seq(Message) /\ ~ Watched' /\ ~ Open'
  BY <1>2 DEF Gone, NoHandles, Watched, Open
<1>5. QED
  BY <1>1, <1>2, <1>3, <1>4, HandlerStep DEF TypeOK

\* The client closes the sink.
LEMMA AccountCloses ==
  ASSUME AccountInv, ClientCloses
  PROVE  AccountInv'
<1>1. TypeOK /\ pc = "live" /\ Open
  BY DEF AccountInv, TypeInv, ClientCloses, Open
<1>2. /\ UNCHANGED <<chain, tables, left>> /\ sink' = "closed"
      /\ UNCHANGED <<requests, unsubs, pc, handles, generated, mailbox, excuses>>
      /\ UNCHANGED subscriptions
  BY DEF ClientCloses, tables
<1>3. Watched' => Marked'
  BY <1>2 DEF AccountInv, Watched, Marked
<1>4. QED
  BY <1>1, <1>2, <1>3, HandlerStep DEF TypeOK

\* A confirmation is read.
LEMMA AccountSubscribed ==
  ASSUME AccountInv, HandleSubscribed
  PROVE  AccountInv'
<1>1. TypeOK /\ Open /\ mailbox \in Seq(Message) /\ mailbox # <<>>
  BY DEF AccountInv, TypeInv, HandleSubscribed, Receive, TypeOK
<1>2. PICK m \in Message : m = Head(mailbox) /\ m.type = "Subscribed"
  BY <1>1, TailRange DEF HandleSubscribed, Receive
<1>3. /\ UNCHANGED <<chain, tables, left>> /\ pc' = "live"
      /\ UNCHANGED <<requests, unsubs, sink, generated, excuses>>
      /\ UNCHANGED subscriptions
      /\ handles' = [handles EXCEPT ![m.id] = m.handle]
  BY <1>2 DEF HandleSubscribed, tables
<1>4. /\ mailbox' \in Seq(Message) /\ Range(mailbox) = {m} \cup Range(mailbox')
      /\ m.id \in Ids /\ m.handle \in SubscriptionHandle
  BY <1>1, <1>2, TailRange, MessageFields DEF HandleSubscribed, Receive
<1>5. handles' \in [Ids -> SubscriptionHandle \cup {None}]
  BY <1>1, <1>3, <1>4 DEF TypeOK
<1>6. Watched' => Marked'
  <2> SUFFICES ASSUME Watched' PROVE Marked'
    OBVIOUS
  <2>1. Marked
    BY <1>1, <1>3 DEF AccountInv, Watched, Open
  <2>2. MessageMarked(m)
    BY <1>4, <2>1 DEF Marked
  <2>3. ASSUME NEW i \in Ids \ {0}, handles'[i] # None PROVE handles'[i].unsub \in Ers
    <3>1. CASE i = m.id
      BY <1>1, <1>2, <1>3, <2>2, <3>1 DEF TypeOK, MessageMarked
    <3>2. CASE i # m.id
      BY <1>1, <1>3, <2>1, <2>3, <3>2 DEF TypeOK, Marked
    <3>3. QED
      BY <3>1, <3>2
  <2>4. QED
    BY <1>3, <1>4, <2>1, <2>3 DEF Marked
<1>7. \A x \in Range(mailbox) : Told(x) => x \in Range(mailbox')
  BY <1>2, <1>4 DEF Told
<1>8. QED
  BY <1>1, <1>3, <1>4, <1>5, <1>6, <1>7, HandlerStep DEF TypeOK

\* A loss is read, which there was.
LEMMA AccountDisconnected ==
  ASSUME AccountInv, HandleDisconnected
  PROVE  AccountInv'
<1>1. TypeOK /\ pc = "live" /\ mailbox \in Seq(Message) /\ mailbox # <<>>
  BY DEF AccountInv, TypeInv, HandleDisconnected, Receive, TypeOK
<1>2. PICK m \in Message : m = Head(mailbox) /\ m.type = "Disconnected"
  BY <1>1, TailRange DEF HandleDisconnected, Receive
<1>3. /\ UNCHANGED <<chain, tables, left>>
      /\ UNCHANGED <<unsubs, pc, sink, generated, excuses>>
      /\ handles' = [handles EXCEPT ![m.id] = None]
  BY <1>2 DEF HandleDisconnected
<1>4. /\ mailbox' \in Seq(Message) /\ Range(mailbox) = {m} \cup Range(mailbox')
      /\ m.id \in Ids
  BY <1>1, <1>2, TailRange, MessageFields DEF HandleDisconnected, Receive
<1>5. handles' \in [Ids -> SubscriptionHandle \cup {None}]
  BY <1>1, <1>3 DEF TypeOK
<1>6. requests' \subseteq Subscription
  <2>1. CASE requests' = requests
    BY <1>1, <2>1 DEF TypeOK
  <2>2. CASE requests' # requests
    <3>1. PICK old : old = handles[m.id] /\ old # None
      BY <1>2, <2>2 DEF HandleDisconnected
    <3>2. requests' = requests \cup {Resubscription(m.id, old)}
      BY <1>2, <2>2, <3>1 DEF HandleDisconnected
    <3>3. old.upstream \in Kinds
      BY <1>1, <1>4, <3>1 DEF TypeOK, SubscriptionHandle
    <3>4. (IF cached = None THEN Chain ELSE cached) \in Upstreams /\ 0 \in Ids
      BY <1>1, AccountAssumption DEF TypeOK, Upstreams, Ids
    <3>5. Resubscription(m.id, old) \in Subscription
      BY <1>4, <3>3, <3>4, RequestType DEF Resubscription
    <3>6. QED
      BY <1>1, <3>2, <3>5 DEF TypeOK
  <2>3. QED
    BY <2>1, <2>2
<1>7. ~ Watched /\ excuses # {}
  <2>1. Watched => MessageMarked(m)
    BY <1>4 DEF AccountInv, Marked
  <2>2. QED
    BY <1>1, <1>2, <2>1 DEF MessageMarked, Watched
<1>8. ~ Watched' /\ excuses' # {}
  BY <1>3, <1>7 DEF Watched
<1>9. QED
  BY <1>1, <1>3, <1>4, <1>5, <1>6, <1>8, HandlerStep DEF TypeOK

\* A notification is read: a delegation is followed, an undelegation ends the
\* subscription at the node it came from.
LEMMA AccountNotification ==
  ASSUME AccountInv, HandleNotification
  PROVE  AccountInv'
<1>1. /\ TypeOK /\ pc = "live" /\ Open /\ mailbox \in Seq(Message) /\ mailbox # <<>>
      /\ UNCHANGED <<chain, tables, sink, left>> /\ UNCHANGED subscriptions
  BY DEF AccountInv, TypeInv, HandleNotification, TypeOK, Open, tables
<1>2. PICK m \in Message : /\ m = Head(mailbox) /\ m.type = "Notification"
                           /\ handle_delegation_status_change(m)
  BY <1>1, TailRange DEF HandleNotification
<1>3. Range(mailbox) = {m} \cup Range(Tail(mailbox)) /\ Tail(mailbox) \in Seq(Message)
  BY <1>1, <1>2, TailRange
<1>4. m.id \in Ids /\ m.upstream \in Kinds
  BY <1>2, MessageFields
<1>5. /\ pc' \in {"live", "gone"} /\ mailbox' \in Seq(Message)
      /\ Range(mailbox') \subseteq Range(mailbox)
      /\ pc' = "live" => Range(mailbox) = {m} \cup Range(mailbox')
  <2>1. CASE mailbox' = Tail(mailbox) /\ UNCHANGED pc
    BY <1>1, <1>3, <2>1
  <2>2. CASE mailbox' = <<>> /\ pc' = "gone"
    BY <2>2 DEF Range
  <2>3. QED
    BY <2>1, <2>2 DEF HandleNotification
<1>6. Watched => Marked /\ MessageMarked(m)
  BY <1>3 DEF AccountInv, Marked
<1>7. ASSUME requests \subseteq requests', requests' \subseteq Subscription,
             unsubs' \subseteq Unsubscription,
             handles' \in [Ids -> SubscriptionHandle \cup {None}],
             generated' \in Ids, excuses \subseteq excuses', excuses' \subseteq Excuses,
             Watched => \A q \in requests' : RequestMarked(q),
             Watched => \A q \in unsubs' : q.to \in Ers,
             \A i \in Ids : handles'[i] # None => handles'[i] = handles[i],
             excuses' = {} /\ authority # None =>
               \/ \E q \in requests' : q.destination = authority
               \/ ~ Told(m)
      PROVE  AccountInv'
  <2>1. Watched' => Watched /\ Marked'
    <3>1. Watched' => Watched
      BY <1>1, <1>7 DEF Watched
    <3>2. Watched => Marked'
      BY <1>1, <1>5, <1>6, <1>7 DEF Marked
    <3>3. QED
      BY <3>1, <3>2
  <2>2. Open' => pc' = "live"
    BY <1>5 DEF Open
  <2>3. excuses' = {} /\ Open' /\ authority # None =>
          \/ \E q \in requests' : q.destination = authority
          \/ /\ Open /\ requests \subseteq requests'
             /\ \A x \in Range(mailbox) : Told(x) => x \in Range(mailbox')
    BY <1>1, <1>5, <1>7, <2>2
  <2>4. sink' \in {"open", "closed"} /\ pc' \in {"idle", "confirm", "live", "gone"}
    BY <1>1, <1>5 DEF TypeOK
  <2>5. QED
    BY <1>1, <1>5, <1>7, <2>1, <2>3, <2>4, HandlerStep
<1>8. CASE ~ OwnerChanged(m)
  <2>1. UNCHANGED <<generated, requests, unsubs, handles, excuses>>
    BY <1>2, <1>8 DEF handle_delegation_status_change
  <2>2. ~ Told(m)
    BY <1>8 DEF Told, OwnerChanged
  <2>3. QED
    BY <1>1, <1>6, <1>7, <2>1, <2>2 DEF TypeOK, Marked
<1>9. CASE OwnerChanged(m) /\ m.upstream = "Chain" /\ cached \in inner
  <2>1. /\ subscribe_to_ephem(cached) /\ UNCHANGED <<unsubs, handles>>
        /\ Excuse("cache behind", cached # authority)
    BY <1>2, <1>9 DEF handle_delegation_status_change
  <2>2. /\ generated' \in Ids /\ generated + 1 \in Ids /\ generated + 1 # 0
        /\ requests' = requests \cup {Request(generated + 1, generated + 1, cached,
                                              "Ephem")}
    <3>1. generated \in 0 .. MaxIds /\ generated < MaxIds /\ MaxIds \in Nat
      BY <1>1, <2>1, AccountAssumption DEF subscribe_to_ephem, TypeOK, Ids
    <3>2. generated + 1 \in 0 .. MaxIds /\ generated + 1 # 0
      BY <3>1
    <3>3. QED
      BY <2>1, <3>2 DEF subscribe_to_ephem, Ids
  <2>3. PICK q \in Subscription :
          /\ requests' = requests \cup {q} /\ q.request_id # 0
          /\ q.destination = cached /\ q.upstream = "Ephem"
    <3>1. cached \in Upstreams /\ "Ephem" \in Kinds
      BY <1>1, <1>9 DEF TypeOK, Upstreams, Kinds
    <3>2. QED
      BY <2>2, <3>1, RequestType
  <2>4. RequestMarked(q)
    BY <1>1, <1>9, <2>3 DEF RequestMarked, TypeOK
  <2>5. /\ excuses' \subseteq Excuses /\ excuses \subseteq excuses'
        /\ cached # authority => "cache behind" \in excuses'
    <3>1. "cache behind" \in Excuses /\ excuses \subseteq Excuses
      BY <1>1 DEF Excuses, TypeOK
    <3>2. QED
      BY <2>1, <3>1, ExcuseKept
  <2>6. excuses' = {} => \E x \in requests' : x.destination = authority
    BY <2>3, <2>5
  <2>7. requests' \subseteq Subscription /\ requests \subseteq requests'
    BY <1>1, <2>3 DEF TypeOK
  <2>8. Watched => \A x \in requests' : RequestMarked(x)
    BY <1>6, <2>3, <2>4 DEF Marked
  <2>9. QED
    BY <1>1, <1>6, <1>7, <2>1, <2>2, <2>5, <2>6, <2>7, <2>8 DEF TypeOK, Marked
<1>10. CASE OwnerChanged(m) /\ m.upstream = "Chain" /\ cached \notin inner
  <2>1. PICK e \in {"cache behind", "unknown ER"} : Excuse(e, authority # None)
    BY <1>2, <1>10 DEF handle_delegation_status_change
  <2>2. UNCHANGED <<generated, requests, unsubs, handles>>
    BY <1>2, <1>10 DEF handle_delegation_status_change, subscribe_to_ephem
  <2>3. /\ excuses' \subseteq Excuses /\ excuses \subseteq excuses'
        /\ authority # None => e \in excuses'
    <3>1. e \in Excuses /\ excuses \subseteq Excuses
      BY <1>1 DEF Excuses, TypeOK
    <3>2. QED
      BY <2>1, <3>1, ExcuseKept
  <2>4. QED
    BY <1>1, <1>6, <1>7, <2>2, <2>3 DEF TypeOK, Marked
<1>11. CASE OwnerChanged(m) /\ m.upstream = "Ephem"
  <2>1. /\ handles' = [handles EXCEPT ![m.id] = None]
        /\ unsubs' = IF handles[m.id] = None THEN unsubs
                     ELSE unsubs \cup {[to |-> handles[m.id].unsub,
                                        request_id |-> m.id]}
        /\ UNCHANGED <<generated, requests, excuses>>
    BY <1>2, <1>11 DEF handle_delegation_status_change
  <2>2. ~ Told(m)
    BY <1>11 DEF Told
  <2>3. /\ handles' \in [Ids -> SubscriptionHandle \cup {None}]
        /\ \A i \in Ids : handles'[i] # None => handles'[i] = handles[i]
    BY <1>1, <2>1 DEF TypeOK
  <2>4. /\ unsubs' \subseteq Unsubscription
        /\ Watched => \A q \in unsubs' : q.to \in Ers
    <3>1. CASE handles[m.id] = None
      BY <1>1, <1>6, <2>1, <3>1 DEF TypeOK, Marked
    <3>2. CASE handles[m.id] # None
      <4>1. PICK q : /\ q = [to |-> handles[m.id].unsub, request_id |-> m.id]
                     /\ unsubs' = unsubs \cup {q}
        BY <2>1, <3>2
      <4>2. handles[m.id].unsub \in Upstreams
        BY <1>1, <1>4, <3>2 DEF TypeOK, SubscriptionHandle
      <4>3. q \in Unsubscription /\ q.to = handles[m.id].unsub
        BY <1>4, <4>1, <4>2 DEF Unsubscription
      <4>4. Watched => handles[m.id].unsub \in Ers
        BY <1>2, <1>4, <1>6, <1>11, <3>2 DEF Marked, MessageMarked
      <4>5. QED
        BY <1>1, <1>6, <4>1, <4>3, <4>4 DEF TypeOK, Marked
    <3>3. QED
      BY <3>1, <3>2
  <2>5. QED
    BY <1>1, <1>6, <1>7, <2>1, <2>2, <2>3, <2>4 DEF TypeOK, Marked
<1>12. QED
  BY <1>4, <1>8, <1>9, <1>10, <1>11 DEF Kinds

-----------------------------------------------------------------------------
(* The specification                                                       *)

\* The invariant is inductive.
LEMMA AccountInductive == Spec => []AccountInv
<1>1. ASSUME AccountInv, UNCHANGED vars PROVE AccountInv'
  <2>1. UNCHANGED <<chain, requests, unsubs, tables, handler, mailbox, excuses, left>>
    BY <1>1 DEF vars
  <2>2. UNCHANGED <<authority, cached, inner, active, given, request_to_subs,
                    subscriptions, feed, pc, sink, handles, generated>>
    BY <2>1 DEF chain, tables, handler
  <2>3. QED
    BY <1>1, <2>1, <2>2 DEF AccountInv, TypeInv, TypeOK, Watched, Marked,
       ChainWatched, Listening, Open, Followed, Announced
<1>2. ASSUME AccountInv, Next PROVE AccountInv'
  BY <1>2, AccountDelegate, AccountEnvironment, AccountConfirm, AccountDeliver,
     AccountUnsubscribe, AccountReestablish, AccountSubscribe, AccountGone,
     AccountCloses, AccountSubscribed, AccountDisconnected, AccountNotification
     DEF Next
<1>3. AccountInv /\ [Next]_vars => AccountInv'
  BY <1>1, <1>2
<1>4. QED
  BY AccountInit, <1>3, PTL DEF Spec

\* Every variable of the subscription keeps its type.
THEOREM AccountTypeCorrect == Spec => []TypeOK
<1>1. AccountInv => TypeOK
  BY DEF AccountInv, TypeInv
<1>2. QED
  BY AccountInductive, <1>1, PTL

\* As long as no connection is lost, the handler keeps its subscription to the
\* base chain: an undelegation ends the one at the ER node and never this one.
THEOREM ChainAlwaysKept == Spec => []ChainKept
<1>1. AccountInv => ChainKept
  BY DEF AccountInv, Watched, ChainWatched, ChainKept
<1>2. QED
  BY AccountInductive, <1>1, PTL

\* There is no other way to lose track of the account than the five that the
\* history names: with everything read and none of them met, the handler
\* listens where the account lives.
THEOREM LossesAlwaysExplained == Spec => []LossesExplained
<1>1. ASSUME AccountInv, Quiet, excuses = {} PROVE Listening(Source)
  <2>1. /\ pc = "live" /\ requests = {} /\ Range(mailbox) = {}
        /\ Range(feed[Chain]) = {}
    BY <1>1 DEF Quiet, Upstreams, Range
  <2>2. Listening(Chain)
    BY <1>1, <2>1 DEF AccountInv, Watched, ChainWatched
  <2>3. authority # None => Listening(authority)
    BY <1>1, <2>1 DEF AccountInv, Open, Followed, Announced
  <2>4. QED
    BY <2>2, <2>3 DEF Source
<1>2. AccountInv => LossesExplained
  BY <1>1 DEF LossesExplained
<1>3. QED
  BY AccountInductive, <1>2, PTL

=============================================================================
