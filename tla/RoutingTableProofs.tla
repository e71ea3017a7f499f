------------------------- MODULE RoutingTableProofs -------------------------
(***************************************************************************)
(* Theorems about the routing table, for every set of nodes and addresses, *)
(* every set of round trips, every limit of failed pings and every number  *)
(* of registry changes and lost subscriptions.                             *)
(***************************************************************************)
EXTENDS RoutingTable, TLAPS

-----------------------------------------------------------------------------
(* Type correctness                                                        *)

\* Every record the operators of UpstreamRecord make is one.
LEMMA NewRecordType ==
  ASSUME NEW u \in Urls
  PROVE  /\ NewRecord(u) \in UpstreamRecord
         /\ NewRecord(u) # Absent
<1>1. NewRecord(u) \in UpstreamRecord
  BY RoutesAssumption DEF NewRecord, UpstreamRecord
<1>2. QED
  BY <1>1, RoutesAssumption

\* A measurement, taken in or averaged in, leaves a record.
LEMMA UpdateProximityType ==
  ASSUME NEW r \in UpstreamRecord, NEW last \in Latencies
  PROVE  LET s == update_proximity(r, last) IN
         /\ s \in UpstreamRecord /\ s # Absent
         /\ s.proximity = IF r.proximity = MAX THEN last
                          ELSE (r.proximity * 85 + last * 15) \div 100
         /\ s.measured = TRUE /\ s.failures = 0
<1>1. last \in Nat /\ r.proximity \in Nat
  BY RoutesAssumption DEF UpstreamRecord
<1>2. (r.proximity * 85 + last * 15) \div 100 \in Nat
  BY <1>1
<1> DEFINE p == IF r.proximity = MAX THEN last
                ELSE (r.proximity * 85 + last * 15) \div 100
<1>3. p \in Nat
  BY <1>1, <1>2
<1>4. update_proximity(r, last) = [r EXCEPT !.proximity = p, !.age = 0,
                                   !.measured = TRUE, !.failures = 0]
  BY DEF update_proximity
<1> HIDE DEF p
<1>5. update_proximity(r, last) = [url |-> r.url, proximity |-> p, age |-> 0,
                                   measured |-> TRUE, failures |-> 0]
  BY <1>4 DEF UpstreamRecord
<1>6. update_proximity(r, last) \in UpstreamRecord
  BY <1>3, <1>5, RoutesAssumption DEF UpstreamRecord
<1>7. update_proximity(r, last) # Absent
  BY <1>6, RoutesAssumption
<1>8. QED
  BY <1>5, <1>6, <1>7 DEF p

\* A failed ping leaves a record, whose counter stays within its width.
LEMMA PingFailureType ==
  ASSUME NEW r \in UpstreamRecord
  PROVE  LET s == register_ping_failure(r) IN
         /\ s \in UpstreamRecord /\ s # Absent
         /\ s.failures = IF r.failures < U8_MAX THEN r.failures + 1 ELSE U8_MAX
         /\ s.proximity = IF s.failures >= MaxPingFailures THEN MAX
                          ELSE r.proximity
         /\ s.measured = r.measured
<1> DEFINE f == IF r.failures < U8_MAX THEN r.failures + 1 ELSE U8_MAX
           p == IF f >= MaxPingFailures THEN MAX ELSE r.proximity
<1>1. register_ping_failure(r) = [r EXCEPT !.failures = f, !.proximity = p]
  BY DEF register_ping_failure
<1>2. f \in 0 .. U8_MAX /\ p \in Nat
  BY RoutesAssumption DEF UpstreamRecord
<1> HIDE DEF f, p
<1>3. register_ping_failure(r) = [url |-> r.url, proximity |-> p,
        age |-> r.age, measured |-> r.measured, failures |-> f]
  BY <1>1 DEF UpstreamRecord
<1>4. register_ping_failure(r) \in UpstreamRecord
  BY <1>2, <1>3 DEF UpstreamRecord
<1>5. register_ping_failure(r) # Absent
  BY <1>4, RoutesAssumption
<1>6. QED
  BY <1>3, <1>4, <1>5 DEF f, p

\* The age of a record grows to one past the stale period and no further.
LEMMA AgeType ==
  ASSUME NEW r \in UpstreamRecord, r.age <= StaleAfter
  PROVE  LET s == [r EXCEPT !.age = @ + 1] IN
         /\ s \in UpstreamRecord /\ s # Absent
         /\ s.proximity = r.proximity /\ s.measured = r.measured
         /\ s.failures = r.failures
<1>1. [r EXCEPT !.age = @ + 1] = [url |-> r.url, proximity |-> r.proximity,
        age |-> r.age + 1, measured |-> r.measured, failures |-> r.failures]
  BY DEF UpstreamRecord
<1>2. r.age + 1 \in 0 .. StaleAfter + 1
  BY RoutesAssumption DEF UpstreamRecord
<1>3. [r EXCEPT !.age = @ + 1] \in UpstreamRecord
  BY <1>1, <1>2 DEF UpstreamRecord
<1>4. QED
  BY <1>1, <1>3, RoutesAssumption

\* A ping under way for one more period is a ping.
LEMMA LagType ==
  ASSUME NEW q \in Ping, q.lag < MaxLag
  PROVE  [q EXCEPT !.lag = @ + 1] \in Ping
<1>1. [q EXCEPT !.lag = @ + 1] = [node |-> q.node, url |-> q.url,
                                  lag |-> q.lag + 1]
  BY DEF Ping
<1>2. q.lag + 1 \in 0 .. MaxLag
  BY RoutesAssumption DEF Ping
<1>3. QED
  BY <1>1, <1>2 DEF Ping

\* What is left of a bound is a natural number.
LEMMA SpendType ==
  ASSUME TypeOK, NEW b \in {"changes", "losses"}, Spend(b)
  PROVE  left' \in [{"changes", "losses"} -> Nat]
BY DEF TypeOK, Spend

\* The types at the start.
LEMMA TypeInit == Init => TypeOK
<1> SUFFICES ASSUME Init PROVE TypeOK
  OBVIOUS
<1>1. inner \in [Nodes -> UpstreamRecord \cup {Absent}]
  <2>1. ASSUME NEW n \in Nodes, Decodable(registry[n])
        PROVE  NewRecord(registry[n].url) \in UpstreamRecord
    BY <2>1, NewRecordType DEF Decodable, ErRecord
  <2>2. QED
    BY <2>1 DEF Init
<1>2. left \in [{"changes", "losses"} -> Nat]
  BY RoutesAssumption DEF Init
<1>3. QED
  BY <1>1, <1>2 DEF Init, TypeOK

\* The types survive the steps of the chain and of the subscription.
LEMMA TypeOutside ==
  ASSUME TypeOK,
         \/ \E n \in Nodes, a \in Account : RegistryChange(n, a)
         \/ \E u \in Urls : NodeChange(u)
         \/ Subscribed \/ SubscriptionLost
  PROVE  TypeOK'
<1>1. ASSUME NEW n \in Nodes, NEW a \in Account, RegistryChange(n, a)
      PROVE  TypeOK'
  <2> DEFINE m == [type |-> "Notification", node |-> n, account |-> a]
  <2>1. m \in Message
    BY DEF Message
  <2>2. feed' \in {feed, Append(feed, m)} /\ missed' \subseteq Nodes
    BY <1>1 DEF RegistryChange, TypeOK
  <2> HIDE DEF m
  <2>5. feed' \in Seq(Message)
    BY <2>1, <2>2 DEF TypeOK
  <2>3. left' \in [{"changes", "losses"} -> Nat]
    BY <1>1, SpendType DEF RegistryChange
  <2>4. QED
    BY <1>1, <2>2, <2>3, <2>5 DEF RegistryChange, TypeOK
<1>2. ASSUME NEW u \in Urls, NodeChange(u) PROVE TypeOK'
  BY <1>2 DEF NodeChange, TypeOK
<1>3. CASE Subscribed
  BY <1>3 DEF Subscribed, TypeOK, outside
<1>4. CASE SubscriptionLost
  <2>1. [type |-> "Disconnected"] \in Message
    BY DEF Message
  <2>2. feed' \in Seq(Message)
    BY <1>4, <2>1 DEF SubscriptionLost, TypeOK
  <2>3. left' \in [{"changes", "losses"} -> Nat]
    BY <1>4, SpendType DEF SubscriptionLost
  <2>4. QED
    BY <1>4, <2>2, <2>3 DEF SubscriptionLost, TypeOK
<1>5. QED
  BY <1>1, <1>2, <1>3, <1>4

\* What is left of a feed after a message is read is a feed of messages.
LEMMA HeadTail ==
  ASSUME feed \in Seq(Message), feed # <<>>
  PROVE  /\ Head(feed) = feed[1] /\ feed[1] \in Message
         /\ Tail(feed) \in Seq(Message)
         /\ Len(Tail(feed)) = Len(feed) - 1
         /\ \A i \in 1 .. Len(feed) - 1 : Tail(feed)[i] = feed[i + 1]
         /\ Len(feed) \in Nat \ {0}
OBVIOUS

\* A notification names a node and its account.
LEMMA NotificationType ==
  ASSUME NEW m \in Message, m.type = "Notification"
  PROVE  m.node \in Nodes /\ m.account \in Account
BY DEF Message

\* The types survive the updater's handling of a message.
LEMMA TypeInsert ==
  ASSUME TypeOK, NEW n \in Nodes, NEW a \in Account, insert_entry(n, a)
  PROVE  /\ inner' \in [Nodes -> UpstreamRecord \cup {Absent}]
         /\ pda_to_identity' \subseteq Nodes
         /\ announced' \in [Urls -> {"online", "offline"}]
<1>1. CASE a = Closed /\ remove_entry(n)
  <2>1. Present(n) => inner[n].url \in Urls
    BY DEF TypeOK, Present, UpstreamRecord
  <2>2. QED
    BY <1>1, <2>1 DEF TypeOK, remove_entry
<1>2. CASE /\ Decodable(a)
           /\ pda_to_identity' = pda_to_identity \cup {n}
           /\ announced' = [announced EXCEPT ![a.url] =
                              IF a.active THEN "online" ELSE "offline"]
           /\ inner' = [inner EXCEPT ![n] = IF Present(n) THEN @
                                            ELSE NewRecord(a.url)]
  <2>1. NewRecord(a.url) \in UpstreamRecord
    BY <1>2, NewRecordType DEF Decodable, ErRecord
  <2>2. QED
    BY <1>2, <2>1 DEF TypeOK
<1>3. CASE UNCHANGED <<inner, pda_to_identity, announced>>
  BY <1>3 DEF TypeOK
<1>4. QED
  BY <1>1, <1>2, <1>3 DEF insert_entry

\* The types survive every step of the updater.
LEMMA TypeUpdater ==
  ASSUME TypeOK, HandleNotification \/ HandleDisconnected
  PROVE  TypeOK'
<1>1. CASE HandleNotification
  <2> DEFINE m == Head(feed)
  <2>1. m \in Message /\ m.type = "Notification" /\ feed' \in Seq(Message)
    BY <1>1, HeadTail DEF HandleNotification, TypeOK
  <2>2. m.node \in Nodes /\ m.account \in Account
    BY <2>1, NotificationType
  <2>3. insert_entry(m.node, m.account)
    BY <1>1 DEF HandleNotification
  <2> HIDE DEF m
  <2>4. QED
    BY <1>1, <2>1, <2>2, <2>3, TypeInsert DEF HandleNotification, TypeOK, outside
<1>2. CASE HandleDisconnected
  BY <1>2, HeadTail DEF HandleDisconnected, TypeOK, outside
<1>3. QED
  BY <1>1, <1>2

\* The types survive the pings.
LEMMA TypePings ==
  ASSUME TypeOK, PingTick \/ EndPing
  PROVE  TypeOK'
<1>1. CASE PingTick
  <2>1. inner' \in [Nodes -> UpstreamRecord \cup {Absent}]
    <3>1. ASSUME NEW n \in Nodes, Present(n), inner[n].age <= StaleAfter
          PROVE  [inner[n] EXCEPT !.age = @ + 1] \in UpstreamRecord
      BY <3>1, AgeType DEF TypeOK, Present
    <3>2. QED
      BY <1>1, <3>1 DEF PingTick, TypeOK
  <2>2. pings' \subseteq Ping
    <3>1. ASSUME NEW q \in pings PROVE [q EXCEPT !.lag = @ + 1] \in Ping
      BY <1>1, LagType DEF PingTick, TypeOK
    <3>2. ASSUME NEW n \in Nodes, Present(n)
          PROVE  [node |-> n, url |-> inner[n].url, lag |-> 0] \in Ping
      BY <3>2, RoutesAssumption DEF TypeOK, Ping, Present, UpstreamRecord
    <3>3. QED
      BY <1>1, <3>1, <3>2 DEF PingTick
  <2>3. QED
    BY <1>1, <2>1, <2>2 DEF PingTick, TypeOK, outside
<1>2. ASSUME NEW q \in pings, PingFailed(q) PROVE TypeOK'
  <2>1. q.node \in Nodes
    BY DEF TypeOK, Ping
  <2>2. inner' \in [Nodes -> UpstreamRecord \cup {Absent}]
    BY <1>2, <2>1, PingFailureType DEF PingFailed, TypeOK, Present
  <2>3. QED
    BY <1>2, <2>2 DEF PingFailed, TypeOK, outside
<1>3. ASSUME NEW q \in pings, NEW last \in Latencies, PingAnswered(q, last)
      PROVE  TypeOK'
  <2>1. q.node \in Nodes
    BY DEF TypeOK, Ping
  <2>2. inner' \in [Nodes -> UpstreamRecord \cup {Absent}]
    <3>1. Present(q.node) => update_proximity(inner[q.node], last) \in UpstreamRecord
      BY <2>1, UpdateProximityType DEF TypeOK, Present
    <3>2. QED
      BY <1>3, <2>1, <3>1 DEF PingAnswered, TypeOK
  <2>3. QED
    BY <1>3, <2>2 DEF PingAnswered, TypeOK, outside
<1>4. QED
  BY <1>1, <1>2, <1>3 DEF EndPing

\* The types survive every step.
LEMMA TypeNext == TypeOK /\ [Next]_vars => TypeOK'
<1>1. TypeOK /\ Next => TypeOK'
  BY TypeOutside, TypeUpdater, TypePings DEF Next
<1>2. TypeOK /\ UNCHANGED vars => TypeOK'
  BY DEF TypeOK, vars, outside
<1>3. QED
  BY <1>1, <1>2

\* Every variable keeps its type: no operation of the updater or of a ping
\* makes a record with a count of failures past u8::MAX or an age past the
\* stale period.
THEOREM TypeCorrect == Spec => []TypeOK
BY TypeInit, TypeNext, PTL DEF Spec

-----------------------------------------------------------------------------
(* Routes and the registry accounts they are removed by                    *)

\* What the updater does to the table on a message about a node: it touches
\* that node only, and its route and its registry account go together.
LEMMA InsertEntryEffect ==
  ASSUME TypeOK, RouteRemovable,
         NEW n \in Nodes, NEW a \in Account, insert_entry(n, a)
  PROVE  /\ \A m \in Nodes \ {n} :
              /\ inner'[m] = inner[m]
              /\ m \in pda_to_identity' <=> m \in pda_to_identity
         /\ inner'[n] # Absent <=> n \in pda_to_identity'
         /\ a = Closed => inner'[n] = Absent
         /\ \/ inner'[n] \in {Absent, inner[n]}
            \/ \E u \in Urls : inner'[n] = NewRecord(u)
<1>1. CASE a = Closed /\ remove_entry(n)
  BY <1>1 DEF TypeOK, remove_entry, RouteRemovable, Present
<1>2. CASE /\ Decodable(a)
           /\ pda_to_identity' = pda_to_identity \cup {n}
           /\ inner' = [inner EXCEPT ![n] = IF Present(n) THEN @
                                            ELSE NewRecord(a.url)]
  <2>1. a.url \in Urls /\ a # Closed
    BY <1>2, RoutesAssumption DEF Decodable, ErRecord
  <2>2. NewRecord(a.url) # Absent
    BY <2>1, NewRecordType
  <2>3. QED
    BY <1>2, <2>1, <2>2 DEF TypeOK, Present
<1>3. CASE /\ a = Garbage \/ Decodable(a)
           /\ UNCHANGED <<inner, pda_to_identity>>
  <2>1. a # Closed
    BY <1>3, RoutesAssumption DEF Decodable
  <2>2. QED
    BY <1>3, <2>1 DEF TypeOK, RouteRemovable, Present
<1>4. QED
  BY <1>1, <1>2, <1>3 DEF insert_entry

\* What the pings do to the table: no route comes or goes.
LEMMA PingsKeepRoutes ==
  ASSUME TypeOK, PingTick \/ EndPing
  PROVE  /\ \A n \in Nodes : inner'[n] # Absent <=> inner[n] # Absent
         /\ UNCHANGED <<outside, feed, mdp, pda_to_identity, announced, missed>>
<1>1. CASE PingTick
  <2>1. ASSUME NEW n \in Nodes PROVE inner'[n] # Absent <=> inner[n] # Absent
    <3>1. CASE Present(n) /\ inner[n].age <= StaleAfter
      BY <1>1, <3>1, AgeType DEF PingTick, TypeOK, Present
    <3>2. CASE ~ (Present(n) /\ inner[n].age <= StaleAfter)
      BY <1>1, <3>2 DEF PingTick
    <3>3. QED
      BY <3>1, <3>2
  <2>2. QED
    BY <1>1, <2>1 DEF PingTick
<1>2. ASSUME NEW q \in pings, PingFailed(q)
      PROVE  /\ \A n \in Nodes : inner'[n] # Absent <=> inner[n] # Absent
             /\ UNCHANGED <<outside, feed, mdp, pda_to_identity, announced, missed>>
  BY <1>2, PingFailureType DEF PingFailed, TypeOK, Present, Ping
<1>3. ASSUME NEW q \in pings, NEW last \in Latencies, PingAnswered(q, last)
      PROVE  /\ \A n \in Nodes : inner'[n] # Absent <=> inner[n] # Absent
             /\ UNCHANGED <<outside, feed, mdp, pda_to_identity, announced, missed>>
  BY <1>3, UpdateProximityType DEF PingAnswered, TypeOK, Present, Ping
<1>4. QED
  BY <1>1, <1>2, <1>3 DEF EndPing

\* The routes the constructor made have their registry accounts.
LEMMA RemovableInit == Init => RouteRemovable
<1> SUFFICES ASSUME Init, NEW n \in Nodes
             PROVE  Present(n) <=> n \in pda_to_identity
  BY DEF RouteRemovable
<1>1. CASE Decodable(registry[n])
  <2>1. NewRecord(registry[n].url) # Absent
    BY <1>1, NewRecordType DEF Decodable, ErRecord
  <2>2. QED
    BY <1>1, <2>1 DEF Init, Present
<1>2. CASE ~ Decodable(registry[n])
  BY <1>2 DEF Init, Present
<1>3. QED
  BY <1>1, <1>2

\* Routes and registry accounts come and go together in every step.
LEMMA RemovableNext == TypeOK /\ RouteRemovable /\ [Next]_vars => RouteRemovable'
<1> SUFFICES ASSUME TypeOK, RouteRemovable, [Next]_vars PROVE RouteRemovable'
  OBVIOUS
<1>1. CASE UNCHANGED <<inner, pda_to_identity>>
  BY <1>1 DEF RouteRemovable, Present
<1>2. CASE HandleNotification
  <2> DEFINE m == Head(feed)
  <2>1. m.node \in Nodes /\ m.account \in Account
    BY <1>2, HeadTail, NotificationType DEF HandleNotification, TypeOK
  <2>2. insert_entry(m.node, m.account)
    BY <1>2 DEF HandleNotification
  <2> HIDE DEF m
  <2>3. QED
    BY <2>1, <2>2, InsertEntryEffect DEF RouteRemovable, Present
<1>3. CASE PingTick \/ EndPing
  BY <1>3, PingsKeepRoutes DEF RouteRemovable, Present
<1>4. QED
  BY <1>1, <1>2, <1>3
     DEF Next, vars, RegistryChange, NodeChange, Subscribed, SubscriptionLost,
         HandleDisconnected

\* Every route of the table can be removed, whatever the order of registry
\* changes, losses of the subscription and late pings: remove_entry finds it
\* through pda_to_identity, and nothing else is found there.
THEOREM RoutesRemovable == Spec => []RouteRemovable
BY TypeCorrect, RemovableInit, RemovableNext, PTL DEF Spec

-----------------------------------------------------------------------------
(* Proximity                                                               *)

\* What ProximityMeasured says of one record.
MeasuredRecord(r) ==
  /\ r.proximity # MAX =>
       \E a, b \in Latencies : a <= r.proximity /\ r.proximity <= b
  /\ r.proximity = MAX <=> ~ r.measured \/ r.failures >= MaxPingFailures

\* A moving average of a number and a later one lies between them.
LEMMA AverageBetween ==
  ASSUME NEW a \in Nat, NEW b \in Nat, NEW p \in Nat, NEW l \in Nat,
         a <= p, p <= b, a <= l, l <= b
  PROVE  LET v == (p * 85 + l * 15) \div 100 IN a <= v /\ v <= b
OBVIOUS

\* A first or a later measurement is an average of measurements.
LEMMA MeasuredUpdate ==
  ASSUME NEW r \in UpstreamRecord, MeasuredRecord(r), NEW last \in Latencies
  PROVE  MeasuredRecord(update_proximity(r, last))
<1> DEFINE s == update_proximity(r, last)
<1>1. s.measured = TRUE /\ s.failures = 0
  BY UpdateProximityType
<1>2. last \in Nat /\ last < MAX /\ MAX \in Nat
  BY RoutesAssumption
<1>3. \E a, b \in Latencies : a <= s.proximity /\ s.proximity <= b
  <2>1. CASE r.proximity = MAX
    <3>1. s.proximity = last
      BY <2>1, UpdateProximityType
    <3>2. last <= s.proximity /\ s.proximity <= last
      BY <1>2, <3>1
    <3>3. QED
      BY <3>2
  <2>2. CASE r.proximity # MAX
    <3>1. PICK a, b \in Latencies : a <= r.proximity /\ r.proximity <= b
      BY <2>2 DEF MeasuredRecord
    <3>2. s.proximity = (r.proximity * 85 + last * 15) \div 100
      BY <2>2, UpdateProximityType
    <3>3. PICK lo \in {a, last}, hi \in {b, last} :
            lo <= a /\ lo <= last /\ b <= hi /\ last <= hi
      BY RoutesAssumption
    <3>4. lo \in Latencies /\ hi \in Latencies /\ lo \in Nat /\ hi \in Nat
      BY <3>3, RoutesAssumption
    <3>5. r.proximity \in Nat /\ lo <= r.proximity /\ r.proximity <= hi
      BY <3>1, <3>3, <3>4, RoutesAssumption DEF UpstreamRecord
    <3>6. lo <= s.proximity /\ s.proximity <= hi
      BY <1>2, <3>2, <3>3, <3>4, <3>5, AverageBetween
    <3>7. QED
      BY <3>4, <3>6
  <2>3. QED
    BY <2>1, <2>2
<1>4. s.proximity # MAX
  BY <1>2, <1>3, UpdateProximityType, RoutesAssumption DEF UpstreamRecord
<1> HIDE DEF s
<1>5. MeasuredRecord(s)
  BY <1>1, <1>3, <1>4, RoutesAssumption DEF MeasuredRecord
<1>6. QED
  BY <1>5 DEF s

\* A failed ping leaves the average or forgets it, and the average is gone
\* exactly when the failures are too many, at the limit of the counter too.
LEMMA MeasuredFailure ==
  ASSUME NEW r \in UpstreamRecord, MeasuredRecord(r)
  PROVE  MeasuredRecord(register_ping_failure(r))
<1> DEFINE s == register_ping_failure(r)
<1>1. /\ s.failures = IF r.failures < U8_MAX THEN r.failures + 1 ELSE U8_MAX
      /\ s.proximity = IF s.failures >= MaxPingFailures THEN MAX
                       ELSE r.proximity
      /\ s.measured = r.measured
  BY PingFailureType
<1>2. r.failures \in 0 .. U8_MAX
  BY DEF UpstreamRecord
<1> HIDE DEF s
<1>3. ASSUME s.failures >= MaxPingFailures PROVE MeasuredRecord(s)
  BY <1>1, <1>3 DEF MeasuredRecord
<1>4. ASSUME ~ (s.failures >= MaxPingFailures) PROVE MeasuredRecord(s)
  <2>1. ~ (r.failures >= MaxPingFailures)
    BY <1>1, <1>2, <1>4, RoutesAssumption
  <2>2. QED
    BY <1>1, <1>4, <2>1 DEF MeasuredRecord
<1>5. MeasuredRecord(s)
  BY <1>3, <1>4
<1>6. QED
  BY <1>5 DEF s

\* A new record waits for its first measurement.
LEMMA MeasuredNew ==
  ASSUME NEW u \in Urls
  PROVE  MeasuredRecord(NewRecord(u))
BY DEF MeasuredRecord, NewRecord

\* At the start no node has been measured.
LEMMA MeasuredInit == Init => ProximityMeasured
<1> SUFFICES ASSUME Init, NEW n \in Nodes, Present(n)
             PROVE  MeasuredRecord(inner[n])
  BY DEF ProximityMeasured, MeasuredRecord
<1>1. Decodable(registry[n]) /\ inner[n] = NewRecord(registry[n].url)
  BY DEF Init, Present
<1>2. QED
  BY <1>1, MeasuredNew DEF Decodable, ErRecord

\* Every step keeps the proximities within what was measured.
LEMMA MeasuredNext ==
  TypeOK /\ RouteRemovable /\ ProximityMeasured /\ [Next]_vars
    => ProximityMeasured'
<1> SUFFICES ASSUME TypeOK, RouteRemovable, ProximityMeasured, [Next]_vars,
                    NEW n \in Nodes, inner'[n] # Absent
             PROVE  MeasuredRecord(inner'[n])
  BY DEF ProximityMeasured, MeasuredRecord, Present
<1>0. inner[n] # Absent => MeasuredRecord(inner[n]) /\ inner[n] \in UpstreamRecord
  BY DEF ProximityMeasured, MeasuredRecord, Present, TypeOK
<1>1. CASE UNCHANGED inner
  BY <1>0, <1>1
<1>2. CASE HandleNotification
  <2> DEFINE m == Head(feed)
  <2>1. m.node \in Nodes /\ m.account \in Account
    BY <1>2, HeadTail, NotificationType DEF HandleNotification, TypeOK
  <2>2. insert_entry(m.node, m.account)
    BY <1>2 DEF HandleNotification
  <2> HIDE DEF m
  <2>3. inner'[n] = inner[n] \/ \E u \in Urls : inner'[n] = NewRecord(u)
    BY <2>1, <2>2, InsertEntryEffect
  <2>4. QED
    BY <1>0, <2>3, MeasuredNew
<1>3. CASE PingTick
  <2>1. inner[n] # Absent
    BY <1>3, PingsKeepRoutes
  <2>2. CASE inner[n].age <= StaleAfter
    <3>1. inner'[n] = [inner[n] EXCEPT !.age = @ + 1]
      BY <1>3, <2>1, <2>2 DEF PingTick, Present
    <3>2. /\ inner'[n].proximity = inner[n].proximity
          /\ inner'[n].measured = inner[n].measured
          /\ inner'[n].failures = inner[n].failures
      BY <1>0, <2>1, <2>2, <3>1, AgeType
    <3>3. QED
      BY <1>0, <2>1, <3>2 DEF MeasuredRecord
  <2>3. CASE ~ (inner[n].age <= StaleAfter)
    BY <1>0, <1>3, <2>1, <2>3 DEF PingTick
  <2>4. QED
    BY <2>2, <2>3
<1>4. ASSUME NEW q \in pings, PingFailed(q) PROVE MeasuredRecord(inner'[n])
  <2>1. \/ inner'[n] = inner[n]
        \/ inner[n] # Absent /\ inner'[n] = register_ping_failure(inner[n])
    BY <1>4 DEF PingFailed, TypeOK, Ping, Present
  <2>2. QED
    BY <1>0, <2>1, MeasuredFailure
<1>5. ASSUME NEW q \in pings, NEW last \in Latencies, PingAnswered(q, last)
      PROVE  MeasuredRecord(inner'[n])
  <2>1. \/ inner'[n] = inner[n]
        \/ inner[n] # Absent /\ inner'[n] = update_proximity(inner[n], last)
    BY <1>5 DEF PingAnswered, TypeOK, Ping, Present
  <2>2. QED
    BY <1>0, <2>1, MeasuredUpdate
<1>6. QED
  BY <1>1, <1>2, <1>3, <1>4, <1>5
     DEF Next, vars, RegistryChange, NodeChange, Subscribed, SubscriptionLost,
         HandleDisconnected, EndPing

\* The average of a node stays between measured round trips, and is u64::MAX
\* exactly when there is none to rely on, for every sequence of answers,
\* failures and resets and every limit of failures that fits the counter.
THEOREM ProximitiesMeasured == Spec => []ProximityMeasured
BY TypeCorrect, RoutesRemovable, MeasuredInit, MeasuredNext, PTL DEF Spec

-----------------------------------------------------------------------------
(* Closed accounts                                                         *)

About(m, n) == m.type = "Notification" /\ m.node = n

\* The last unread notification about a node shows the node's account as it is
\* now, unless a later change was not sent.  Without it ClosedUnrouted is not
\* inductive: reading the last notification about a closed account must be
\* reading that it is closed.
LastToldTrue ==
  \A n \in Nodes \ missed : \A i \in 1 .. Len(feed) :
    /\ About(feed[i], n)
    /\ \A j \in i + 1 .. Len(feed) : ~ About(feed[j], n)
    => feed[i].account = registry[n]

ClosedInv == RouteRemovable /\ LastToldTrue /\ ClosedUnrouted

\* The registry as the constructor read it.
LEMMA ClosedInit == Init => LastToldTrue /\ ClosedUnrouted
<1> SUFFICES ASSUME Init PROVE LastToldTrue /\ ClosedUnrouted
  OBVIOUS
<1>1. LastToldTrue
  BY DEF Init, LastToldTrue
<1>2. ASSUME NEW n \in Nodes, registry[n] = Closed PROVE ~ Present(n)
  <2>1. ~ Decodable(registry[n])
    BY <1>2, RoutesAssumption DEF Decodable
  <2>2. QED
    BY <2>1 DEF Init, Present
<1>3. QED
  BY <1>1, <1>2 DEF ClosedUnrouted

\* A message is added at the end of the feed.
LEMMA AppendFeed ==
  ASSUME feed \in Seq(Message), NEW m \in Message, feed' = Append(feed, m)
  PROVE  /\ Len(feed) \in Nat /\ Len(feed') = Len(feed) + 1
         /\ \A i \in 1 .. Len(feed) : feed'[i] = feed[i]
         /\ feed'[Len(feed) + 1] = m
         /\ DOMAIN feed = 1 .. Len(feed) /\ DOMAIN feed' = 1 .. Len(feed) + 1
OBVIOUS

\* Adding a message keeps what is pending, and what is the last about a node
\* that the message is not about.
LEMMA LastAfterAppend ==
  ASSUME TypeOK, LastToldTrue, NEW m \in Message, feed' = Append(feed, m),
         NEW n \in Nodes, ~ About(m, n),
         n \in missed' <=> n \in missed, registry'[n] = registry[n]
  PROVE  /\ Pending(n)' <=> Pending(n)
         /\ n \notin missed' =>
              \A i \in 1 .. Len(feed') :
                /\ About(feed'[i], n)
                /\ \A j \in i + 1 .. Len(feed') : ~ About(feed'[j], n)
                => feed'[i].account = registry'[n]
<1>1. /\ Len(feed) \in Nat /\ Len(feed') = Len(feed) + 1
      /\ \A i \in 1 .. Len(feed) : feed'[i] = feed[i]
      /\ feed'[Len(feed) + 1] = m
      /\ DOMAIN feed = 1 .. Len(feed) /\ DOMAIN feed' = 1 .. Len(feed) + 1
  BY AppendFeed DEF TypeOK
<1>2. \A i \in 1 .. Len(feed) : About(feed'[i], n) <=> About(feed[i], n)
  BY <1>1
<1>3. ~ About(feed'[Len(feed) + 1], n)
  BY <1>1
<1>4. Pending(n)' <=> \E i \in 1 .. Len(feed) + 1 : About(feed'[i], n)
  BY <1>1 DEF Pending, About
<1>5. Pending(n) <=> \E i \in 1 .. Len(feed) : About(feed[i], n)
  BY <1>1 DEF Pending, About
<1>6. Pending(n)' <=> Pending(n)
  BY <1>1, <1>2, <1>3, <1>4, <1>5
<1>7. ASSUME n \notin missed', NEW i \in 1 .. Len(feed'), About(feed'[i], n),
             \A j \in i + 1 .. Len(feed') : ~ About(feed'[j], n)
      PROVE  feed'[i].account = registry'[n]
  <2>1. i \in 1 .. Len(feed)
    BY <1>1, <1>3, <1>7
  <2>2. \A j \in i + 1 .. Len(feed) : ~ About(feed[j], n)
    BY <1>1, <1>2, <1>7, <2>1
  <2>3. About(feed[i], n) /\ feed'[i] = feed[i]
    BY <1>1, <1>2, <1>7, <2>1
  <2>4. QED
    BY <1>7, <2>1, <2>2, <2>3 DEF LastToldTrue
<1>8. QED
  BY <1>6, <1>7

\* Reading a message keeps what is the last about a node; if the message is
\* about a node with nothing else pending, it was the last about it.
LEMMA LastAfterRead ==
  ASSUME TypeOK, LastToldTrue, feed # <<>>, feed' = Tail(feed),
         UNCHANGED <<missed, registry>>, NEW n \in Nodes \ missed
  PROVE  /\ \A i \in 1 .. Len(feed') :
              /\ About(feed'[i], n)
              /\ \A j \in i + 1 .. Len(feed') : ~ About(feed'[j], n)
              => feed'[i].account = registry'[n]
         /\ ~ About(Head(feed), n) => (Pending(n)' <=> Pending(n))
         /\ About(Head(feed), n) /\ ~ Pending(n)'
              => Head(feed).account = registry[n]
<1>1. /\ Head(feed) = feed[1] /\ Len(feed) \in Nat \ {0}
      /\ Len(feed') = Len(feed) - 1
      /\ \A i \in 1 .. Len(feed) - 1 : feed'[i] = feed[i + 1]
  BY HeadTail DEF TypeOK
<1>2. DOMAIN feed = 1 .. Len(feed) /\ DOMAIN feed' = 1 .. Len(feed')
  BY DEF TypeOK
<1>3. Pending(n)' <=> \E i \in 1 .. Len(feed') : About(feed'[i], n)
  BY <1>2 DEF Pending, About
<1>4. Pending(n) <=> \E i \in 1 .. Len(feed) : About(feed[i], n)
  BY <1>2 DEF Pending, About
<1>5. ASSUME NEW i \in 1 .. Len(feed'), About(feed'[i], n),
             \A j \in i + 1 .. Len(feed') : ~ About(feed'[j], n)
      PROVE  feed'[i].account = registry'[n]
  <2>1. i + 1 \in 1 .. Len(feed) /\ feed'[i] = feed[i + 1]
    BY <1>1
  <2>2. ASSUME NEW j \in i + 2 .. Len(feed) PROVE ~ About(feed[j], n)
    <3>1. j - 1 \in i + 1 .. Len(feed') /\ feed'[j - 1] = feed[j]
      BY <1>1
    <3>2. QED
      BY <1>5, <3>1
  <2>3. \A j \in (i + 1) + 1 .. Len(feed) : ~ About(feed[j], n)
    BY <2>2
  <2>4. QED
    BY <1>5, <2>1, <2>3 DEF LastToldTrue
<1>6. \A k \in 2 .. Len(feed) : feed[k] = feed'[k - 1] /\ k - 1 \in 1 .. Len(feed')
  BY <1>1
<1>7. ASSUME ~ About(Head(feed), n) PROVE Pending(n)' <=> Pending(n)
  <2>1. Pending(n) <=> \E k \in 2 .. Len(feed) : About(feed[k], n)
    BY <1>1, <1>4, <1>7
  <2>2. \A i \in 1 .. Len(feed') : i + 1 \in 2 .. Len(feed) /\ feed'[i] = feed[i + 1]
    BY <1>1
  <2>3. QED
    BY <1>3, <1>6, <2>1, <2>2
<1>8. ASSUME About(Head(feed), n), ~ Pending(n)'
      PROVE  Head(feed).account = registry[n]
  <2>1. \A j \in 1 + 1 .. Len(feed) : ~ About(feed[j], n)
    BY <1>3, <1>6, <1>8
  <2>2. 1 \in 1 .. Len(feed) /\ About(feed[1], n)
    BY <1>1, <1>8
  <2>3. QED
    BY <1>1, <2>1, <2>2 DEF LastToldTrue
<1>9. QED
  BY <1>5, <1>7, <1>8

\* A change of the registry is sent, or counted as missed.
LEMMA ClosedChange ==
  ASSUME TypeOK, ClosedInv,
         NEW c \in Nodes, NEW a \in Account, RegistryChange(c, a)
  PROVE  LastToldTrue' /\ ClosedUnrouted'
<1>1. /\ registry' = [registry EXCEPT ![c] = a]
      /\ UNCHANGED inner
  BY DEF RegistryChange
<1> DEFINE m == [type |-> "Notification", node |-> c, account |-> a]
<1>2. CASE feed' = Append(feed, m) /\ missed' = missed \ {c}
  <2>1. m \in Message /\ About(m, c) /\ m.account = a
    BY DEF Message, About
  <2>2. \A n \in Nodes \ {c} : ~ About(m, n)
    BY DEF About
  <2> HIDE DEF m
  <2>3. /\ Len(feed) \in Nat /\ Len(feed') = Len(feed) + 1
        /\ \A i \in 1 .. Len(feed) : feed'[i] = feed[i]
        /\ feed'[Len(feed) + 1] = m
        /\ DOMAIN feed' = 1 .. Len(feed) + 1
    BY <1>2, <2>1, AppendFeed DEF TypeOK
  <2>4. Pending(c)'
    BY <2>1, <2>3 DEF Pending, About
  <2>5. ASSUME NEW i \in 1 .. Len(feed'),
               \A j \in i + 1 .. Len(feed') : ~ About(feed'[j], c)
        PROVE  feed'[i].account = registry'[c]
    <3>1. i = Len(feed) + 1
      BY <2>1, <2>3, <2>5
    <3>2. QED
      BY <1>1, <2>1, <2>3, <3>1 DEF TypeOK
  <2>6. ASSUME NEW n \in Nodes \ {c}
        PROVE  /\ n \in missed' <=> n \in missed
               /\ registry'[n] = registry[n]
    BY <1>1, <1>2 DEF TypeOK
  <2>7. LastToldTrue'
    <3> SUFFICES ASSUME NEW n \in Nodes \ missed', NEW i \in 1 .. Len(feed'),
                        About(feed'[i], n),
                        \A j \in i + 1 .. Len(feed') : ~ About(feed'[j], n)
                 PROVE  feed'[i].account = registry'[n]
      BY DEF LastToldTrue, About
    <3>1. CASE n = c
      BY <2>5, <3>1
    <3>2. CASE n # c
      BY <1>2, <2>1, <2>2, <2>6, <3>2, LastAfterAppend DEF ClosedInv
    <3>3. QED
      BY <3>1, <3>2
  <2>8. ClosedUnrouted'
    <3> SUFFICES ASSUME NEW n \in Nodes, registry'[n] = Closed, ~ Pending(n)',
                        n \notin missed'
                 PROVE  ~ Present(n)'
      BY DEF ClosedUnrouted
    <3>1. n # c
      BY <2>4
    <3>2. ~ Pending(n) /\ registry[n] = Closed /\ n \notin missed
      BY <1>2, <2>1, <2>2, <2>6, <3>1, LastAfterAppend DEF ClosedInv
    <3>3. QED
      BY <1>1, <3>2 DEF ClosedInv, ClosedUnrouted, Present
  <2>9. QED
    BY <2>7, <2>8
<1>3. CASE UNCHANGED feed /\ missed' = missed \cup {c}
  <2>1. \A n \in Nodes \ missed' : n \notin missed /\ registry'[n] = registry[n]
    BY <1>1, <1>3 DEF TypeOK
  <2>2. LastToldTrue'
    BY <1>3, <2>1 DEF ClosedInv, LastToldTrue, About
  <2>3. ClosedUnrouted'
    BY <1>1, <1>3, <2>1 DEF ClosedInv, ClosedUnrouted, Present, Pending
  <2>4. QED
    BY <2>2, <2>3
<1>4. QED
  BY <1>2, <1>3 DEF RegistryChange

\* A loss of the subscription is told in the feed, about no node.
LEMMA ClosedLost ==
  ASSUME TypeOK, ClosedInv, SubscriptionLost
  PROVE  LastToldTrue' /\ ClosedUnrouted'
<1> DEFINE m == [type |-> "Disconnected"]
<1>1. m \in Message /\ \A n \in Nodes : ~ About(m, n)
  BY DEF Message, About
<1>2. feed' = Append(feed, m) /\ UNCHANGED <<registry, inner, missed>>
  BY DEF SubscriptionLost
<1> HIDE DEF m
<1>3. ASSUME NEW n \in Nodes
      PROVE  /\ Pending(n)' <=> Pending(n)
             /\ n \notin missed' =>
                  \A i \in 1 .. Len(feed') :
                    /\ About(feed'[i], n)
                    /\ \A j \in i + 1 .. Len(feed') : ~ About(feed'[j], n)
                    => feed'[i].account = registry'[n]
  BY <1>1, <1>2, LastAfterAppend DEF ClosedInv
<1>4. LastToldTrue'
  BY <1>3 DEF LastToldTrue, About
<1>5. ClosedUnrouted'
  BY <1>2, <1>3 DEF ClosedInv, ClosedUnrouted, Present
<1>6. QED
  BY <1>4, <1>5

\* The updater reads a message: the last one about a closed account removes
\* its route.
LEMMA ClosedRead ==
  ASSUME TypeOK, ClosedInv, HandleNotification \/ HandleDisconnected
  PROVE  LastToldTrue' /\ ClosedUnrouted'
<1> DEFINE m == Head(feed)
<1>1. feed # <<>> /\ feed' = Tail(feed) /\ UNCHANGED <<missed, registry>>
  BY DEF HandleNotification, HandleDisconnected, outside
<1>2. ASSUME NEW n \in Nodes \ missed
      PROVE  /\ \A i \in 1 .. Len(feed') :
                  /\ About(feed'[i], n)
                  /\ \A j \in i + 1 .. Len(feed') : ~ About(feed'[j], n)
                  => feed'[i].account = registry'[n]
             /\ ~ About(m, n) => (Pending(n)' <=> Pending(n))
             /\ About(m, n) /\ ~ Pending(n)' => m.account = registry[n]
  BY <1>1, LastAfterRead DEF ClosedInv
<1>3. LastToldTrue'
  BY <1>1, <1>2 DEF LastToldTrue, About
<1>4. ASSUME NEW n \in Nodes, registry'[n] = Closed, ~ Pending(n)', n \notin missed'
      PROVE  inner'[n] = Absent
  <2>1. registry[n] = Closed /\ n \notin missed
    BY <1>1, <1>4
  <2>2. CASE HandleNotification
    <3>1. m.type = "Notification" /\ m.node \in Nodes /\ m.account \in Account
      BY <2>2, HeadTail, NotificationType DEF HandleNotification, TypeOK
    <3>2. insert_entry(m.node, m.account)
      BY <2>2 DEF HandleNotification
    <3> HIDE DEF m
    <3>3. CASE m.node = n
      <4>1. m.account = Closed
        BY <1>2, <1>4, <2>1, <3>1, <3>3 DEF About
      <4>2. QED
        BY <3>1, <3>2, <3>3, <4>1, InsertEntryEffect DEF ClosedInv
    <3>4. CASE m.node # n
      <4>1. ~ Pending(n)
        BY <1>2, <1>4, <2>1, <3>4 DEF About
      <4>2. inner[n] = Absent
        BY <2>1, <4>1 DEF ClosedInv, ClosedUnrouted, Present
      <4>3. QED
        BY <3>1, <3>2, <3>4, <4>2, InsertEntryEffect DEF ClosedInv
    <3>5. QED
      BY <3>3, <3>4
  <2>3. CASE HandleDisconnected
    <3>1. ~ About(m, n) /\ UNCHANGED inner
      BY <2>3 DEF HandleDisconnected, About
    <3>2. ~ Pending(n)
      BY <1>2, <1>4, <2>1, <3>1
    <3>3. QED
      BY <2>1, <3>1, <3>2 DEF ClosedInv, ClosedUnrouted, Present
  <2>4. QED
    BY <2>2, <2>3
<1>5. ClosedUnrouted'
  BY <1>4 DEF ClosedUnrouted, Present
<1>6. QED
  BY <1>3, <1>5

\* Every step keeps what the feed says last of a node true of it.
LEMMA ClosedNext == TypeOK /\ ClosedInv /\ [Next]_vars => ClosedInv'
<1> SUFFICES ASSUME TypeOK, ClosedInv, [Next]_vars
             PROVE  LastToldTrue' /\ ClosedUnrouted'
  BY RemovableNext DEF ClosedInv
<1>1. ASSUME NEW c \in Nodes, NEW a \in Account, RegistryChange(c, a)
      PROVE  LastToldTrue' /\ ClosedUnrouted'
  BY <1>1, ClosedChange
<1>2. CASE /\ UNCHANGED <<registry, feed, missed>>
           /\ \A n \in Nodes : inner'[n] # Absent <=> inner[n] # Absent
  BY <1>2 DEF ClosedInv, LastToldTrue, ClosedUnrouted, Present, Pending, About
<1>3. CASE PingTick \/ EndPing
  BY <1>2, <1>3, PingsKeepRoutes DEF outside
<1>4. CASE SubscriptionLost
  BY <1>4, ClosedLost
<1>5. CASE HandleNotification \/ HandleDisconnected
  BY <1>5, ClosedRead
<1>6. QED
  BY <1>1, <1>2, <1>3, <1>4, <1>5 DEF Next, vars, outside, NodeChange, Subscribed

\* A node that closed its registry account has no route once the updater has
\* read the change, for every number of nodes, changes and messages unread,
\* unless the change fell into a gap of the subscription.
THEOREM ClosedNodesUnrouted == Spec => []ClosedUnrouted
<1>1. Init => ClosedInv
  BY RemovableInit, ClosedInit DEF ClosedInv
<1>2. ClosedInv => ClosedUnrouted
  BY DEF ClosedInv
<1>3. QED
  BY <1>1, <1>2, ClosedNext, TypeCorrect, PTL DEF Spec

=============================================================================
