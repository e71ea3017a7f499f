--------------------------- MODULE HttpRoutingProofs ---------------------------
(***************************************************************************)
(* Theorems about the HTTP methods, for any number of calls, accounts,     *)
(* nodes, transactions and blockhashes, and for any changes of delegations *)
(* and routes between two steps of a call.                                 *)
(*                                                                         *)
(* The locals of a call are one value, so that most of the invariant is a  *)
(* predicate of a value (CallInv), and a step keeps it when the new value  *)
(* satisfies it, whatever the other calls do.                              *)
(***************************************************************************)
EXTENDS HttpRouting, TLAPS

Resolving == {"account", "status", "blockhash", "send"}
Looking == {"signatures", "subscribe", "valid"}

\* Which method is where, and what it has by then.
Stage(c) ==
  /\ c.pc = "resolve" => c.method \in Resolving
  /\ c.pc = "join" => c.method = "multiple"
  /\ c.pc = "lookup" => c.method \in Looking
  /\ c.pc = "put" => c.method \in {"send", "blockhash", "latest"}
  /\ c.pc = "subscribed" => c.method = "subscribe"
  /\ c.method = "multiple" => c.pc \in {"join", "ask", "done"}
  /\ c.method # "multiple" => c.requests = {} /\ c.response = <<>>
  /\ c.pc \in {"resolve", "join", "lookup"} => c.client = None
  /\ c.pc \in {"ask", "put", "subscribed"} /\ c.method # "multiple" =>
       c.client # None
  /\ c.pc # "done" => c.reply = "none"

\* What a call is about.
Subjects(c) ==
  /\ c.method \in {"send", "subscribe"} => \E t \in Txns : c.subject = <<t>>
  /\ c.method = "valid" => \E h \in Hashes : c.subject = <<h>>
  /\ c.method = "signatures" => c.subject \in Seq(Txns)
  /\ c.pc = "put" /\ c.method # "send" => \E h \in Hashes : c.subject = <<h>>

\* The choice made so far is the one node that was answered.
Resolved(c) ==
  c.pc = "resolve" =>
    /\ Len(c.answers) <= Len(c.pubkeys)
    /\ Delegated(c) = {c.delegation} \ {None}

\* RoutedByAnswers and PositionsMatch, of one call.
Routed(c) ==
  c.method \in {"account", "blockhash", "send"} =>
    /\ c.client \in Ers => Delegated(c) = {c.client}
    /\ c.client \in Range(BaseChain) => Delegated(c) = {}
    /\ c.pc # "idle" =>
         (c.reply = "ConflictingDelegations" <=> \E u, v \in Delegated(c) : u # v)

Positions(c) ==
  /\ \A i \in DOMAIN c.response : c.response[i] # None =>
       /\ c.response[i].pk = c.pubkeys[i]
       /\ IF c.answers[i] = None THEN c.response[i].by \in Range(BaseChain)
          ELSE c.response[i].by = c.answers[i]
  /\ c.method = "multiple" /\ c.reply = "ok" =>
       DOMAIN c.response = DOMAIN c.pubkeys /\ None \notin Range(c.response)

\* A part asks the upstream of its accounts, and every position is answered
\* or in a part that is still to be answered.
PartFits(c, p) ==
  \A i \in p.indices :
    /\ i \in DOMAIN c.answers
    /\ IF c.answers[i] = None THEN p.client \in Range(BaseChain)
       ELSE p.client = c.answers[i]
Parts(c) ==
  c.method = "multiple" =>
    /\ c.pubkeys \in Seq(Accounts)
    /\ c.pc = "join" => /\ c.response = <<>> /\ c.requests = {}
                        /\ c.answers # <<>> => Len(c.answers) = Len(c.pubkeys)
    /\ c.pc = "ask" =>
         /\ DOMAIN c.response = DOMAIN c.pubkeys
         /\ DOMAIN c.answers = DOMAIN c.pubkeys
         /\ \A p \in c.requests : PartFits(c, p)
         /\ \A i \in DOMAIN c.response :
              c.response[i] # None \/ \E p \in c.requests : i \in p.indices

CallInv(c) ==
  Stage(c) /\ Subjects(c) /\ Resolved(c) /\ Routed(c) /\ Positions(c) /\ Parts(c)

\* The upstream of a call that looked something up has it, and so has the
\* upstream whose answer is about to be remembered.
Known(c, rcvd) ==
  /\ c.method \in Looking /\ c.client # None =>
       IF c.method = "valid" THEN c.client \in Issuers[Head(c.subject)]
       ELSE Head(c.subject) \in rcvd[c.client]
  /\ c.pc = "put" => IF c.method = "send" THEN Head(c.subject) \in rcvd[c.client]
                     ELSE c.client \in Issuers[Head(c.subject)]

\* The caches hold what was told and not evicted, and only what is true.
CachesKnown ==
  /\ \A k \in told \ evicted :
       IF k \in Txns THEN transactions[k] # None ELSE blockhashes[k] # None
  /\ \A t \in Txns : transactions[t] # None => t \in received[transactions[t]]
  /\ \A h \in Hashes : blockhashes[h] # None => blockhashes[h] \in Issuers[h]

HttpInv ==
  /\ TypeOK
  /\ \A r \in Calls : CallInv(calls[r]) /\ Known(calls[r], received)
  /\ CachesKnown

-----------------------------------------------------------------------------
(* The values of a call                                                    *)

\* An element of a sequence.
LEMMA ElementOf ==
  ASSUME NEW S, NEW s \in Seq(S), NEW i \in DOMAIN s
  PROVE  s[i] \in S
OBVIOUS

\* The fields of a call.
LEMMA CallFields ==
  ASSUME NEW c \in Call
  PROVE  /\ c.pc \in {"idle", "resolve", "join", "lookup", "ask", "put",
                      "subscribed", "done"}
         /\ c.method \in Methods
         /\ c.pubkeys \in Seq(Accounts \cup {None})
         /\ c.answers \in Seq(Authority \cup {"pending"})
         /\ c.delegation \in Authority /\ c.client \in Upstreams \cup {None}
         /\ c.subject \in Seq(Txns \cup Hashes) /\ c.requests \in SUBSET Part
         /\ c.response \in Seq(UiAccount \cup {None})
         /\ c.reply \in Error \cup {"none", "ok", "empty"}
BY DEF Call

\* A call that ends keeps everything but its place.
LEMMA EndFields ==
  ASSUME NEW c \in Call, NEW reply \in Error \cup {"none", "ok", "empty"}
  PROVE  LET e == End(c, reply) IN
         /\ e \in Call /\ e.pc = "done" /\ e.reply = reply
         /\ e.method = c.method /\ e.pubkeys = c.pubkeys /\ e.answers = c.answers
         /\ e.delegation = c.delegation /\ e.client = c.client
         /\ e.subject = c.subject /\ e.requests = c.requests
         /\ e.response = c.response
BY DEF End, Call

\* So does a call that goes on to ask.
LEMMA AskFields ==
  ASSUME NEW c \in Call, NEW client \in Upstreams
  PROVE  LET e == Ask(c, client) IN
         /\ e \in Call /\ e.pc = "ask" /\ e.client = client
         /\ e.method = c.method /\ e.pubkeys = c.pubkeys /\ e.answers = c.answers
         /\ e.delegation = c.delegation /\ e.reply = c.reply
         /\ e.subject = c.subject /\ e.requests = c.requests
         /\ e.response = c.response
BY DEF Ask, Call

\* The locals of no call.
LEMMA NoCallFields ==
  /\ NoCall \in Call /\ NoCall.pc = "idle" /\ NoCall.method = "none"
  /\ NoCall.pubkeys = <<>> /\ NoCall.subject = <<>>
  /\ NoCall.answers = <<>> /\ NoCall.delegation = None
  /\ NoCall.client = None /\ NoCall.requests = {} /\ NoCall.response = <<>>
  /\ NoCall.reply = "none"
<1>1. /\ <<>> \in Seq(Accounts \cup {None}) /\ <<>> \in Seq(Authority \cup {"pending"})
      /\ <<>> \in Seq(Txns \cup Hashes) /\ <<>> \in Seq(UiAccount \cup {None})
      /\ None \in Authority /\ {} \in SUBSET Part
      /\ "none" \in Error \cup {"none", "ok", "empty"}
      /\ "none" \in Methods
  BY DEF Authority, Methods
<1>2. NoCall \in Call
  BY <1>1 DEF NoCall, Call
<1>3. QED
  BY <1>2 DEF NoCall

\* A new call, before it has asked anything.
Fresh(pc, method, pubkeys, subject) ==
  [NoCall EXCEPT !.pc = pc, !.method = method, !.pubkeys = pubkeys,
                 !.subject = subject]

\* What is received is not taken back, so what is known stays known.
LEMMA KnownGrows ==
  ASSUME NEW c \in Call, NEW a, NEW b, \A u \in Upstreams : a[u] \subseteq b[u],
         Stage(c), Known(c, a)
  PROVE  Known(c, b)
BY CallFields DEF Known, Stage

\* A call ends without a conflict: what held of it holds.
LEMMA EndInv ==
  ASSUME NEW c \in Call, CallInv(c), c.pc \notin {"idle", "done"},
         NEW reply \in Error \cup {"ok", "empty"}, reply # "ConflictingDelegations",
         c.method # "multiple" \/ reply # "ok"
  PROVE  /\ End(c, reply) \in Call /\ CallInv(End(c, reply))
         /\ \A rcvd : Known(c, rcvd) => Known(End(c, reply), rcvd)
<1> DEFINE e == End(c, reply)
<1>1. /\ e \in Call /\ e.pc = "done" /\ e.reply = reply
      /\ e.method = c.method /\ e.pubkeys = c.pubkeys /\ e.answers = c.answers
      /\ e.client = c.client /\ e.subject = c.subject /\ e.requests = c.requests
      /\ e.response = c.response
  BY EndFields
<1> HIDE DEF e
<1>2. Stage(e) /\ Subjects(e) /\ Resolved(e) /\ Parts(e)
  BY <1>1 DEF CallInv, Stage, Subjects, Resolved, Parts
<1>3. Positions(e)
  BY <1>1 DEF CallInv, Positions
<1>4. Routed(e)
  <2>1. Delegated(e) = Delegated(c)
    BY <1>1 DEF Delegated
  <2>2. c.reply = "none"
    BY DEF CallInv, Stage
  <2>3. QED
    BY <1>1, <2>1, <2>2 DEF CallInv, Routed
<1>5. \A rcvd : Known(c, rcvd) => Known(e, rcvd)
  BY <1>1 DEF Known
<1>6. QED
  BY <1>1, <1>2, <1>3, <1>4, <1>5 DEF CallInv, e

\* A new call satisfies the invariant, when it is at its place.
LEMMA FreshInv ==
  ASSUME NEW c \in Call, c.answers = <<>>, c.delegation = None, c.client = None,
         c.requests = {}, c.response = <<>>, c.reply = "none", Subjects(c),
         \/ c.pc = "idle" /\ c.method = "none"
         \/ c.pc = "resolve" /\ c.method \in Resolving
         \/ c.pc = "join" /\ c.method = "multiple" /\ c.pubkeys \in Seq(Accounts)
         \/ c.pc = "lookup" /\ c.method \in Looking
  PROVE  CallInv(c) /\ \A rcvd : Known(c, rcvd)
<1>1. Stage(c)
  BY DEF Stage, Resolving, Looking
<1>2. Delegated(c) = {}
  BY DEF Delegated, Range
<1>3. Resolved(c) /\ Routed(c)
  BY <1>2, HttpAssumption DEF Resolved, Routed, Upstreams
<1>4. Positions(c) /\ Parts(c)
  BY DEF Positions, Parts, Resolving, Looking
<1>5. \A rcvd : Known(c, rcvd)
  BY DEF Known
<1>6. QED
  BY <1>1, <1>3, <1>4, <1>5 DEF CallInv

-----------------------------------------------------------------------------
(* The steps                                                               *)

\* The invariant holds at the start.
LEMMA HttpInit == Init => HttpInv
<1> SUFFICES ASSUME Init PROVE HttpInv
  OBVIOUS
<1>1. Len(BaseChain) \in Nat \ {0}
  BY HttpAssumption
<1>2. TypeOK
  <2>1. 1 \in 1 .. Len(BaseChain)
    BY <1>1
  <2>2. calls \in [Calls -> Call]
    BY NoCallFields DEF Init
  <2>3. left \in [Bounds -> Nat]
    BY HttpAssumption DEF Init
  <2>4. QED
    BY <2>1, <2>2, <2>3 DEF Init, TypeOK
<1>3. CallInv(NoCall) /\ \A rcvd : Known(NoCall, rcvd)
  <2>1. Subjects(NoCall)
    BY NoCallFields DEF Subjects
  <2>2. QED
    BY <2>1, NoCallFields, FreshInv
<1>4. \A r \in Calls : CallInv(calls[r]) /\ Known(calls[r], received)
  BY <1>3 DEF Init
<1>5. CachesKnown
  BY DEF Init, CachesKnown
<1>6. QED
  BY <1>2, <1>4, <1>5 DEF HttpInv

\* One call goes on and remembers nothing.
LEMMA CallStep ==
  ASSUME HttpInv, NEW r \in Calls, NEW n \in Call, Set(r, n), CallInv(n),
         Known(n, received'), UNCHANGED <<authority, inner, caches, told>>,
         next' \in 1 .. Len(BaseChain), left' \in [Bounds -> Nat],
         received' \in [Upstreams -> SUBSET Txns],
         \A u \in Upstreams : received[u] \subseteq received'[u]
  PROVE  HttpInv'
<1>1. /\ calls' \in [Calls -> Call] /\ calls'[r] = n
      /\ \A q \in Calls \ {r} : calls'[q] = calls[q]
  BY DEF HttpInv, TypeOK, Set
<1>2. TypeOK'
  BY <1>1 DEF HttpInv, TypeOK, caches
<1>3. \A q \in Calls : CallInv(calls'[q]) /\ Known(calls'[q], received')
  <2> TAKE q \in Calls
  <2>1. CASE q = r
    BY <1>1, <2>1
  <2>2. CASE q # r
    <3>1. calls[q] \in Call /\ CallInv(calls[q]) /\ Known(calls[q], received)
      BY DEF HttpInv, TypeOK
    <3>2. Known(calls[q], received')
      BY <3>1, KnownGrows DEF CallInv
    <3>3. QED
      BY <1>1, <2>2, <3>1, <3>2
  <2>3. QED
    BY <2>1, <2>2
<1>4. CachesKnown'
  <2>1. \A t \in Txns : transactions[t] # None => transactions[t] \in Upstreams
    BY DEF HttpInv, TypeOK
  <2>2. QED
    BY <2>1 DEF HttpInv, CachesKnown, caches
<1>5. QED
  BY <1>2, <1>3, <1>4 DEF HttpInv

\* In particular when it only works on its locals.
LEMMA LocalStep ==
  ASSUME HttpInv, NEW r \in Calls, NEW n \in Call, Set(r, n), CallInv(n),
         Known(n, received),
         UNCHANGED <<authority, inner, caches, received, told, left>>,
         next' \in 1 .. Len(BaseChain)
  PROVE  HttpInv'
<1>1. /\ left' \in [Bounds -> Nat] /\ received' \in [Upstreams -> SUBSET Txns]
      /\ \A u \in Upstreams : received[u] \subseteq received'[u]
      /\ Known(n, received')
  BY DEF HttpInv, TypeOK
<1>2. QED
  BY <1>1, CallStep DEF caches

\* A bound that is spent.
LEMMA SpendType ==
  ASSUME left \in [Bounds -> Nat], NEW b \in Bounds, Spend(b)
  PROVE  left' \in [Bounds -> Nat]
BY DEF Spend

\* The round robin stays within the upstreams of the base chain.
LEMMA RoundRobin ==
  ASSUME TypeOK, NEW u, base_chain(u)
  PROVE  u \in Range(BaseChain) /\ next' \in 1 .. Len(BaseChain)
<1>1. BaseChain \in Seq(Upstreams) /\ Len(BaseChain) \in Nat \ {0}
  BY HttpAssumption
<1>2. next \in 1 .. Len(BaseChain)
  BY DEF TypeOK
<1>3. u \in Range(BaseChain)
  BY <1>1, <1>2 DEF base_chain, Range
<1>4. (next % Len(BaseChain)) \in 0 .. Len(BaseChain) - 1
  BY <1>1, <1>2
<1>5. QED
  BY <1>1, <1>3, <1>4 DEF base_chain

\* A method starts.
LEMMA HttpBegin ==
  ASSUME HttpInv, NEW r \in Calls, NEW pc \in {"resolve", "join", "lookup"},
         NEW method \in Methods, NEW pubkeys \in Seq(Accounts \cup {None}),
         NEW subject \in Seq(Txns \cup Hashes), Begin(r, pc, method, pubkeys, subject),
         \/ pc = "resolve" /\ method \in Resolving
         \/ pc = "join" /\ method = "multiple" /\ pubkeys \in Seq(Accounts)
         \/ pc = "lookup" /\ method \in Looking,
         method = "send" \/ method = "subscribe" => \E t \in Txns : subject = <<t>>,
         method = "valid" => \E h \in Hashes : subject = <<h>>,
         method = "signatures" => subject \in Seq(Txns)
  PROVE  HttpInv'
<1>1. pc \in {"idle", "resolve", "join", "lookup"} /\ pc # "put"
  OBVIOUS
<1> DEFINE n == Fresh(pc, method, pubkeys, subject)
<1>2. /\ n \in Call
      /\ n.pc = pc /\ n.method = method /\ n.pubkeys = pubkeys
      /\ n.subject = subject /\ n.answers = <<>> /\ n.delegation = None
      /\ n.client = None /\ n.requests = {} /\ n.response = <<>> /\ n.reply = "none"
  BY <1>1, NoCallFields DEF Fresh, Call
<1> HIDE DEF n
<1>3. Subjects(n)
  BY <1>1, <1>2 DEF Subjects
<1>4. CallInv(n) /\ \A rcvd : Known(n, rcvd)
  BY <1>2, <1>3, FreshInv
<1>5. /\ Set(r, n) /\ Spend("calls")
      /\ UNCHANGED <<authority, inner, next, caches, received, told>>
  BY DEF Begin, Fresh, n
<1>6. /\ left' \in [Bounds -> Nat] /\ next' \in 1 .. Len(BaseChain)
      /\ received' \in [Upstreams -> SUBSET Txns]
      /\ \A u \in Upstreams : received[u] \subseteq received'[u]
  BY <1>5, SpendType DEF HttpInv, TypeOK, Bounds
<1>7. QED
  BY <1>2, <1>4, <1>5, <1>6, CallStep

\* The locals of a call that has a method and nothing else.
Named(method) == [NoCall EXCEPT !.method = method]

\* Its fields.
LEMMA NamedFields ==
  ASSUME NEW method \in Methods
  PROVE  LET c == Named(method) IN
         /\ c \in Call /\ c.pc = "idle" /\ c.method = method /\ c.answers = <<>>
         /\ c.client = None /\ c.requests = {} /\ c.response = <<>>
         /\ c.subject = <<>> /\ c.reply = "none"
BY NoCallFields DEF Named, Call

\* A call that goes to the closest node.
LEMMA HttpClosest ==
  ASSUME HttpInv, NEW r \in Calls, NEW u \in Upstreams,
         latest_blockhash(r, u) \/ identity(r, u)
  PROVE  HttpInv'
<1>1. PICK method \in {"latest", "identity"} :
        /\ method = "latest" => latest_blockhash(r, u)
        /\ method = "identity" => identity(r, u)
  BY Zenon
<1>2. PICK c \in Call : /\ c = Named(method) /\ c.pc = "idle" /\ c.method = method
                        /\ c.answers = <<>> /\ c.client = None /\ c.requests = {}
                        /\ c.response = <<>> /\ c.reply = "none"
  <2>1. method \in Methods
    BY DEF Methods
  <2>2. QED
    BY <2>1, NamedFields
<1>3. ASSUME NEW n \in Call, n.pc \in {"ask", "done"}, n.method = method,
             n.pc = "ask" => n.client # None /\ n.reply = "none",
             n.answers = <<>>, n.requests = {}, n.response = <<>>
      PROVE  CallInv(n) /\ \A rcvd : Known(n, rcvd)
  <2>1. Stage(n) /\ Subjects(n) /\ Resolved(n) /\ Routed(n)
    BY <1>3 DEF Stage, Subjects, Resolved, Routed
  <2>2. Positions(n) /\ Parts(n) /\ \A rcvd : Known(n, rcvd)
    BY <1>3 DEF Positions, Parts, Known, Looking
  <2>3. QED
    BY <2>1, <2>2 DEF CallInv
<1>4. PICK n \in Call : Set(r, n) /\ CallInv(n) /\ \A rcvd : Known(n, rcvd)
  <2>1. u # None
    BY HttpAssumption
  <2>2. ASSUME NEW reply \in {"UnknownErNode", "ok"}
        PROVE  /\ End(c, reply) \in Call /\ CallInv(End(c, reply))
               /\ \A rcvd : Known(End(c, reply), rcvd)
    <3> DEFINE e == End(c, reply)
    <3>1. /\ e \in Call /\ e.pc = "done" /\ e.method = method /\ e.answers = <<>>
          /\ e.requests = {} /\ e.response = <<>>
      BY <1>2, EndFields DEF Error
    <3> HIDE DEF e
    <3>2. QED
      BY <1>3, <3>1 DEF e
  <2>3. /\ Ask(c, u) \in Call /\ CallInv(Ask(c, u))
        /\ \A rcvd : Known(Ask(c, u), rcvd)
    <3> DEFINE e == Ask(c, u)
    <3>1. /\ e \in Call /\ e.pc = "ask" /\ e.method = method /\ e.answers = <<>>
          /\ e.requests = {} /\ e.response = <<>> /\ e.client = u /\ e.reply = "none"
      BY <1>2, AskFields
    <3> HIDE DEF e
    <3>2. QED
      BY <1>3, <2>1, <3>1 DEF e
  <2>4. Ask(c, u).method = method /\ End(c, "ok").method = method
    <3>1. "ok" \in Error \cup {"none", "ok", "empty"}
      OBVIOUS
    <3>2. QED
      BY <1>2, <3>1, AskFields, EndFields
  <2>5. \/ Set(r, End(Named(Ask(c, u).method), "UnknownErNode"))
        \/ Set(r, End(Named(End(c, "ok").method), "UnknownErNode"))
        \/ Set(r, End(c, "ok")) \/ Set(r, Ask(c, u))
    <3>1. CASE latest_blockhash(r, u) /\ method = "latest"
      BY <1>2, <3>1, Zenon DEF latest_blockhash, Closest, Named
    <3>2. CASE identity(r, u) /\ method = "identity"
      BY <1>2, <3>2, Zenon DEF identity, Closest, Named
    <3>3. QED
      BY <1>1, <3>1, <3>2
  <2>6. \/ Set(r, End(c, "UnknownErNode")) \/ Set(r, End(c, "ok")) \/ Set(r, Ask(c, u))
    BY <1>2, <2>4, <2>5
  <2>7. QED
    BY <2>2, <2>3, <2>6
<1>5. /\ Spend("calls") /\ closest_node(u)
      /\ UNCHANGED <<authority, inner, caches, received, told>>
  BY DEF latest_blockhash, identity, Closest
<1>6. /\ left' \in [Bounds -> Nat]
      /\ received' \in [Upstreams -> SUBSET Txns]
      /\ \A w \in Upstreams : received[w] \subseteq received'[w]
  BY <1>5, SpendType DEF HttpInv, TypeOK, Bounds
<1>7. next' \in 1 .. Len(BaseChain)
  <2>1. TypeOK
    BY DEF HttpInv
  <2>2. CASE UNCHANGED next
    BY <2>1, <2>2 DEF TypeOK
  <2>3. ASSUME NEW base \in Range(BaseChain), base_chain(base)
        PROVE  next' \in 1 .. Len(BaseChain)
    BY <2>1, <2>3, RoundRobin
  <2>4. QED
    BY <1>5, <2>2, <2>3 DEF closest_node
<1>8. QED
  BY <1>4, <1>5, <1>6, <1>7, CallStep

\* Every method starts in a state of the invariant.
LEMMA HttpStart ==
  ASSUME HttpInv, NEW r \in Calls, Start(r)
  PROVE  HttpInv'
<1>1. ASSUME NEW pk \in Accounts, account_info(r, pk) \/ delegation_status(r, pk)
      PROVE  HttpInv'
  <2>1. <<pk>> \in Seq(Accounts \cup {None}) /\ <<>> \in Seq(Txns \cup Hashes)
    OBVIOUS
  <2>2. PICK m \in {"account", "status"} : Begin(r, "resolve", m, <<pk>>, <<>>)
    BY <1>1 DEF account_info, delegation_status
  <2>3. QED
    BY <2>1, <2>2, HttpBegin DEF Resolving, Methods
<1>2. ASSUME NEW pks \in PubkeyLists,
             multiple_accounts(r, pks) \/ blockhash_for_accounts(r, pks)
      PROVE  HttpInv'
  <2>1. /\ pks \in Seq(Accounts) /\ pks \in Seq(Accounts \cup {None})
        /\ <<>> \in Seq(Txns \cup Hashes)
    BY HttpAssumption
  <2>2. CASE multiple_accounts(r, pks)
    BY <2>1, <2>2, HttpBegin DEF multiple_accounts, Methods
  <2>3. CASE blockhash_for_accounts(r, pks)
    BY <2>1, <2>3, HttpBegin DEF blockhash_for_accounts, Resolving, Methods
  <2>4. QED
    BY <1>2, <2>2, <2>3
<1>3. ASSUME NEW t \in Txns, send_transaction(r, t) \/ signature_subscribe(r, t)
      PROVE  HttpInv'
  <2>1. /\ <<t>> \in Seq(Txns \cup Hashes) /\ <<>> \in Seq(Accounts \cup {None})
        /\ \E x \in Txns : <<t>> = <<x>>
        /\ "send" \in Methods /\ "subscribe" \in Methods
    BY DEF Methods
  <2>2. CASE send_transaction(r, t)
    <3>1. PICK keys \in Seq([pk : Accounts, writable : BOOLEAN]) :
            keys = static_account_keys[t]
      BY HttpAssumption
    <3>2. PICK pks : pks = [i \in DOMAIN keys |->
                              IF keys[i].writable THEN keys[i].pk ELSE None]
      OBVIOUS
    <3>3. pks \in Seq(Accounts \cup {None})
      <4>1. Len(keys) \in Nat /\ DOMAIN keys = 1 .. Len(keys)
        OBVIOUS
      <4>2. \A i \in DOMAIN keys : keys[i].pk \in Accounts
        <5> TAKE i \in DOMAIN keys
        <5>1. keys[i] \in [pk : Accounts, writable : BOOLEAN]
          BY ElementOf, Zenon
        <5>2. QED
          BY <5>1
      <4>3. pks \in [1 .. Len(keys) -> Accounts \cup {None}]
        BY <3>2, <4>1, <4>2
      <4>4. QED
        BY <4>1, <4>3
    <3>4. Begin(r, "resolve", "send", pks, <<t>>)
      BY <2>2, <3>1, <3>2 DEF send_transaction
    <3>5. QED
      BY <2>1, <3>3, <3>4, HttpBegin DEF Resolving, Methods
  <2>3. CASE signature_subscribe(r, t)
    <3>1. Begin(r, "lookup", "subscribe", <<>>, <<t>>)
      BY <2>3 DEF signature_subscribe
    <3>2. QED
      BY <2>1, <3>1, HttpBegin DEF Looking, Methods
  <2>4. QED
    BY <1>3, <2>2, <2>3
<1>4. ASSUME NEW sigs \in SignatureLists, signature_statuses(r, sigs)
      PROVE  HttpInv'
  <2>1. /\ sigs \in Seq(Txns) /\ sigs \in Seq(Txns \cup Hashes)
        /\ <<>> \in Seq(Accounts \cup {None})
    BY HttpAssumption
  <2>2. QED
    BY <1>4, <2>1, HttpBegin DEF signature_statuses, Looking, Methods
<1>5. ASSUME NEW h \in Hashes, is_blockhash_valid(r, h)
      PROVE  HttpInv'
  <2>1. <<h>> \in Seq(Txns \cup Hashes) /\ <<>> \in Seq(Accounts \cup {None})
    OBVIOUS
  <2>2. QED
    BY <1>5, <2>1, HttpBegin DEF is_blockhash_valid, Looking, Methods
<1>6. QED
  BY <1>1, <1>2, <1>3, <1>4, <1>5, HttpClosest DEF Start

-----------------------------------------------------------------------------
(* One account after the other                                             *)

\* A call that has resolved its accounts, or found its subject, asks.
LEMMA AskInv ==
  ASSUME NEW c \in Call, CallInv(c), c.pc \in {"resolve", "lookup"},
         NEW u \in Upstreams,
         c.pc = "resolve" => Delegated(c) = {u} \ Range(BaseChain)
  PROVE  /\ Ask(c, u) \in Call /\ CallInv(Ask(c, u))
         /\ Ask(c, u).method = c.method /\ Ask(c, u).client = u
         /\ Ask(c, u).subject = c.subject /\ Ask(c, u).pc = "ask"
<1> DEFINE e == Ask(c, u)
<1>1. /\ e \in Call /\ e.pc = "ask" /\ e.client = u
      /\ e.method = c.method /\ e.pubkeys = c.pubkeys /\ e.answers = c.answers
      /\ e.reply = c.reply /\ e.subject = c.subject /\ e.requests = c.requests
      /\ e.response = c.response
  BY AskFields
<1> HIDE DEF e
<1>2. c.reply = "none" /\ c.method # "multiple" /\ u # None
  BY HttpAssumption DEF CallInv, Stage, Resolving, Looking
<1>3. Stage(e) /\ Subjects(e) /\ Resolved(e) /\ Parts(e)
  BY <1>1, <1>2 DEF CallInv, Stage, Subjects, Resolved, Parts
<1>4. Positions(e)
  BY <1>1, <1>2 DEF CallInv, Positions
<1>5. Routed(e)
  <2>1. Delegated(e) = Delegated(c)
    BY <1>1 DEF Delegated
  <2>2. CASE c.pc = "lookup"
    BY <1>1, <2>2 DEF CallInv, Stage, Looking, Routed
  <2>3. CASE c.pc = "resolve"
    <3>1. Delegated(e) = {u} \ Range(BaseChain)
      BY <2>1, <2>3
    <3>2. Ers \cap Range(BaseChain) = {}
      BY HttpAssumption
    <3>3. QED
      BY <1>1, <1>2, <3>1, <3>2 DEF Routed
  <2>4. QED
    BY <2>2, <2>3
<1>6. QED
  BY <1>1, <1>3, <1>4, <1>5 DEF CallInv, e

\* What a sequence holds when an element is added.
LEMMA AppendRange ==
  ASSUME NEW S, NEW s \in Seq(S), NEW v \in S
  PROVE  Range(Append(s, v)) = Range(s) \cup {v}
<1>1. /\ Len(s) \in Nat /\ DOMAIN s = 1 .. Len(s)
      /\ DOMAIN Append(s, v) = 1 .. Len(s) + 1
      /\ \A i \in 1 .. Len(s) : Append(s, v)[i] = s[i]
      /\ Append(s, v)[Len(s) + 1] = v
  OBVIOUS
<1> DEFINE t == Append(s, v)
<1>2. \A i : i \in 1 .. Len(s) + 1 <=> i \in 1 .. Len(s) \/ i = Len(s) + 1
  BY <1>1
<1>3. Range(t) \subseteq Range(s) \cup {v}
  BY <1>1, <1>2, Zenon DEF Range
<1>4. Range(s) \cup {v} \subseteq Range(t)
  BY <1>1, <1>2, Zenon DEF Range
<1>5. QED
  BY <1>3, <1>4

\* A call with one more answer.
Asked(c, v) == [c EXCEPT !.answers = Append(@, v),
                         !.delegation = IF v = None THEN @ ELSE v]

\* Its fields.
LEMMA AskedFields ==
  ASSUME NEW c \in Call, NEW v \in Authority
  PROVE  LET e == Asked(c, v) IN
         /\ e \in Call /\ e.pc = c.pc /\ e.reply = c.reply
         /\ e.method = c.method /\ e.pubkeys = c.pubkeys
         /\ e.answers = Append(c.answers, v)
         /\ e.delegation = IF v = None THEN c.delegation ELSE v
         /\ e.client = c.client /\ e.subject = c.subject
         /\ e.requests = c.requests /\ e.response = c.response
<1>1. Append(c.answers, v) \in Seq(Authority \cup {"pending"})
  BY CallFields
<1>2. QED
  BY <1>1 DEF Asked, Call

\* An account is resolved: the node it is delegated to joins the answers, and
\* the call ends when that makes two.
LEMMA HttpResolve ==
  ASSUME HttpInv, NEW r \in Calls, Resolve(r)
  PROVE  HttpInv'
<1>1. PICK c \in Call : /\ c = calls[r] /\ CallInv(c) /\ Known(c, received)
                        /\ c.pc = "resolve" /\ ~ Answered(c)
  BY DEF HttpInv, TypeOK, Resolve
<1>2. Validator(c) \in Authority
  <2>1. /\ c.answers \in Seq(Authority \cup {"pending"})
        /\ c.pubkeys \in Seq(Accounts \cup {None})
        /\ Len(c.answers) <= Len(c.pubkeys) /\ Len(c.answers) # Len(c.pubkeys)
    BY <1>1, CallFields DEF CallInv, Resolved, Answered
  <2>2. c.pubkeys[Len(c.answers) + 1] \in Accounts \cup {None}
    BY <2>1
  <2>3. authority \in [Accounts -> Authority] /\ None \in Authority
    BY DEF HttpInv, TypeOK, Authority
  <2>4. QED
    BY <2>2, <2>3 DEF Validator
<1>3. PICK v \in Authority : v = Validator(c)
  BY <1>2
<1> DEFINE n == Asked(c, v)
<1>4. /\ n \in Call /\ n.pc = "resolve" /\ n.reply = "none"
      /\ n.method = c.method /\ n.pubkeys = c.pubkeys
      /\ n.answers = Append(c.answers, v)
      /\ n.delegation = IF v = None THEN c.delegation ELSE v
      /\ n.client = None /\ n.subject = c.subject
      /\ n.requests = {} /\ n.response = <<>> /\ n.method \in Resolving
  BY <1>1, AskedFields DEF CallInv, Stage, Resolving
<1>5. /\ Set(r, IF v # None /\ c.delegation \notin {None, v}
                   THEN End(n, "ConflictingDelegations") ELSE n)
      /\ UNCHANGED <<authority, inner, next, caches, received, told, left>>
  BY <1>1, <1>3 DEF Resolve, Asked
<1> HIDE DEF n
<1>6. Delegated(n) = Delegated(c) \cup ({v} \ {None})
  <2>1. v \in Authority \cup {"pending"} /\ v # "pending"
    BY HttpAssumption
  <2>2. Range(n.answers) = Range(c.answers) \cup {v}
    BY <1>4, <2>1, CallFields, AppendRange
  <2>3. QED
    BY <2>1, <2>2 DEF Delegated
<1>7. Delegated(c) = {c.delegation} \ {None}
  BY <1>1 DEF CallInv, Resolved
<1>8. Subjects(n) /\ \A rcvd : Known(n, rcvd)
  BY <1>1, <1>4 DEF CallInv, Subjects, Known, Resolving, Looking
<1>9. CASE v # None /\ c.delegation \notin {None, v}
  <2> DEFINE e == End(n, "ConflictingDelegations")
  <2>1. /\ e \in Call /\ e.pc = "done" /\ e.reply = "ConflictingDelegations"
        /\ e.method = c.method /\ e.answers = n.answers /\ e.client = None
        /\ e.subject = c.subject /\ e.requests = {} /\ e.response = <<>>
    BY <1>4, EndFields DEF Error
  <2> HIDE DEF e
  <2>2. Stage(e) /\ Subjects(e) /\ Resolved(e) /\ Parts(e)
    BY <1>4, <1>8, <2>1 DEF Stage, Subjects, Resolved, Parts, Resolving
  <2>3. Positions(e) /\ \A rcvd : Known(e, rcvd)
    BY <1>4, <2>1 DEF Positions, Known, Resolving, Looking
  <2>4. Routed(e)
    <3>1. Delegated(e) = {c.delegation, v}
      BY <1>6, <1>7, <1>9, <2>1 DEF Delegated
    <3>2. None \notin Ers /\ None \notin Range(BaseChain)
      BY HttpAssumption DEF Upstreams
    <3>3. QED
      BY <1>9, <2>1, <3>1, <3>2 DEF Routed
  <2>5. QED
    <3>1. CallInv(e)
      BY <2>2, <2>3, <2>4 DEF CallInv
    <3>2. Set(r, e)
      BY <1>5, <1>9 DEF e
    <3>3. next' \in 1 .. Len(BaseChain)
      BY <1>5 DEF HttpInv, TypeOK
    <3>4. QED
      BY <1>5, <2>1, <2>3, <3>1, <3>2, <3>3, LocalStep
<1>10. CASE ~ (v # None /\ c.delegation \notin {None, v})
  <2>1. Stage(n) /\ Positions(n) /\ Parts(n)
    BY <1>4 DEF Stage, Positions, Parts, Resolving
  <2>2. Delegated(n) = {n.delegation} \ {None}
    BY <1>4, <1>6, <1>7, <1>10
  <2>3. Resolved(n)
    <3>1. Len(n.answers) <= Len(n.pubkeys)
      <4>1. /\ c.answers \in Seq(Authority \cup {"pending"})
            /\ c.pubkeys \in Seq(Accounts \cup {None})
            /\ Len(c.answers) <= Len(c.pubkeys) /\ Len(c.answers) # Len(c.pubkeys)
        BY <1>1, CallFields DEF CallInv, Resolved, Answered
      <4>2. Len(n.answers) = Len(c.answers) + 1
        BY <1>4, <4>1
      <4>3. Len(c.answers) \in Nat /\ Len(c.pubkeys) \in Nat
        BY <4>1
      <4>4. QED
        BY <1>4, <4>1, <4>2, <4>3
    <3>2. QED
      BY <2>2, <3>1 DEF Resolved
  <2>4. Routed(n)
    <3>1. None \notin Ers /\ None \notin Range(BaseChain)
      BY HttpAssumption DEF Upstreams
    <3>2. QED
      BY <1>4, <2>2, <3>1 DEF Routed
  <2>5. QED
    <3>1. CallInv(n)
      BY <1>8, <2>1, <2>3, <2>4 DEF CallInv
    <3>2. Set(r, n)
      BY <1>5, <1>10
    <3>3. next' \in 1 .. Len(BaseChain)
      BY <1>5 DEF HttpInv, TypeOK
    <3>4. QED
      BY <1>4, <1>5, <1>8, <3>1, <3>2, <3>3, LocalStep
<1>11. QED
  BY <1>9, <1>10

\* A call that only ends, without a conflict and without the answer of
\* multiple_accounts.
LEMMA HttpEnds ==
  ASSUME HttpInv, NEW r \in Calls, NEW reply \in Error \cup {"ok", "empty"},
         calls[r].pc \notin {"idle", "done"}, reply # "ConflictingDelegations",
         calls[r].method # "multiple" \/ reply # "ok", Set(r, End(calls[r], reply)),
         UNCHANGED <<authority, inner, next, caches, received, told, left>>
  PROVE  HttpInv'
<1>1. calls[r] \in Call /\ CallInv(calls[r]) /\ Known(calls[r], received)
  BY DEF HttpInv, TypeOK
<1>2. /\ End(calls[r], reply) \in Call /\ CallInv(End(calls[r], reply))
      /\ Known(End(calls[r], reply), received)
  BY <1>1, EndInv
<1>3. next' \in 1 .. Len(BaseChain)
  BY DEF HttpInv, TypeOK
<1>4. QED
  BY <1>2, <1>3, LocalStep

\* The upstream of a call is chosen: the node of its accounts if it is routed,
\* the base chain if none is delegated.
LEMMA HttpRoute ==
  ASSUME HttpInv, NEW r \in Calls, Route(r)
  PROVE  HttpInv'
<1>1. PICK c \in Call : /\ c = calls[r] /\ CallInv(c) /\ Known(c, received)
                        /\ c.pc = "resolve" /\ c.method # "multiple"
                        /\ c.method \notin Looking
  BY DEF HttpInv, TypeOK, Route, CallInv, Stage, Resolving, Looking
<1>2. UNCHANGED <<authority, inner, caches, received, told, left>>
  BY DEF Route
<1>3. Delegated(c) = {c.delegation} \ {None} /\ c.delegation \in Authority
  BY <1>1, CallFields DEF CallInv, Resolved
<1>4. ASSUME NEW u \in Upstreams, Set(r, Ask(c, u)), next' \in 1 .. Len(BaseChain),
             Delegated(c) = {u} \ Range(BaseChain)
      PROVE  HttpInv'
  <2>1. /\ Ask(c, u) \in Call /\ CallInv(Ask(c, u)) /\ Ask(c, u).pc = "ask"
        /\ Ask(c, u).method = c.method
    BY <1>1, <1>4, AskInv
  <2>2. Known(Ask(c, u), received)
    BY <1>1, <2>1 DEF Known
  <2>3. QED
    BY <1>2, <1>4, <2>1, <2>2, LocalStep
<1>5. ASSUME NEW reply \in {"UnknownErNode", "ok"}, Set(r, End(c, reply)),
             UNCHANGED next
      PROVE  HttpInv'
  BY <1>1, <1>2, <1>5, HttpEnds DEF Error
<1>6. CASE c.delegation # None
  <2>1. UNCHANGED next /\ next' \in 1 .. Len(BaseChain)
    BY <1>1, <1>6 DEF Route, HttpInv, TypeOK
  <2>2. \/ Set(r, End(c, "UnknownErNode")) \/ Set(r, End(c, "ok"))
        \/ Set(r, Ask(c, c.delegation))
    BY <1>1, <1>6, Zenon DEF Route
  <2>3. /\ c.delegation \in Upstreams
        /\ Delegated(c) = {c.delegation} \ Range(BaseChain)
    BY <1>3, <1>6, HttpAssumption DEF Authority, Upstreams
  <2>4. QED
    BY <1>4, <1>5, <2>1, <2>2, <2>3
<1>7. CASE c.delegation = None
  <2>1. \/ Set(r, End(c, "ok")) /\ UNCHANGED next
        \/ \E u \in Range(BaseChain) : base_chain(u) /\ Set(r, Ask(c, u))
    BY <1>1, <1>7, Zenon DEF Route
  <2>2. ASSUME NEW u \in Range(BaseChain), base_chain(u), Set(r, Ask(c, u))
        PROVE  HttpInv'
    <3>1. u \in Upstreams /\ Delegated(c) = {u} \ Range(BaseChain)
      BY <1>3, <1>7 DEF Upstreams
    <3>2. next' \in 1 .. Len(BaseChain)
      BY <2>2, RoundRobin DEF HttpInv
    <3>3. QED
      BY <1>4, <2>2, <3>1, <3>2
  <2>3. QED
    BY <1>5, <2>1, <2>2
<1>8. QED
  BY <1>6, <1>7

-----------------------------------------------------------------------------
(* What is remembered of earlier calls, and the answers of the upstreams   *)

\* The first element of a list.
LEMMA HeadOf ==
  ASSUME NEW S, NEW s \in Seq(S), s # <<>>
  PROVE  Head(s) \in S
OBVIOUS

\* The upstream that is remembered is asked, and it has what it is asked for.
LEMMA HttpLookup ==
  ASSUME HttpInv, NEW r \in Calls, Lookup(r)
  PROVE  HttpInv'
<1>1. PICK c \in Call : /\ c = calls[r] /\ CallInv(c) /\ Known(c, received)
                        /\ c.pc = "lookup" /\ c.method \in Looking
                        /\ c.method # "multiple"
  BY DEF HttpInv, TypeOK, Lookup, CallInv, Stage, Looking
<1>2. UNCHANGED <<authority, inner, next, caches, received, told, left>>
  BY DEF Lookup
<1>3. PICK known : known = IF c.method = "valid" THEN blockhashes ELSE transactions
  OBVIOUS
<1>4. \/ Set(r, End(c, "empty")) \/ Set(r, End(c, "UnknownTransaction"))
      \/ /\ c.subject # <<>> /\ known[Head(c.subject)] # None
         /\ Set(r, Ask(c, known[Head(c.subject)]))
  BY <1>1, <1>3, Zenon DEF Lookup
<1>5. ASSUME NEW reply \in {"empty", "UnknownTransaction"}, Set(r, End(c, reply))
      PROVE  HttpInv'
  BY <1>1, <1>2, <1>5, HttpEnds DEF Error
<1>6. ASSUME c.subject # <<>>, known[Head(c.subject)] # None,
             Set(r, Ask(c, known[Head(c.subject)]))
      PROVE  HttpInv'
  <2>1. PICK key, u : key = Head(c.subject) /\ u = known[key]
    OBVIOUS
  <2>2. /\ c.method = "valid" => key \in Hashes
        /\ c.method # "valid" => key \in Txns
    <3>1. CASE c.method = "valid"
      BY <1>1, <2>1, <3>1 DEF CallInv, Subjects
    <3>2. CASE c.method = "subscribe"
      BY <1>1, <2>1, <3>2 DEF CallInv, Subjects
    <3>3. CASE c.method = "signatures"
      <4>1. c.subject \in Seq(Txns)
        BY <1>1, <3>3 DEF CallInv, Subjects
      <4>2. QED
        BY <1>6, <2>1, <3>3, <4>1, HeadOf
    <3>4. QED
      BY <1>1, <3>1, <3>2, <3>3 DEF Looking
  <2>3. /\ u \in Upstreams
        /\ IF c.method = "valid" THEN u \in Issuers[key] ELSE key \in received[u]
    BY <1>3, <1>6, <2>1, <2>2 DEF HttpInv, TypeOK, CachesKnown
  <2>4. /\ Ask(c, u) \in Call /\ CallInv(Ask(c, u)) /\ Ask(c, u).pc = "ask"
        /\ Ask(c, u).method = c.method /\ Ask(c, u).client = u
        /\ Ask(c, u).subject = c.subject
    BY <1>1, <2>3, AskInv
  <2>5. Known(Ask(c, u), received)
    BY <2>1, <2>3, <2>4 DEF Known
  <2>6. next' \in 1 .. Len(BaseChain) /\ Set(r, Ask(c, u))
    BY <1>2, <1>6, <2>1 DEF HttpInv, TypeOK
  <2>7. QED
    BY <1>2, <2>4, <2>5, <2>6, LocalStep
<1>7. QED
  BY <1>4, <1>5, <1>6

\* A call that has its answer, with what it is about, keeps the invariant.
LEMMA MovedInv ==
  ASSUME NEW c \in Call, CallInv(c), c.pc = "ask", NEW e \in Call,
         e.reply = c.reply, e.method = c.method, e.pubkeys = c.pubkeys,
         e.answers = c.answers, e.client = c.client, e.requests = c.requests,
         e.response = c.response,
         \/ e.pc = "subscribed" /\ c.method = "subscribe" /\ e.subject = c.subject
         \/ e.pc = "put" /\ c.method = "send" /\ e.subject = c.subject
         \/ /\ e.pc = "put" /\ c.method \in {"blockhash", "latest"}
            /\ \E h \in Hashes : e.subject = <<h>>
  PROVE  CallInv(e)
<1>1. c.method # "multiple" /\ c.reply = "none"
  BY DEF CallInv, Stage
<1>2. Stage(e) /\ Resolved(e) /\ Parts(e)
  BY <1>1 DEF CallInv, Stage, Resolved, Parts
<1>3. Subjects(e)
  BY DEF CallInv, Subjects
<1>4. Positions(e)
  BY <1>1 DEF CallInv, Positions
<1>5. Routed(e)
  <2>1. Delegated(e) = Delegated(c)
    BY DEF Delegated
  <2>2. QED
    BY <2>1 DEF CallInv, Routed
<1>6. QED
  BY <1>2, <1>3, <1>4, <1>5 DEF CallInv

\* A call at another place, and a call with the blockhash it was given.
At(c, pc) == [c EXCEPT !.pc = pc]
Hashed(c, h) == [c EXCEPT !.pc = "put", !.subject = <<h>>]

\* A transaction that was sent, and a subscription that was confirmed.
LEMMA AtInv ==
  ASSUME NEW c \in Call, CallInv(c), c.pc = "ask", NEW pc \in {"put", "subscribed"},
         \/ pc = "subscribed" /\ c.method = "subscribe"
         \/ pc = "put" /\ c.method = "send"
  PROVE  /\ At(c, pc) \in Call /\ CallInv(At(c, pc)) /\ At(c, pc).pc = pc
         /\ At(c, pc).method = c.method /\ At(c, pc).client = c.client
         /\ At(c, pc).subject = c.subject
<1> DEFINE e == At(c, pc)
<1>1. /\ e \in Call /\ e.pc = pc /\ e.reply = c.reply /\ e.method = c.method
      /\ e.pubkeys = c.pubkeys /\ e.answers = c.answers /\ e.client = c.client
      /\ e.subject = c.subject /\ e.requests = c.requests /\ e.response = c.response
  BY DEF At, Call
<1> HIDE DEF e
<1>2. CallInv(e)
  BY <1>1, MovedInv
<1>3. QED
  BY <1>1, <1>2 DEF e

\* A blockhash that was answered.
LEMMA HashedInv ==
  ASSUME NEW c \in Call, CallInv(c), c.pc = "ask", NEW h \in Hashes,
         c.method \in {"blockhash", "latest"}
  PROVE  /\ Hashed(c, h) \in Call /\ CallInv(Hashed(c, h))
         /\ Hashed(c, h).pc = "put" /\ Hashed(c, h).subject = <<h>>
         /\ Hashed(c, h).method = c.method /\ Hashed(c, h).client = c.client
<1> DEFINE e == Hashed(c, h)
<1>1. <<h>> \in Seq(Txns \cup Hashes)
  OBVIOUS
<1>2. /\ e \in Call /\ e.pc = "put" /\ e.reply = c.reply /\ e.method = c.method
      /\ e.pubkeys = c.pubkeys /\ e.answers = c.answers /\ e.client = c.client
      /\ e.subject = <<h>> /\ e.requests = c.requests /\ e.response = c.response
  BY <1>1 DEF Hashed, Call
<1> HIDE DEF e
<1>3. CallInv(e)
  BY <1>2, MovedInv
<1>4. QED
  BY <1>2, <1>3 DEF e

\* The confirmation of a subscription, or none in time; the end of a
\* subscription; the answer to a read.
LEMMA HttpConfirmation ==
  ASSUME HttpInv, NEW r \in Calls,
         Confirmation(r) \/ SignatureHandler(r) \/ RpcAnswers(r)
  PROVE  HttpInv'
<1>1. PICK c \in Call : /\ c = calls[r] /\ CallInv(c) /\ Known(c, received)
                        /\ c.pc \in {"ask", "subscribed"} /\ c.method # "multiple"
  BY DEF HttpInv, TypeOK, CallInv, Stage, Confirmation, SignatureHandler,
         RpcAnswers, Asking
<1>2. UNCHANGED <<authority, inner, next, caches, received, told, left>>
  BY DEF Confirmation, SignatureHandler, RpcAnswers
<1>3. ASSUME NEW reply \in {"SubscriptionTimetout", "ok", "empty"},
             Set(r, End(c, reply))
      PROVE  HttpInv'
  BY <1>1, <1>2, <1>3, HttpEnds DEF Error
<1>4. ASSUME c.pc = "ask", c.method = "subscribe", Set(r, At(c, "subscribed"))
      PROVE  HttpInv'
  <2>1. LET e == At(c, "subscribed") IN
        /\ e \in Call /\ CallInv(e) /\ e.pc = "subscribed"
        /\ e.method = c.method /\ e.client = c.client /\ e.subject = c.subject
    BY <1>1, <1>4, AtInv
  <2>2. Known(At(c, "subscribed"), received)
    BY <1>1, <2>1 DEF Known
  <2>3. next' \in 1 .. Len(BaseChain)
    BY <1>2 DEF HttpInv, TypeOK
  <2>4. QED
    BY <1>2, <1>4, <2>1, <2>2, <2>3, LocalStep
<1>5. CASE Confirmation(r)
  <2>1. /\ c.pc = "ask" /\ c.method = "subscribe"
        /\ Set(r, At(c, "subscribed")) \/ Set(r, End(c, "SubscriptionTimetout"))
    BY <1>1, <1>5 DEF Confirmation, Asking, At
  <2>2. QED
    BY <1>3, <1>4, <2>1
<1>6. CASE SignatureHandler(r)
  BY <1>1, <1>3, <1>6 DEF SignatureHandler
<1>7. CASE RpcAnswers(r)
  BY <1>1, <1>3, <1>7 DEF RpcAnswers
<1>8. QED
  BY <1>5, <1>6, <1>7

\* The upstream fails, and may have taken a transaction; or it takes one and
\* says so.
LEMMA HttpSent ==
  ASSUME HttpInv, NEW r \in Calls, RpcFails(r) \/ Sent(r)
  PROVE  HttpInv'
<1>1. PICK c \in Call : /\ c = calls[r] /\ CallInv(c) /\ Known(c, received)
                        /\ c.pc = "ask" /\ c.method # "multiple"
  BY DEF HttpInv, TypeOK, CallInv, Stage, RpcFails, Sent, Asking
<1>2. /\ UNCHANGED <<authority, inner, next, caches, told, left>>
      /\ next' \in 1 .. Len(BaseChain) /\ left' \in [Bounds -> Nat]
      /\ received \in [Upstreams -> SUBSET Txns]
  BY DEF RpcFails, Sent, HttpInv, TypeOK
<1>3. ASSUME c.method = "send",
             received' = [received EXCEPT ![c.client] = @ \cup Range(c.subject)]
      PROVE  /\ received' \in [Upstreams -> SUBSET Txns]
             /\ \A u \in Upstreams : received[u] \subseteq received'[u]
             /\ Head(c.subject) \in received'[c.client]
  <2>1. PICK t \in Txns : c.subject = <<t>>
    BY <1>1, <1>3 DEF CallInv, Subjects
  <2>2. Range(c.subject) = {t} /\ Head(c.subject) = t
    BY <2>1 DEF Range
  <2>3. c.client \in Upstreams
    BY <1>1, CallFields DEF CallInv, Stage
  <2>4. received' = [received EXCEPT ![c.client] = @ \cup {t}]
    BY <1>3, <2>2
  <2>5. QED
    BY <1>2, <2>2, <2>3, <2>4
<1>4. CASE RpcFails(r)
  <2>1. /\ Set(r, End(c, "RpcError"))
        /\ \/ received' = received
           \/ /\ c.method = "send"
              /\ received' = [received EXCEPT ![c.client] = @ \cup Range(c.subject)]
    BY <1>1, <1>4 DEF RpcFails
  <2>2. /\ received' \in [Upstreams -> SUBSET Txns]
        /\ \A u \in Upstreams : received[u] \subseteq received'[u]
    BY <1>2, <1>3, <2>1
  <2>3. /\ End(c, "RpcError") \in Call /\ CallInv(End(c, "RpcError"))
        /\ Known(End(c, "RpcError"), received)
    BY <1>1, EndInv DEF Error
  <2>4. Known(End(c, "RpcError"), received')
    BY <2>2, <2>3, KnownGrows DEF CallInv
  <2>5. QED
    BY <1>2, <2>1, <2>2, <2>3, <2>4, CallStep
<1>5. CASE Sent(r)
  <2>1. /\ Set(r, At(c, "put")) /\ c.method = "send"
        /\ received' = [received EXCEPT ![c.client] = @ \cup Range(c.subject)]
    BY <1>1, <1>5 DEF Sent, At, Asking
  <2>2. LET e == At(c, "put") IN
        /\ e \in Call /\ CallInv(e) /\ e.pc = "put"
        /\ e.method = c.method /\ e.client = c.client /\ e.subject = c.subject
    BY <1>1, <2>1, AtInv
  <2>3. Known(At(c, "put"), received')
    BY <1>3, <2>1, <2>2 DEF Known, Looking
  <2>4. QED
    BY <1>2, <1>3, <2>1, <2>2, <2>3, CallStep
<1>6. QED
  BY <1>4, <1>5

\* A blockhash is answered by an upstream that produced it.
LEMMA HttpHash ==
  ASSUME HttpInv, NEW r \in Calls, NEW h \in Hashes, HashAnswered(r, h)
  PROVE  HttpInv'
<1>1. PICK c \in Call : /\ c = calls[r] /\ CallInv(c) /\ c.pc = "ask"
                        /\ c.method \in {"blockhash", "latest"}
                        /\ c.client \in Issuers[h] /\ Set(r, Hashed(c, h))
  BY DEF HttpInv, TypeOK, HashAnswered, Asking, Hashed
<1>2. /\ UNCHANGED <<authority, inner, next, caches, received, told, left>>
      /\ next' \in 1 .. Len(BaseChain)
  BY DEF HashAnswered, HttpInv, TypeOK
<1>3. LET e == Hashed(c, h) IN
      /\ e \in Call /\ CallInv(e) /\ e.pc = "put" /\ e.subject = <<h>>
      /\ e.method = c.method /\ e.client = c.client
  BY <1>1, HashedInv
<1>4. Known(Hashed(c, h), received)
  BY <1>1, <1>3 DEF Known, Looking
<1>5. QED
  BY <1>1, <1>2, <1>3, <1>4, LocalStep

-----------------------------------------------------------------------------
(* multiple_accounts                                                       *)

\* The locals of a call with other answers, and with other parts to answer.
WithAnswers(c, answers) == [c EXCEPT !.answers = answers]
WithParts(c, requests, response) ==
  [c EXCEPT !.requests = requests, !.response = response]

\* The fields of the first.
LEMMA WithAnswersFields ==
  ASSUME NEW c \in Call, NEW answers \in Seq(Authority \cup {"pending"})
  PROVE  LET e == WithAnswers(c, answers) IN
         /\ e \in Call /\ e.pc = c.pc /\ e.reply = c.reply /\ e.method = c.method
         /\ e.pubkeys = c.pubkeys /\ e.answers = answers /\ e.client = c.client
         /\ e.subject = c.subject /\ e.requests = c.requests
         /\ e.response = c.response
BY DEF WithAnswers, Call

\* The fields of the second.
LEMMA WithPartsFields ==
  ASSUME NEW c \in Call, NEW requests \in SUBSET Part,
         NEW response \in Seq(UiAccount \cup {None})
  PROVE  LET e == WithParts(c, requests, response) IN
         /\ e \in Call /\ e.pc = c.pc /\ e.reply = c.reply /\ e.method = c.method
         /\ e.pubkeys = c.pubkeys /\ e.answers = c.answers /\ e.client = c.client
         /\ e.subject = c.subject /\ e.requests = requests /\ e.response = response
BY DEF WithParts, Call

\* What is left of the invariant for a call of multiple_accounts under way.
LEMMA MultipleInv ==
  ASSUME NEW c \in Call, c.method = "multiple", c.pc \in {"join", "ask"},
         c.reply = "none", c.pc = "join" => c.client = None, Positions(c), Parts(c)
  PROVE  CallInv(c) /\ \A rcvd : Known(c, rcvd)
<1>1. Stage(c) /\ Subjects(c) /\ Resolved(c) /\ Routed(c)
  BY DEF Stage, Subjects, Resolved, Routed
<1>2. \A rcvd : Known(c, rcvd)
  BY DEF Known, Looking
<1>3. QED
  BY <1>1, <1>2 DEF CallInv

\* An account is resolved, whichever it is.
LEMMA HttpJoinResolve ==
  ASSUME HttpInv, NEW r \in Calls, NEW i, JoinResolve(r, i)
  PROVE  HttpInv'
<1>1. PICK c \in Call : /\ c = calls[r] /\ c.pc = "join" /\ c.method = "multiple"
                        /\ c.reply = "none" /\ c.client = None
                        /\ c.pubkeys \in Seq(Accounts) /\ c.response = <<>>
                        /\ c.requests = {} /\ i \in DOMAIN c.pubkeys
                        /\ c.answers # <<>> => Len(c.answers) = Len(c.pubkeys)
  BY DEF HttpInv, TypeOK, JoinResolve, CallInv, Stage, Parts
<1>2. /\ UNCHANGED <<authority, inner, next, caches, received, told, left>>
      /\ next' \in 1 .. Len(BaseChain)
  BY DEF JoinResolve, HttpInv, TypeOK
<1>3. PICK a : a = IF c.answers = <<>> THEN [j \in DOMAIN c.pubkeys |-> "pending"]
                   ELSE c.answers
  OBVIOUS
<1>4. PICK v \in Authority : v = authority[c.pubkeys[i]]
  <2>1. c.pubkeys[i] \in Accounts
    BY <1>1, ElementOf
  <2>2. QED
    BY <2>1 DEF HttpInv, TypeOK
<1>5. PICK b : b = [a EXCEPT ![i] = v]
  OBVIOUS
<1>6. Set(r, WithAnswers(c, b))
  BY <1>1, <1>3, <1>4, <1>5, Zenon DEF JoinResolve, WithAnswers
<1>7. b \in Seq(Authority \cup {"pending"}) /\ Len(b) = Len(c.pubkeys)
  <2>1. PICK len \in Nat : len = Len(c.pubkeys) /\ DOMAIN c.pubkeys = 1 .. len
    BY <1>1
  <2>2. a \in [1 .. len -> Authority \cup {"pending"}]
    <3>1. CASE c.answers = <<>>
      BY <1>3, <2>1, <3>1
    <3>2. CASE c.answers # <<>>
      <4>1. a \in Seq(Authority \cup {"pending"}) /\ Len(a) = len
        BY <1>1, <1>3, <2>1, <3>2, CallFields
      <4>2. QED
        BY <4>1
    <3>3. QED
      BY <3>1, <3>2
  <2>3. b \in [1 .. len -> Authority \cup {"pending"}]
    BY <1>5, <2>2
  <2>4. QED
    BY <2>1, <2>3
<1> DEFINE n == WithAnswers(c, b)
<1>8. /\ n \in Call /\ n.pc = "join" /\ n.reply = "none" /\ n.method = "multiple"
      /\ n.pubkeys = c.pubkeys /\ n.answers = b /\ n.client = None
      /\ n.requests = {} /\ n.response = <<>>
  BY <1>1, <1>7, WithAnswersFields
<1> HIDE DEF n
<1>9. Positions(n) /\ Parts(n)
  BY <1>1, <1>7, <1>8 DEF Positions, Parts
<1>10. CallInv(n) /\ Known(n, received)
  BY <1>8, <1>9, MultipleInv
<1>11. QED
  BY <1>2, <1>6, <1>8, <1>10, LocalStep DEF n

\* A part that is answered fills its positions, from the right upstream.
LEMMA HttpPart ==
  ASSUME HttpInv, NEW r \in Calls, NEW part \in calls[r].requests,
         PartAnswered(r, part)
  PROVE  HttpInv'
<1>1. PICK c \in Call : /\ c = calls[r] /\ CallInv(c) /\ c.pc = "ask"
                        /\ part \in c.requests
                        /\ c.reply = "none" /\ c.method = "multiple"
  BY DEF HttpInv, TypeOK, PartAnswered, CallInv, Stage
<1>2. /\ c.pubkeys \in Seq(Accounts) /\ DOMAIN c.response = DOMAIN c.pubkeys
      /\ DOMAIN c.answers = DOMAIN c.pubkeys
      /\ \A p \in c.requests : PartFits(c, p)
      /\ \A i \in DOMAIN c.response :
           c.response[i] # None \/ \E p \in c.requests : i \in p.indices
  BY <1>1 DEF CallInv, Parts
<1>3. /\ UNCHANGED <<authority, inner, next, caches, received, told, left>>
      /\ next' \in 1 .. Len(BaseChain)
  BY DEF PartAnswered, HttpInv, TypeOK
<1>4. PICK f : f = Filled(c, part)
  OBVIOUS
<1>5. Set(r, WithParts(c, c.requests \ {part}, f))
  BY <1>1, <1>4, Zenon DEF PartAnswered, WithParts
<1>6. part \in Part /\ part.client \in Upstreams
  BY <1>1, CallFields DEF Part
<1>7. /\ DOMAIN f = DOMAIN c.response
      /\ \A i \in DOMAIN f : i \in part.indices =>
           /\ f[i] \in UiAccount /\ f[i].by = part.client /\ f[i].pk = c.pubkeys[i]
      /\ \A i \in DOMAIN f : i \notin part.indices => f[i] = c.response[i]
  <2>1. \A i \in DOMAIN c.pubkeys : c.pubkeys[i] \in Accounts
    BY <1>2, ElementOf
  <2>2. QED
    BY <1>2, <1>4, <1>6, <2>1 DEF Filled, UiAccount
<1>8. f \in Seq(UiAccount \cup {None})
  <2>1. PICK len \in Nat : DOMAIN c.response = 1 .. len
    BY <1>1, CallFields, SMTT(30)
  <2>2. \A i \in 1 .. len : c.response[i] \in UiAccount \cup {None}
    BY <1>1, <2>1, CallFields, ElementOf
  <2>3. f = [i \in 1 .. len |-> f[i]]
    BY <1>4, <2>1 DEF Filled
  <2>4. \A i \in 1 .. len : f[i] \in UiAccount \cup {None}
    BY <1>7, <2>1, <2>2
  <2>5. QED
    BY <2>3, <2>4
<1> DEFINE n == WithParts(c, c.requests \ {part}, f)
<1>9. /\ n \in Call /\ n.pc = "ask" /\ n.reply = "none" /\ n.method = "multiple"
      /\ n.pubkeys = c.pubkeys /\ n.answers = c.answers
      /\ n.requests = c.requests \ {part} /\ n.response = f
  <2>1. c.requests \ {part} \in SUBSET Part
    BY CallFields
  <2>2. QED
    BY <1>1, <1>8, <2>1, WithPartsFields
<1> HIDE DEF n
<1>10. Positions(n)
  <2>1. ASSUME NEW i \in DOMAIN f, f[i] # None
        PROVE  /\ f[i].pk = c.pubkeys[i]
               /\ IF c.answers[i] = None THEN f[i].by \in Range(BaseChain)
                  ELSE f[i].by = c.answers[i]
    <3>1. CASE i \in part.indices
      <4>1. PartFits(c, part)
        BY <1>1, <1>2
      <4>2. QED
        BY <1>7, <3>1, <4>1 DEF PartFits
    <3>2. CASE i \notin part.indices
      <4>1. f[i] = c.response[i] /\ i \in DOMAIN c.response
        BY <1>7, <3>2
      <4>2. QED
        BY <1>1, <2>1, <4>1 DEF CallInv, Positions
    <3>3. QED
      BY <3>1, <3>2
  <2>2. QED
    BY <1>9, <2>1 DEF Positions
<1>11. Parts(n)
  <2>1. \A p \in n.requests : PartFits(n, p)
    BY <1>2, <1>9 DEF PartFits
  <2>2. ASSUME NEW i \in DOMAIN f
        PROVE  f[i] # None \/ \E p \in c.requests \ {part} : i \in p.indices
    <3>1. CASE i \in part.indices
      BY <1>7, <3>1, HttpAssumption
    <3>2. CASE i \notin part.indices
      BY <1>2, <1>7, <3>2
    <3>3. QED
      BY <3>1, <3>2
  <2>3. QED
    BY <1>2, <1>7, <1>9, <2>1, <2>2 DEF Parts
<1>12. CallInv(n) /\ Known(n, received)
  BY <1>9, <1>10, <1>11, MultipleInv
<1>13. QED
  BY <1>3, <1>5, <1>9, <1>12, LocalStep DEF n

\* When all parts are answered, every position is.
LEMMA HttpAllParts ==
  ASSUME HttpInv, NEW r \in Calls, AllParts(r)
  PROVE  HttpInv'
<1>1. PICK c \in Call : /\ c = calls[r] /\ CallInv(c) /\ c.pc = "ask"
                        /\ c.method = "multiple" /\ c.requests = {}
                        /\ Set(r, End(c, "ok"))
  BY DEF HttpInv, TypeOK, AllParts
<1>2. /\ UNCHANGED <<authority, inner, next, caches, received, told, left>>
      /\ next' \in 1 .. Len(BaseChain)
  BY DEF AllParts, HttpInv, TypeOK
<1> DEFINE e == End(c, "ok")
<1>3. /\ e \in Call /\ e.pc = "done" /\ e.reply = "ok" /\ e.method = "multiple"
      /\ e.pubkeys = c.pubkeys /\ e.answers = c.answers /\ e.client = c.client
      /\ e.subject = c.subject /\ e.requests = {} /\ e.response = c.response
  <2>1. "ok" \in Error \cup {"none", "ok", "empty"}
    OBVIOUS
  <2>2. QED
    BY <1>1, <2>1, EndFields
<1> HIDE DEF e
<1>4. /\ c.pubkeys \in Seq(Accounts) /\ DOMAIN c.response = DOMAIN c.pubkeys
      /\ \A i \in DOMAIN c.response : c.response[i] # None
  BY <1>1 DEF CallInv, Parts
<1>5. None \notin Range(c.response)
  BY <1>4 DEF Range
<1>6. Stage(e) /\ Subjects(e) /\ Resolved(e) /\ Routed(e) /\ Parts(e)
  BY <1>3, <1>4 DEF Stage, Subjects, Resolved, Routed, Parts
<1>7. Positions(e)
  BY <1>1, <1>3, <1>4, <1>5 DEF CallInv, Positions
<1>8. CallInv(e) /\ Known(e, received)
  BY <1>3, <1>6, <1>7 DEF CallInv, Known, Looking
<1>9. QED
  BY <1>1, <1>2, <1>3, <1>8, LocalStep DEF e

\* The locals of a call whose parts are asked for.
Divided(c, requests) ==
  [[c EXCEPT !.pc = "ask", !.response = [i \in DOMAIN c.pubkeys |-> None]]
     EXCEPT !.requests = requests]

\* Parts that fit and cover the positions keep the invariant.
LEMMA DividedInv ==
  ASSUME NEW c \in Call, CallInv(c), c.pc = "join", NEW requests \in SUBSET Part,
         Len(c.answers) = Len(c.pubkeys), \A p \in requests : PartFits(c, p),
         \A i \in DOMAIN c.pubkeys : \E p \in requests : i \in p.indices
  PROVE  /\ Divided(c, requests) \in Call /\ CallInv(Divided(c, requests))
         /\ \A rcvd : Known(Divided(c, requests), rcvd)
<1>1. /\ c.method = "multiple" /\ c.reply = "none" /\ c.pubkeys \in Seq(Accounts)
      /\ c.answers \in Seq(Authority \cup {"pending"})
  BY CallFields DEF CallInv, Stage, Parts
<1>2. PICK len \in Nat : DOMAIN c.pubkeys = 1 .. len /\ DOMAIN c.answers = 1 .. len
  BY <1>1
<1>3. PICK empty : /\ empty = [i \in DOMAIN c.pubkeys |-> None]
                   /\ empty \in Seq(UiAccount \cup {None})
  <2>1. [i \in 1 .. len |-> None] \in Seq(UiAccount \cup {None})
    OBVIOUS
  <2>2. QED
    BY <1>2, <2>1
<1> DEFINE n == Divided(c, requests)
<1>4. /\ n \in Call /\ n.pc = "ask" /\ n.reply = c.reply /\ n.method = c.method
      /\ n.pubkeys = c.pubkeys /\ n.answers = c.answers
      /\ n.requests = requests /\ n.response = empty
  BY <1>3 DEF Divided, Call
<1> HIDE DEF n
<1>5. DOMAIN empty = DOMAIN c.pubkeys /\ \A i \in DOMAIN empty : empty[i] = None
  BY <1>3
<1>6. Positions(n)
  BY <1>1, <1>4, <1>5 DEF Positions
<1>7. Parts(n)
  <2>1. \A p \in n.requests : PartFits(n, p)
    BY <1>4 DEF PartFits
  <2>2. QED
    BY <1>1, <1>2, <1>4, <1>5, <2>1 DEF Parts
<1>8. CallInv(n) /\ \A rcvd : Known(n, rcvd)
  BY <1>1, <1>4, <1>6, <1>7, MultipleInv
<1>9. QED
  BY <1>4, <1>8 DEF n

\* The part of an upstream.
PartOf(c, u, v) == [client |-> u, indices |-> Indices(c.answers, v)]

\* It fits when u is the upstream of v.
LEMMA PartOfFits ==
  ASSUME NEW c \in Call, NEW u \in Upstreams, NEW v,
         IF v = None THEN u \in Range(BaseChain) ELSE u = v
  PROVE  /\ PartOf(c, u, v) \in Part /\ PartFits(c, PartOf(c, u, v))
         /\ PartOf(c, u, v).indices = Indices(c.answers, v)
<1>1. c.answers \in Seq(Authority \cup {"pending"})
  BY CallFields
<1>2. Indices(c.answers, v) \subseteq Nat
  BY <1>1 DEF Indices
<1>3. /\ PartOf(c, u, v) \in Part /\ PartOf(c, u, v).client = u
      /\ PartOf(c, u, v).indices = Indices(c.answers, v)
  BY <1>2 DEF PartOf, Part
<1>4. \A i \in Indices(c.answers, v) : i \in DOMAIN c.answers /\ c.answers[i] = v
  BY DEF Indices
<1>5. QED
  BY <1>3, <1>4 DEF PartFits

\* The accounts are divided by the answers.
LEMMA HttpSplit ==
  ASSUME HttpInv, NEW r \in Calls, Split(r)
  PROVE  HttpInv'
<1>1. PICK c \in Call : /\ c = calls[r] /\ CallInv(c) /\ c.pc = "join"
                        /\ Len(c.answers) = Len(c.pubkeys)
                        /\ "pending" \notin Range(c.answers)
  BY DEF HttpInv, TypeOK, Split, Answered
<1>2. UNCHANGED <<authority, inner, caches, received, told, left>>
  BY DEF Split
<1> DEFINE nodes == Range(c.answers) \ {None}
           parts == {PartOf(c, v, v) : v \in nodes}
<1>3. /\ \A v \in nodes : v \in Ers /\ v \in Upstreams /\ v # None
      /\ DOMAIN c.answers = DOMAIN c.pubkeys
  <2>1. c.answers \in Seq(Authority \cup {"pending"})
    BY CallFields
  <2>2. \A i \in DOMAIN c.answers : c.answers[i] \in Authority \cup {"pending"}
    BY <2>1, ElementOf
  <2>3. Range(c.answers) \subseteq Authority \cup {"pending"}
    BY <2>2 DEF Range
  <2>4. c.pubkeys \in Seq(Accounts \cup {None})
    BY CallFields
  <2>5. QED
    BY <1>1, <2>1, <2>3, <2>4 DEF Authority, Upstreams
<1>4. parts \in SUBSET Part /\ \A p \in parts : PartFits(c, p)
  BY <1>3, PartOfFits
<1>5. \A i \in DOMAIN c.pubkeys : c.answers[i] # None =>
        \E p \in parts : i \in p.indices
  <2> TAKE i \in DOMAIN c.pubkeys
  <2> HAVE c.answers[i] # None
  <2>1. c.answers[i] \in nodes
    BY <1>3 DEF Range
  <2>2. /\ PartOf(c, c.answers[i], c.answers[i]) \in parts
        /\ PartOf(c, c.answers[i], c.answers[i]).indices
             = Indices(c.answers, c.answers[i])
    BY <1>3, <2>1, PartOfFits
  <2>3. i \in Indices(c.answers, c.answers[i])
    BY <1>3 DEF Indices
  <2>4. QED
    BY <2>2, <2>3
<1>6. \/ Set(r, End(c, "UnknownErNode")) /\ UNCHANGED next
      \/ /\ None \notin Range(c.answers) /\ UNCHANGED next
         /\ Set(r, Divided(c, parts))
      \/ \E u \in Range(BaseChain) :
           base_chain(u) /\ Set(r, Divided(c, parts \cup {PartOf(c, u, None)}))
  BY <1>1, Zenon DEF Split, Divided, PartOf
<1>7. ASSUME NEW n \in Call, CallInv(n), \A rcvd : Known(n, rcvd), Set(r, n),
             next' \in 1 .. Len(BaseChain)
      PROVE  HttpInv'
  BY <1>2, <1>7, LocalStep
<1> HIDE DEF nodes, parts
<1>8. CASE Set(r, End(c, "UnknownErNode")) /\ UNCHANGED next
  BY <1>1, <1>2, <1>8, HttpEnds DEF Error
<1>9. CASE /\ None \notin Range(c.answers) /\ UNCHANGED next
           /\ Set(r, Divided(c, parts))
  <2>1. \A i \in DOMAIN c.pubkeys : \E p \in parts : i \in p.indices
    BY <1>3, <1>5, <1>9 DEF Range
  <2>2. /\ Divided(c, parts) \in Call /\ CallInv(Divided(c, parts))
        /\ \A rcvd : Known(Divided(c, parts), rcvd)
    BY <1>1, <1>4, <2>1, DividedInv
  <2>3. next' \in 1 .. Len(BaseChain)
    BY <1>9 DEF HttpInv, TypeOK
  <2>4. QED
    BY <1>7, <1>9, <2>2, <2>3
<1>10. ASSUME NEW u \in Range(BaseChain), base_chain(u),
              Set(r, Divided(c, parts \cup {PartOf(c, u, None)}))
       PROVE  HttpInv'
  <2>1. u \in Upstreams
    BY DEF Upstreams
  <2>2. /\ PartOf(c, u, None) \in Part /\ PartFits(c, PartOf(c, u, None))
        /\ PartOf(c, u, None).indices = Indices(c.answers, None)
    BY <2>1, PartOfFits
  <2> DEFINE all == parts \cup {PartOf(c, u, None)}
  <2>3. all \in SUBSET Part /\ \A p \in all : PartFits(c, p)
    BY <1>4, <2>2
  <2>4. \A i \in DOMAIN c.pubkeys : \E p \in all : i \in p.indices
    <3> TAKE i \in DOMAIN c.pubkeys
    <3>1. CASE c.answers[i] # None
      BY <1>5, <3>1
    <3>2. CASE c.answers[i] = None
      <4>1. i \in Indices(c.answers, None)
        BY <1>3, <3>2 DEF Indices
      <4>2. QED
        BY <2>2, <4>1
    <3>3. QED
      BY <3>1, <3>2
  <2> HIDE DEF all
  <2>5. /\ Divided(c, all) \in Call /\ CallInv(Divided(c, all))
        /\ \A rcvd : Known(Divided(c, all), rcvd)
    BY <1>1, <2>3, <2>4, DividedInv
  <2>6. next' \in 1 .. Len(BaseChain)
    BY <1>10, RoundRobin DEF HttpInv
  <2>7. QED
    BY <1>7, <1>10, <2>5, <2>6 DEF all
<1>11. QED
  BY <1>6, <1>8, <1>9, <1>10

-----------------------------------------------------------------------------
(* The caches                                                              *)

\* A key that is put is present, and the others keep their values, but for
\* the one that is evicted.
IsPut(K, cache, key, client, new, out) ==
  /\ new \in [K -> Upstreams \cup {None}] /\ out \subseteq K
  /\ new[key] # None /\ new[key] \in {cache[key], client}
  /\ \A e \in K \ {key} : /\ new[e] \in {cache[e], None}
                          /\ new[e] = None => e \in out \/ cache[e] = None

\* That is what put_async does.
LEMMA PutAsync ==
  ASSUME NEW K, NEW cache \in [K -> Upstreams \cup {None}], NEW key \in K,
         NEW client \in Upstreams, NEW p \in put_async(cache, key, client)
  PROVE  IsPut(K, cache, key, client, p[1], p[2])
<1>1. client # None
  BY HttpAssumption
<1>2. CASE cache[key] # None
  <2>1. p = <<cache, {}>>
    BY <1>2 DEF put_async
  <2>2. QED
    BY <1>2, <2>1 DEF IsPut
<1>3. CASE cache[key] = None
  <2>1. PICK out \in {{}} \cup {{e} : e \in {e \in K : cache[e] # None}} :
          p = <<[e \in K |-> IF e = key THEN client
                             ELSE IF e \in out THEN None ELSE cache[e]], out>>
    BY <1>3 DEF put_async
  <2>2. out \subseteq K /\ key \notin out
    BY <1>3
  <2>3. PICK f : /\ f = [e \in K |-> IF e = key THEN client
                                     ELSE IF e \in out THEN None ELSE cache[e]]
                 /\ p = <<f, out>>
    BY <2>1
  <2>4. p[1] = f /\ p[2] = out
    BY <2>3
  <2>5. /\ f \in [K -> Upstreams \cup {None}] /\ f[key] = client
        /\ \A e \in K \ {key} : f[e] = IF e \in out THEN None ELSE cache[e]
    BY <2>3
  <2>6. QED
    BY <1>1, <2>2, <2>4, <2>5 DEF IsPut
<1>4. QED
  BY <1>2, <1>3

\* What is told is remembered, and true.
LEMMA HttpRemember ==
  ASSUME HttpInv, NEW r \in Calls, Remember(r)
  PROVE  HttpInv'
<1>1. PICK c \in Call : /\ c = calls[r] /\ CallInv(c) /\ Known(c, received)
                        /\ c.pc = "put" /\ c.method \in {"send", "blockhash", "latest"}
                        /\ Set(r, End(c, "ok")) /\ c.client # None
  BY DEF HttpInv, TypeOK, Remember, CallInv, Stage
<1>2. PICK key : key = Head(c.subject) /\ told' = told \cup {key}
  BY <1>1 DEF Remember
<1>3. UNCHANGED <<authority, inner, next, received, left>>
  BY DEF Remember
<1>4. /\ c.method = "send" => key \in Txns /\ key \in received[c.client]
      /\ c.method # "send" => key \in Hashes /\ c.client \in Issuers[key]
  BY <1>1, <1>2 DEF CallInv, Subjects, Known
<1>5. c.client \in Upstreams /\ Txns \cap Hashes = {}
  BY <1>1, CallFields, HttpAssumption
<1>6. /\ transactions \in [Txns -> Upstreams \cup {None}]
      /\ blockhashes \in [Hashes -> Upstreams \cup {None}]
      /\ told \subseteq Txns \cup Hashes /\ evicted \subseteq Txns \cup Hashes
  BY DEF HttpInv, TypeOK
<1>7. /\ transactions' \in [Txns -> Upstreams \cup {None}]
      /\ blockhashes' \in [Hashes -> Upstreams \cup {None}]
      /\ told' \subseteq Txns \cup Hashes /\ evicted' \subseteq Txns \cup Hashes
      /\ CachesKnown'
  <2>1. CASE c.method = "send"
    <3>1. PICK p \in put_async(transactions, key, c.client) :
            transactions' = p[1] /\ evicted' = (evicted \ {key}) \cup p[2]
      BY <1>1, <1>2, <2>1 DEF Remember
    <3>2. /\ transactions' \in [Txns -> Upstreams \cup {None}] /\ p[2] \subseteq Txns
          /\ transactions'[key] # None
          /\ transactions'[key] \in {transactions[key], c.client}
          /\ \A e \in Txns \ {key} :
               /\ transactions'[e] \in {transactions[e], None}
               /\ transactions'[e] = None => e \in p[2] \/ transactions[e] = None
      <4>1. key \in Txns /\ c.client \in Upstreams
        BY <1>4, <1>5, <2>1
      <4>2. IsPut(Txns, transactions, key, c.client, p[1], p[2])
        BY <1>6, <3>1, <4>1, PutAsync
      <4>3. IsPut(Txns, transactions, key, c.client, transactions', p[2])
        BY <3>1, <4>2
      <4>4. QED
        BY <4>3, Zenon DEF IsPut
    <3>3. blockhashes' = blockhashes
      BY <1>1, <2>1 DEF Remember
    <3>4. \A k \in told' \ evicted' :
            IF k \in Txns THEN transactions'[k] # None ELSE blockhashes'[k] # None
      BY <1>2, <1>4, <2>1, <3>1, <3>2, <3>3 DEF HttpInv, CachesKnown
    <3>5. \A t \in Txns : transactions'[t] # None => t \in received'[transactions'[t]]
      BY <1>3, <1>4, <2>1, <3>2 DEF HttpInv, CachesKnown
    <3>6. CachesKnown'
      BY <3>3, <3>4, <3>5 DEF HttpInv, CachesKnown
    <3>7. QED
      BY <1>2, <1>4, <1>6, <2>1, <3>1, <3>2, <3>3, <3>6
  <2>2. CASE c.method # "send"
    <3>1. PICK p \in put_async(blockhashes, key, c.client) :
            blockhashes' = p[1] /\ evicted' = (evicted \ {key}) \cup p[2]
      BY <1>1, <1>2, <2>2 DEF Remember
    <3>2. /\ blockhashes' \in [Hashes -> Upstreams \cup {None}] /\ p[2] \subseteq Hashes
          /\ blockhashes'[key] # None
          /\ blockhashes'[key] \in {blockhashes[key], c.client}
          /\ \A e \in Hashes \ {key} :
               /\ blockhashes'[e] \in {blockhashes[e], None}
               /\ blockhashes'[e] = None => e \in p[2] \/ blockhashes[e] = None
      <4>1. key \in Hashes /\ c.client \in Upstreams
        BY <1>4, <1>5, <2>2
      <4>2. IsPut(Hashes, blockhashes, key, c.client, p[1], p[2])
        BY <1>6, <3>1, <4>1, PutAsync
      <4>3. IsPut(Hashes, blockhashes, key, c.client, blockhashes', p[2])
        BY <3>1, <4>2
      <4>4. QED
        BY <4>3, Zenon DEF IsPut
    <3>3. transactions' = transactions
      BY <1>1, <2>2 DEF Remember
    <3>4. \A k \in told' \ evicted' :
            IF k \in Txns THEN transactions'[k] # None ELSE blockhashes'[k] # None
      BY <1>2, <1>4, <1>5, <1>6, <2>2, <3>1, <3>2, <3>3 DEF HttpInv, CachesKnown
    <3>5. \A h \in Hashes : blockhashes'[h] # None => blockhashes'[h] \in Issuers[h]
      BY <1>4, <2>2, <3>2 DEF HttpInv, CachesKnown
    <3>6. CachesKnown'
      BY <1>3, <3>3, <3>4, <3>5 DEF HttpInv, CachesKnown
    <3>7. QED
      BY <1>2, <1>4, <1>6, <2>2, <3>1, <3>2, <3>3, <3>6
  <2>3. QED
    BY <2>1, <2>2
<1>8. /\ End(c, "ok") \in Call /\ CallInv(End(c, "ok"))
      /\ Known(End(c, "ok"), received)
  BY <1>1, EndInv
<1>9. /\ calls' \in [Calls -> Call] /\ calls'[r] = End(c, "ok")
      /\ \A q \in Calls \ {r} : calls'[q] = calls[q]
  BY <1>1, <1>8 DEF HttpInv, TypeOK, Set
<1>10. TypeOK'
  BY <1>3, <1>7, <1>9 DEF HttpInv, TypeOK
<1>11. \A q \in Calls : CallInv(calls'[q]) /\ Known(calls'[q], received')
  BY <1>3, <1>8, <1>9 DEF HttpInv
<1>12. QED
  BY <1>7, <1>10, <1>11 DEF HttpInv

-----------------------------------------------------------------------------
(* The specification                                                       *)

\* A call under way keeps the invariant.
LEMMA HttpServe ==
  ASSUME HttpInv, NEW r \in Calls, Serve(r)
  PROVE  HttpInv'
<1>1. ASSUME NEW part \in calls[r].requests, PartFailed(r, part)
      PROVE  HttpInv'
  BY <1>1, HttpEnds DEF PartFailed, Error
<1>2. QED
  BY <1>1, HttpResolve, HttpRoute, HttpSplit, HttpAllParts, HttpLookup,
     HttpConfirmation, HttpJoinResolve, HttpSent, HttpRemember, HttpHash, HttpPart
     DEF Serve

\* Delegations and routes change: what the calls have found out stays.
LEMMA HttpChange ==
  ASSUME HttpInv,
         \/ \E pk \in Accounts, v \in Authority : DelegationChange(pk, v)
         \/ \E v \in Ers : RouteChange(v)
         \/ UNCHANGED vars
  PROVE  HttpInv'
<1>1. UNCHANGED <<next, calls, transactions, blockhashes, evicted, received, told>>
  BY DEF DelegationChange, RouteChange, vars, caches
<1>2. authority' \in [Accounts -> Authority]
  BY DEF DelegationChange, RouteChange, vars, HttpInv, TypeOK
<1>3. inner' \subseteq Ers
  BY DEF DelegationChange, RouteChange, vars, HttpInv, TypeOK
<1>4. left' \in [Bounds -> Nat]
  <2>1. Spend("changes") \/ UNCHANGED left
    BY DEF DelegationChange, RouteChange, vars
  <2>2. QED
    BY <2>1, SpendType DEF HttpInv, TypeOK, Bounds
<1>5. TypeOK'
  BY <1>1, <1>2, <1>3, <1>4 DEF HttpInv, TypeOK
<1>6. CachesKnown'
  BY <1>1 DEF HttpInv, CachesKnown
<1>7. \A r \in Calls : CallInv(calls'[r]) /\ Known(calls'[r], received')
  BY <1>1 DEF HttpInv
<1>8. QED
  BY <1>5, <1>6, <1>7 DEF HttpInv

\* The invariant is inductive.
LEMMA HttpInductive == Spec => []HttpInv
<1>1. HttpInv /\ [Next]_vars => HttpInv'
  BY HttpStart, HttpServe, HttpChange DEF Next
<1>2. QED
  BY HttpInit, <1>1, PTL DEF Spec

\* Every variable keeps its type: the round robin of the base chain stays
\* within the list of upstreams, and no call asks an upstream there is none of.
THEOREM HttpTypeCorrect == Spec => []TypeOK
<1>1. HttpInv => TypeOK
  BY DEF HttpInv
<1>2. QED
  BY HttpInductive, <1>1, PTL

\* resolve_client, blockhash_for_accounts and send_transaction go to the one
\* node that their accounts were found at, to the base chain if there is none,
\* and fail for a conflict exactly when there are two, whatever changes while
\* they look the accounts up.
THEOREM CallsRoutedByAnswers == Spec => []RoutedByAnswers
<1>1. HttpInv => RoutedByAnswers
  BY DEF HttpInv, CallInv, Routed, RoutedByAnswers
<1>2. QED
  BY HttpInductive, <1>1, PTL

\* multiple_accounts returns every account at its position, from the upstream
\* of its delegation, in whichever order the parts are answered.
THEOREM PositionsAlwaysMatch == Spec => []PositionsMatch
<1>1. HttpInv => PositionsMatch
  BY DEF HttpInv, CallInv, Positions, PositionsMatch
<1>2. QED
  BY HttpInductive, <1>1, PTL

\* What a caller was told of is remembered until it is evicted, an upstream
\* that is remembered has the transaction or the blockhash, and so has the one
\* that a call about it was sent to.
THEOREM ToldIsRemembered == Spec => []Remembered
<1>1. HttpInv => Remembered
  BY DEF HttpInv, CachesKnown, Known, Looking, Remembered
<1>2. QED
  BY HttpInductive, <1>1, PTL

=============================================================================
