------------------------------ MODULE HttpRouting ------------------------------
(***************************************************************************)
(* The HTTP methods of the router (src/src/server/http.rs) and its         *)
(* signatureSubscribe (src/src/server/websocket.rs): which upstream each   *)
(* call is sent to, what the router remembers of it                        *)
(* (src/src/cache/transactions.rs and the cache of blockhashes), and the   *)
(* reassembly of getMultipleAccounts from the answers of several           *)
(* upstreams.                                                              *)
(*                                                                         *)
(* Calls run concurrently, and the delegations and the routes change       *)
(* between their awaits.  The delegation cache and the routing table are   *)
(* seen through their answers (DelegationsCache and RoutingTable model     *)
(* how they come about).  An account as answered by an upstream is the     *)
(* pair of the two; slots, commitments and encodings are left out.         *)
(***************************************************************************)
EXTENDS Naturals, Sequences, SequencesExt

CONSTANTS
  Calls,                \* concurrent HTTP calls
  Accounts, Ers, None,
  BaseChain,            \* base_chain_urls: a sequence of upstreams
  Txns,                 \* transactions, and their signatures
  static_account_keys,  \* accounts of a transaction: [pk, writable]
  Hashes,               \* blockhashes
  Issuers,              \* upstreams whose chain has produced a blockhash
  PubkeyLists,          \* lists of accounts that callers ask for
  SignatureLists,       \* lists of signatures that callers ask for
  StaticIdentity,       \* static_er_identity, or None
  MaxCalls,             \* bound: calls that are made
  MaxChanges            \* bound: changes of delegations and routes

Upstreams == Ers \cup Range(BaseChain)
Authority == Ers \cup {None}
Error == {"ConflictingDelegations", "UnknownErNode", "RpcError",
          "UnknownTransaction", "SubscriptionTimetout"}
Bounds == {"calls", "changes"}
UiAccount == [by : Upstreams, pk : Accounts]
Methods == {"none", "account", "status", "multiple", "blockhash", "send", "latest",
            "identity", "signatures", "subscribe", "valid"}
Part == [client : Upstreams, indices : SUBSET Nat]
Call == [pc : {"idle", "resolve", "join", "lookup", "ask", "put",
               "subscribed", "done"},
         method : Methods,
         pubkeys : Seq(Accounts \cup {None}),
         answers : Seq(Authority \cup {"pending"}),
         delegation : Authority, client : Upstreams \cup {None},
         subject : Seq(Txns \cup Hashes), requests : SUBSET Part,
         response : Seq(UiAccount \cup {None}),
         reply : Error \cup {"none", "ok", "empty"}]

ASSUME HttpAssumption ==
  /\ None \notin Upstreams \cup UiAccount \cup Accounts
  /\ "pending" \notin Authority
  /\ BaseChain \in Seq(Upstreams) /\ BaseChain # <<>>
  /\ Ers \cap Range(BaseChain) = {}
  /\ Txns \cap Hashes = {}
  /\ static_account_keys \in [Txns -> Seq([pk : Accounts, writable : BOOLEAN])]
  /\ Issuers \in [Hashes -> SUBSET Upstreams]
  /\ PubkeyLists \subseteq Seq(Accounts) /\ SignatureLists \subseteq Seq(Txns)
  /\ StaticIdentity \in Authority
  /\ MaxCalls \in Nat /\ MaxChanges \in Nat

VARIABLES
  authority,     \* what get_delegation_authority answers
  inner,         \* ER nodes in the routing table
  next,          \* index of the next base chain upstream
  calls,         \* locals of the calls
  transactions,  \* ForwardedTransactions: upstream of a signature
  blockhashes,   \* upstream of a blockhash
  received,      \* external: transactions that reached an upstream
  told,          \* history: signatures and hashes returned to a caller
  evicted,       \* history: what the two caches have dropped
  left           \* what is left of the bounds

caches == <<transactions, blockhashes, evicted>>
vars == <<authority, inner, next, calls, caches, received, told, left>>

-----------------------------------------------------------------------------
NoCall == [pc |-> "idle", method |-> "none", pubkeys |-> <<>>,
           answers |-> <<>>, delegation |-> None, client |-> None,
           subject |-> <<>>, requests |-> {}, response |-> <<>>,
           reply |-> "none"]

Spend(b) == left[b] > 0 /\ left' = [left EXCEPT ![b] = @ - 1]
Set(r, call) == calls' = [calls EXCEPT ![r] = call]
End(call, reply) == [call EXCEPT !.pc = "done", !.reply = reply]
Ask(call, client) == [call EXCEPT !.pc = "ask", !.client = client]

Init ==
  /\ authority \in [Accounts -> Authority]
  /\ inner = Ers
  /\ next = 1
  /\ calls = [r \in Calls |-> NoCall]
  /\ transactions = [t \in Txns |-> None]
  /\ blockhashes = [h \in Hashes |-> None]
  /\ received = [u \in Upstreams |-> {}]
  /\ told = {}
  /\ evicted = {}
  /\ left = [b \in Bounds |-> IF b = "calls" THEN MaxCalls ELSE MaxChanges]

-----------------------------------------------------------------------------
(* The environment: delegations and routes change (external).              *)

DelegationChange(pk, v) ==
  /\ v # authority[pk]
  /\ Spend("changes")
  /\ authority' = [authority EXCEPT ![pk] = v]
  /\ UNCHANGED <<inner, next, calls, caches, received, told>>

RouteChange(v) ==
  /\ Spend("changes")
  /\ inner' = IF v \in inner THEN inner \ {v} ELSE inner \cup {v}
  /\ UNCHANGED <<authority, next, calls, caches, received, told>>

-----------------------------------------------------------------------------
(* The routing table                                                       *)

\* Mutant: the index is not taken modulo the number of upstreams.
base_chain_unwrapped(chosen) == next' = next + 1 /\ chosen = BaseChain[next]

\* The upstream chosen by the round robin, which moves on.
base_chain(chosen) ==
  /\ chosen = BaseChain[next]
  /\ next' = (next % Len(BaseChain)) + 1

\* The node and client closest_node may answer: the base chain's client
\* with the default key when no node has a fresh proximity.  The base chain
\* loses its turn even if an ER node is the closest.
closest_node(client) ==
  IF StaticIdentity # None THEN client = StaticIdentity /\ UNCHANGED next
  ELSE \E base \in Range(BaseChain) :
         base_chain(base) /\ client \in inner \cup {base}

-----------------------------------------------------------------------------
(* The methods start                                                       *)

Begin(r, pc, method, pubkeys, subject) ==
  /\ calls[r].pc \in {"idle", "done"}
  /\ Spend("calls")
  /\ Set(r, [NoCall EXCEPT !.pc = pc, !.method = method, !.pubkeys = pubkeys,
                           !.subject = subject])
  /\ UNCHANGED <<authority, inner, next, caches, received, told>>

\* account_info, balance, token_account_balance, signatures_for_address
account_info(r, pk) == Begin(r, "resolve", "account", <<pk>>, <<>>)

delegation_status(r, pk) == Begin(r, "resolve", "status", <<pk>>, <<>>)

multiple_accounts(r, pks) == Begin(r, "join", "multiple", pks, <<>>)

blockhash_for_accounts(r, pks) == Begin(r, "resolve", "blockhash", pks, <<>>)

\* An account that the transaction does not write is not looked up: None.
send_transaction(r, t) ==
  LET keys == static_account_keys[t]
  IN  Begin(r, "resolve", "send",
            [i \in DOMAIN keys |-> IF keys[i].writable THEN keys[i].pk ELSE None],
            <<t>>)

\* latest_blockhash and identity begin with closest_node, and go on to call.
Closest(r, client, call) ==
  /\ calls[r].pc \in {"idle", "done"}
  /\ Spend("calls")
  /\ closest_node(client)
  /\ Set(r, IF client \in Ers \ inner
              THEN End([NoCall EXCEPT !.method = call.method], "UnknownErNode")
              ELSE call)
  /\ UNCHANGED <<authority, inner, caches, received, told>>

latest_blockhash(r, client) ==
  Closest(r, client, Ask([NoCall EXCEPT !.method = "latest"], client))

identity(r, client) ==
  Closest(r, client, End([NoCall EXCEPT !.method = "identity"], "ok"))

\* transaction is the case of one signature.
signature_statuses(r, sigs) == Begin(r, "lookup", "signatures", <<>>, sigs)

\* The subscription is accepted before the signature is looked up.
signature_subscribe(r, t) == Begin(r, "lookup", "subscribe", <<>>, <<t>>)

is_blockhash_valid(r, h) == Begin(r, "lookup", "valid", <<>>, <<h>>)

-----------------------------------------------------------------------------
(* One account after the other: resolve_client, blockhash_for_accounts,    *)
(* send_transaction and delegation_status.                                 *)

Answered(call) == Len(call.answers) = Len(call.pubkeys)

\* The answer for the next account of the call.
Validator(call) ==
  LET pk == call.pubkeys[Len(call.answers) + 1]
  IN  IF pk = None THEN None ELSE authority[pk]

\* Mutant: an undelegated account resets the choice.
Resolve_reset(r) ==
  LET c == calls[r]
      validator == Validator(c)
      n == [c EXCEPT !.answers = Append(@, validator),
                     !.delegation = validator]
  IN
  /\ c.pc = "resolve" /\ ~ Answered(c)
  /\ Set(r, IF validator # None /\ c.delegation \notin {None, validator}
              THEN End(n, "ConflictingDelegations") ELSE n)
  /\ UNCHANGED <<authority, inner, next, caches, received, told, left>>

Resolve(r) ==
  LET c == calls[r]
      validator == Validator(c)
      n == [c EXCEPT !.answers = Append(@, validator),
                     !.delegation = IF validator = None THEN @ ELSE validator]
  IN
  /\ c.pc = "resolve" /\ ~ Answered(c)
  /\ Set(r, IF validator # None /\ c.delegation \notin {None, validator}
              THEN End(n, "ConflictingDelegations") ELSE n)
  /\ UNCHANGED <<authority, inner, next, caches, received, told, left>>

\* The upstream is looked up in the table of now.
Route(r) ==
  LET c == calls[r] IN
  /\ c.pc = "resolve" /\ Answered(c)
  /\ \/ /\ c.delegation # None
        /\ Set(r, IF c.delegation \notin inner THEN End(c, "UnknownErNode")
                  ELSE IF c.method = "status" THEN End(c, "ok")
                  ELSE Ask(c, c.delegation))
        /\ UNCHANGED next
     \/ /\ c.delegation = None /\ c.method = "status"
        /\ Set(r, End(c, "ok"))
        /\ UNCHANGED next
     \/ /\ c.delegation = None /\ c.method # "status"
        /\ \E u \in Range(BaseChain) : base_chain(u) /\ Set(r, Ask(c, u))
  /\ UNCHANGED <<authority, inner, caches, received, told, left>>

-----------------------------------------------------------------------------
(* multiple_accounts                                                       *)

\* join_all: the accounts are resolved in any order.
JoinResolve(r, i) ==
  LET c == calls[r]
      answers == IF c.answers = <<>> THEN [j \in DOMAIN c.pubkeys |-> "pending"]
                 ELSE c.answers
  IN
  /\ c.pc = "join" /\ i \in DOMAIN c.pubkeys
  /\ answers[i] = "pending"
  /\ Set(r, [c EXCEPT !.answers = [answers EXCEPT ![i] =
                                     authority[c.pubkeys[i]]]])
  /\ UNCHANGED <<authority, inner, next, caches, received, told, left>>

\* The indices at which the answer was v; each travels with its account.
Indices(answers, v) == {i \in DOMAIN answers : answers[i] = v}

\* One request per ER node and one for the base chain, all at once; an
\* unknown node ends the call before any is made.
Split(r) ==
  LET c == calls[r]
      nodes == Range(c.answers) \ {None}
      parts == {[client |-> v, indices |-> Indices(c.answers, v)] : v \in nodes}
      n == [c EXCEPT !.pc = "ask",
                     !.response = [i \in DOMAIN c.pubkeys |-> None]]
  IN
  /\ c.pc = "join" /\ Answered(c) /\ "pending" \notin Range(c.answers)
  /\ \/ /\ ~ (nodes \subseteq inner)
        /\ Set(r, End(c, "UnknownErNode"))
        /\ UNCHANGED next
     \/ /\ nodes \subseteq inner /\ None \notin Range(c.answers)
        /\ Set(r, [n EXCEPT !.requests = parts])
        /\ UNCHANGED next
     \/ /\ nodes \subseteq inner /\ None \in Range(c.answers)
        /\ \E u \in Range(BaseChain) :
             /\ base_chain(u)
             /\ Set(r, [n EXCEPT !.requests = parts \cup
                  {[client |-> u, indices |-> Indices(c.answers, None)]}])
  /\ UNCHANGED <<authority, inner, caches, received, told, left>>

\* Mutant: positions are counted within the part.
Filled_by_part(call, part) ==
  [i \in DOMAIN call.response |->
     IF i \in 1 .. Cardinality(part.indices)
       THEN [by |-> part.client, pk |-> call.pubkeys[i]]
       ELSE call.response[i]]

\* The answer of a part, an entry per account, at their positions.
Filled(call, part) ==
  [i \in DOMAIN call.response |->
     IF i \in part.indices
       THEN [by |-> part.client, pk |-> call.pubkeys[i]]
       ELSE call.response[i]]

PartAnswered(r, part) ==
  LET c == calls[r] IN
  /\ c.pc = "ask" /\ part \in c.requests
  /\ Set(r, [c EXCEPT !.requests = @ \ {part}, !.response = Filled(c, part)])
  /\ UNCHANGED <<authority, inner, next, caches, received, told, left>>

\* The whole call fails, the other parts are dropped.
PartFailed(r, part) ==
  /\ calls[r].pc = "ask" /\ part \in calls[r].requests
  /\ Set(r, End(calls[r], "RpcError"))
  /\ UNCHANGED <<authority, inner, next, caches, received, told, left>>

AllParts(r) ==
  LET c == calls[r] IN
  /\ c.pc = "ask" /\ c.method = "multiple" /\ c.requests = {}
  /\ Set(r, End(c, "ok"))
  /\ UNCHANGED <<authority, inner, next, caches, received, told, left>>

-----------------------------------------------------------------------------
(* What is remembered of earlier calls                                     *)

\* The first signature chooses the upstream for all.
Lookup(r) ==
  LET c == calls[r]
      known == IF c.method = "valid" THEN blockhashes ELSE transactions
      unknown == IF c.method = "subscribe" THEN "UnknownTransaction" ELSE "empty"
  IN
  /\ c.pc = "lookup"
  /\ Set(r, IF c.subject = <<>> THEN End(c, "empty")
            ELSE IF known[Head(c.subject)] = None THEN End(c, unknown)
            ELSE Ask(c, known[Head(c.subject)]))
  /\ UNCHANGED <<authority, inner, next, caches, received, told, left>>

Asking(r, methods) == calls[r].pc = "ask" /\ calls[r].method \in methods

\* The upstream confirms the subscription to a signature, or 10 s pass.
Confirmation(r) ==
  /\ Asking(r, {"subscribe"})
  /\ \/ Set(r, [calls[r] EXCEPT !.pc = "subscribed"])
     \/ Set(r, End(calls[r], "SubscriptionTimetout"))
  /\ UNCHANGED <<authority, inner, next, caches, received, told, left>>

\* The handler ends with the first message.  A notification is passed on; a
\* lost connection, a closed sink and 60 s of silence end it without a word.
SignatureHandler(r) ==
  /\ calls[r].pc = "subscribed"
  /\ \E reply \in {"ok", "empty"} : Set(r, End(calls[r], reply))
  /\ UNCHANGED <<authority, inner, next, caches, received, told, left>>

-----------------------------------------------------------------------------
(* The answer of the upstream                                              *)

\* Mutant: whatever the upstream answers is remembered.
RpcFails_tracked(r) ==
  LET c == calls[r] IN
  /\ Asking(r, {"send", "account", "blockhash", "latest", "signatures", "valid"})
  /\ Set(r, IF c.method = "send" THEN [c EXCEPT !.pc = "put"]
            ELSE End(c, "RpcError"))
  /\ UNCHANGED <<authority, inner, next, caches, received, told, left>>

\* An error.  A transaction may have reached the upstream all the same.
RpcFails(r) ==
  LET c == calls[r] IN
  /\ Asking(r, {"send", "account", "blockhash", "latest", "signatures", "valid"})
  /\ Set(r, End(c, "RpcError"))
  /\ \/ UNCHANGED received
     \/ /\ c.method = "send"
        /\ received' = [received EXCEPT ![c.client] = @ \cup Range(c.subject)]
  /\ UNCHANGED <<authority, inner, next, caches, told, left>>

RpcAnswers(r) ==
  /\ Asking(r, {"account", "signatures", "valid"})
  /\ Set(r, End(calls[r], "ok"))
  /\ UNCHANGED <<authority, inner, next, caches, received, told, left>>

HashAnswered(r, h) ==
  /\ Asking(r, {"blockhash", "latest"})
  /\ calls[r].client \in Issuers[h]
  /\ Set(r, [calls[r] EXCEPT !.pc = "put", !.subject = <<h>>])
  /\ UNCHANGED <<authority, inner, next, caches, received, told, left>>

Sent(r) ==
  LET c == calls[r] IN
  /\ Asking(r, {"send"})
  /\ Set(r, [c EXCEPT !.pc = "put"])
  /\ received' = [received EXCEPT ![c.client] = @ \cup Range(c.subject)]
  /\ UNCHANGED <<authority, inner, next, caches, told, left>>

\* HashCache::put_async: a key that is present keeps its value, another one
\* may be evicted to make room.  The possible results, with what is evicted.
put_async(cache, key, client) ==
  IF cache[key] # None THEN {<<cache, {}>>}
  ELSE {<<[e \in DOMAIN cache |-> IF e = key THEN client
                                  ELSE IF e \in out THEN None ELSE cache[e]],
          out>> : out \in {{}} \cup {{e} : e \in {e \in DOMAIN cache :
                                                    cache[e] # None}}}

\* track and blockhashes.put_async, then the reply.
Remember(r) ==
  LET c == calls[r]
      key == Head(c.subject)
  IN
  /\ c.pc = "put"
  /\ \/ /\ c.method = "send"
        /\ \E p \in put_async(transactions, key, c.client) :
             transactions' = p[1] /\ evicted' = (evicted \ {key}) \cup p[2]
        /\ UNCHANGED blockhashes
     \/ /\ c.method # "send"
        /\ \E p \in put_async(blockhashes, key, c.client) :
             blockhashes' = p[1] /\ evicted' = (evicted \ {key}) \cup p[2]
        /\ UNCHANGED transactions
  /\ Set(r, End(c, "ok"))
  /\ told' = told \cup {key}
  /\ UNCHANGED <<authority, inner, next, received, left>>

-----------------------------------------------------------------------------
Start(r) ==
  \/ \E pk \in Accounts : account_info(r, pk) \/ delegation_status(r, pk)
  \/ \E pks \in PubkeyLists :
       multiple_accounts(r, pks) \/ blockhash_for_accounts(r, pks)
  \/ \E t \in Txns : send_transaction(r, t) \/ signature_subscribe(r, t)
  \/ \E u \in Upstreams : latest_blockhash(r, u) \/ identity(r, u)
  \/ \E sigs \in SignatureLists : signature_statuses(r, sigs)
  \/ \E h \in Hashes : is_blockhash_valid(r, h)

Serve(r) ==
  \/ Resolve(r) \/ Route(r) \/ Split(r) \/ AllParts(r) \/ Lookup(r)
  \/ Confirmation(r) \/ SignatureHandler(r)
  \/ \E i \in DOMAIN calls[r].pubkeys : JoinResolve(r, i)
  \/ RpcFails(r) \/ RpcAnswers(r) \/ Sent(r) \/ Remember(r)
  \/ \E h \in Hashes : HashAnswered(r, h)
  \/ \E part \in calls[r].requests :
       PartFailed(r, part) \/ PartAnswered(r, part)

Next ==
  \/ \E r \in Calls : Start(r) \/ Serve(r)
  \/ \E pk \in Accounts, v \in Authority : DelegationChange(pk, v)
  \/ \E v \in Ers : RouteChange(v)

Spec == Init /\ [][Next]_vars

-----------------------------------------------------------------------------
(* Properties                                                              *)

\* The type of every variable; the round robin stays in bounds.
TypeOK ==
  /\ authority \in [Accounts -> Authority]
  /\ inner \subseteq Ers
  /\ next \in 1 .. Len(BaseChain)
  /\ calls \in [Calls -> Call]
  /\ transactions \in [Txns -> Upstreams \cup {None}]
  /\ blockhashes \in [Hashes -> Upstreams \cup {None}]
  /\ received \in [Upstreams -> SUBSET Txns]
  /\ told \subseteq Txns \cup Hashes
  /\ evicted \subseteq Txns \cup Hashes
  /\ left \in [Bounds -> Nat]

\* The nodes that the accounts of a call were found delegated to.
Delegated(call) == Range(call.answers) \ {None, "pending"}

\* "all of the delegated writeable accounts in the transaction should be
\* delegated to the same ER, otherwise the method will return an error":
\* whatever changes between two lookups, a call goes to an ER node only if
\* that is the one node its accounts were found at, to the base chain only if
\* none was delegated, and it fails for a conflict exactly when there is one.
RoutedByAnswers ==
  \A r \in Calls : LET c == calls[r] IN
    c.method \in {"account", "blockhash", "send"} =>
      /\ c.client \in Ers => Delegated(c) = {c.client}
      /\ c.client \in Range(BaseChain) => Delegated(c) = {}
      /\ c.pc # "idle" =>
           (c.reply = "ConflictingDelegations" <=>
              \E u, v \in Delegated(c) : u # v)

\* Every account that the router returns stands at the position it was asked
\* for and comes from the upstream of its own delegation, in whichever order
\* the parts are answered, also when an account is asked for twice; and a
\* successful call has an answer for every position.
PositionsMatch ==
  \A r \in Calls : LET c == calls[r] IN
    /\ \A i \in DOMAIN c.response : c.response[i] # None =>
         /\ c.response[i].pk = c.pubkeys[i]
         /\ IF c.answers[i] = None THEN c.response[i].by \in Range(BaseChain)
            ELSE c.response[i].by = c.answers[i]
    /\ c.method = "multiple" /\ c.reply = "ok" =>
         DOMAIN c.response = DOMAIN c.pubkeys /\ None \notin Range(c.response)

\* "The matched route for the transaction signature will linger in the router
\* for a while": what a caller was told of (a signature, a blockhash) is known
\* to the router when it comes back, unless evicted; an upstream that is
\* remembered has received the transaction, or produced the blockhash; and so
\* has the upstream that is asked for one signature, subscribed to it, or asked
\* whether a blockhash is valid, whatever is evicted after the lookup.
Remembered ==
  /\ \A k \in told \ evicted :
       IF k \in Txns THEN transactions[k] # None ELSE blockhashes[k] # None
  /\ \A t \in Txns : transactions[t] # None => t \in received[transactions[t]]
  /\ \A h \in Hashes : blockhashes[h] # None => blockhashes[h] \in Issuers[h]
  /\ \A r \in Calls : LET c == calls[r] IN
       c.method \in {"signatures", "subscribe", "valid"} /\ c.client # None =>
         IF c.method = "valid" THEN c.client \in Issuers[Head(c.subject)]
         ELSE Head(c.subject) \in received[c.client]

\* "so, methods like `getSignatureStatuses` or `getTransaction` can be routed
\* to the same upstream": every signature of a call whose route the router
\* remembers is asked for at an upstream that has received it.
StatusesRouted ==
  \A r \in Calls : LET c == calls[r] IN
    c.method = "signatures" /\ c.pc = "ask" =>
      \A i \in DOMAIN c.subject :
        transactions[c.subject[i]] # None => c.subject[i] \in received[c.client]

=============================================================================
