--------------------------- MODULE DelegationsCache ---------------------------
(***************************************************************************)
(* The delegation cache of the router (src/src/cache/delegations.rs and    *)
(* the fill handle of src/src/accounts.rs): concurrent calls of get_record *)
(* over a bounded cache of delegation records, filled from the base chain  *)
(* over RPC and kept up to date by one updater task that reads the channel *)
(* of an external sync service.                                            *)
(*                                                                         *)
(* Every action is a segment of the code between two awaits: the cache is  *)
(* a concurrent map, so that each access to one entry is atomic, but a     *)
(* call may be overtaken (or cancelled) at every await.                    *)
(*                                                                         *)
(* Option values: None is Option::None of a record, and the slot 0 stands  *)
(* for the absent min_context_slot (neither restricts the RPC node).       *)
(***************************************************************************)
EXTENDS Integers, Sequences

CONSTANTS
  Pdas,             \* delegation-record addresses, the keys of the cache
  Calls,            \* concurrent get_record calls (request handlers)
  Fills,            \* identities (pointers) of PendingDelegationFill handles
  Records,          \* decodable delegation records
  None,             \* no record: the account is not delegated
  Garbage,          \* account data too short for ParsedDelegationRecord
  NoPda, NoFill,    \* absent address, absent fill handle
  Vacant,           \* the cache holds no entry for the address
  Rollback,         \* MIN_CONTEXT_SLOT_ROLLBACK
  MaxAttempts,      \* MAX_ACCOUNT_REFETCH_ATTEMPTS
  ReplayWindow,     \* external: slots the sync service replays on subscribe
  ChannelCapacity,  \* external: bound of the updates channel
  MaxSlot,          \* bound: slots the base chain produces
  Budget            \* bound: how often each fault below may happen

Recs == Records \cup {None}
Data == Recs \cup Garbage
Faults == {"evict", "cancel", "interrupt", "terminate", "exhaust"}
Locations == {"idle", "read", "await", "discard", "refetch", "remerge",
              "insert", "unsubscribe", "subscribe", "abandon", "detached",
              "claim", "select", "merge", "settle", "send"}

Fetched == [slot : Nat, record : Recs]
DelegationEntry == [slot : Nat, record : Recs, min : Nat,
                    fill : Fills \cup {NoFill}]
AccountUpdate == [type : {"update"}, pda : Pdas, slot : Nat, data : Data]
                   \cup [type : {"interrupted", "terminated"}]
FillState == [state : {"pending", "resolved", "cancelled"}, record : Recs]
Call == [pc : Locations, pda : Pdas \cup {NoPda},
         fill : Fills \cup {NoFill}, evicted : Pdas \cup {NoPda}, min : Nat,
         attempt : Nat, got : Fetched,
         watch : {"off", "armed", "signalled", "waiting"}]

ASSUME SentinelAssumption ==
  /\ None \notin Records
  /\ Garbage \cap Recs = {}
  /\ NoPda \notin Pdas
  /\ NoFill \notin Fills
  /\ Vacant \notin DelegationEntry

ASSUME BoundAssumption ==
  /\ Rollback \in Nat
  /\ ReplayWindow \in Nat
  /\ MaxAttempts \in Nat
  /\ MaxSlot \in Nat
  /\ ChannelCapacity \in Nat
  /\ Budget \in [Faults -> Nat]

VARIABLES
  chain,     \* external: chain[s][p] is the account data of p at slot s
  subs,      \* external: addresses the sync service follows
  cursor,    \* external: slot up to which the changes of p were sent
  alive,     \* external: the sync service has not terminated
  stream,    \* the channel of AccountUpdate messages
  db,        \* the cache
  fills,     \* state of the oneshot channel behind each fill handle
  calls,     \* local state of every get_record call
  clearing,  \* addresses the updater's clear_async has still to visit
  waking,    \* fill the updater took from an entry and has still to notify
  faults     \* what is left of Budget

sync == <<subs, cursor, alive>>
updater == <<clearing, waking>>
vars == <<chain, sync, stream, db, fills, calls, updater, faults>>

-----------------------------------------------------------------------------
now == Len(chain)

\* ParsedDelegationRecord::from_bytes: None when the data is too short.
from_bytes(d) == IF d \in Records THEN d ELSE None

\* Mutant: plain subtraction.
checked_sub_unchecked(a, b) == a - b

\* u64::checked_sub, with 0 for None.
checked_sub(a, b) == IF a >= b THEN a - b ELSE 0

Placeholder(f) == [slot |-> 0, record |-> None, min |-> 0, fill |-> f]
Installed(s, r) == [slot |-> s, record |-> r, min |-> 0, fill |-> NoFill]
Unresolved == [state |-> "pending", record |-> None]

Idle == [pc |-> "idle", pda |-> NoPda, fill |-> NoFill, evicted |-> NoPda,
         min |-> 0, attempt |-> 0, got |-> [slot |-> 0, record |-> None],
         watch |-> "off"]

At(t, loc) == calls[t].pc = loc
Goto(t, loc) == calls' = [calls EXCEPT ![t].pc = loc]

\* The call returns r to its caller; its locals are dropped.
Return(t, r) ==
  calls' = [calls EXCEPT ![t] =
              [Idle EXCEPT !.pda = calls[t].pda,
                           !.got = [slot |-> 0, record |-> r]]]

\* Locations at which the call owns the sending half of its fill handle.
OwnerLocs == {"unsubscribe", "subscribe", "abandon", "detached", "claim",
              "select", "merge", "settle", "send"}
Owns(t, f) == calls[t].pc \in OwnerLocs /\ calls[t].fill = f

\* The entry of the call's address is the placeholder of the fill it holds.
HoldsPlaceholder(t) ==
  LET e == db[calls[t].pda]
  IN  e # Vacant /\ e.slot = 0 /\ e.fill = calls[t].fill

\* Fill handles that some clone still points to; the address of any other
\* handle may be reused by the allocator.
Referenced == {calls[t].fill : t \in Calls} \cup {waking}
                \cup {db[p].fill : p \in {q \in Pdas : db[q] # Vacant}}

\* PendingDelegationFill::new: handles are interchangeable, any will do.
NewFill == CHOOSE f \in Fills : f \notin Referenced

\* Dropping the sending half of fill f before it was resolved.
drop_sender(f) == fills' = [fills EXCEPT ![f].state = "cancelled"]

Spend(k) == faults[k] > 0 /\ faults' = [faults EXCEPT ![k] = @ - 1]

Changed(p, s) == s > 1 /\ chain[s][p] # chain[s - 1][p]

-----------------------------------------------------------------------------
Init ==
  /\ chain \in {<<c>> : c \in [Pdas -> Data]}
  /\ subs = {}
  /\ cursor = [p \in Pdas |-> 0]
  /\ alive = TRUE
  /\ stream = <<>>
  /\ db = [p \in Pdas |-> Vacant]
  /\ fills = [f \in Fills |-> Unresolved]
  /\ calls = [t \in Calls |-> Idle]
  /\ clearing = {}
  /\ waking = NoFill
  /\ faults = Budget

-----------------------------------------------------------------------------
(* The base chain and the sync service (external).                         *)

\* A slot in which at most the delegation record of p changes.
ChainSlot(p, d) ==
  /\ now < MaxSlot
  /\ chain' = Append(chain, [chain[now] EXCEPT ![p] = d])
  /\ UNCHANGED <<sync, stream, db, fills, calls, updater, faults>>

\* The service sends the next change of an address it follows.
SyncDeliver(p, s) ==
  /\ alive /\ p \in subs
  /\ s \in cursor[p] + 1 .. now
  /\ Changed(p, s)
  /\ \A r \in cursor[p] + 1 .. s - 1 : ~ Changed(p, r)
  /\ Len(stream) < ChannelCapacity
  /\ stream' = Append(stream, [type |-> "update", pda |-> p, slot |-> s,
                               data |-> chain[s][p]])
  /\ cursor' = [cursor EXCEPT ![p] = s]
  /\ UNCHANGED <<chain, subs, alive, db, fills, calls, updater, faults>>

\* Replay continuity is lost: changes not sent so far are never sent.
SyncInterrupt ==
  /\ alive
  /\ Spend("interrupt")
  /\ Len(stream) < ChannelCapacity
  /\ stream' = Append(stream, [type |-> "interrupted"])
  /\ cursor' = [p \in Pdas |-> IF p \in subs THEN now ELSE cursor[p]]
  /\ UNCHANGED <<chain, subs, alive, db, fills, calls, updater>>

SyncTerminate ==
  /\ alive
  /\ Spend("terminate")
  /\ Len(stream) < ChannelCapacity
  /\ alive' = FALSE
  /\ stream' = Append(stream, [type |-> "terminated"])
  /\ UNCHANGED <<chain, subs, cursor, db, fills, calls, updater>>

-----------------------------------------------------------------------------
(* get_record                                                              *)

get_record(t, p) ==
  /\ At(t, "idle")
  /\ calls' = [calls EXCEPT ![t] = [Idle EXCEPT !.pc = "read", !.pda = p]]
  /\ UNCHANGED <<chain, sync, stream, db, fills, updater, faults>>

\* Mutant: a placeholder is taken for an answer.
ReadEntry_any_slot(t) ==
  LET e == db[calls[t].pda] IN
  /\ At(t, "read")
  /\ IF e = Vacant THEN Goto(t, "insert") ELSE Return(t, e.record)
  /\ UNCHANGED <<chain, sync, stream, db, fills, updater, faults>>

\* One read of the entry decides: answer, wait for its fill, fetch again
\* after a failed fill, or start a fill.
ReadEntry(t) ==
  LET e == db[calls[t].pda] IN
  /\ At(t, "read")
  /\ \/ e = Vacant /\ Goto(t, "insert")
     \/ e # Vacant /\ e.slot # 0 /\ Return(t, e.record)
     \/ /\ e # Vacant /\ e.slot = 0 /\ e.fill # NoFill
        /\ calls' = [calls EXCEPT ![t].pc = "await", ![t].fill = e.fill]
     \/ /\ e # Vacant /\ e.slot = 0 /\ e.fill = NoFill
        /\ calls' = [calls EXCEPT ![t].pc = "refetch", ![t].min = e.min]
  /\ UNCHANGED <<chain, sync, stream, db, fills, updater, faults>>

\* pending_fill.result().await: the owner's record, or its cancellation.
AwaitFill(t) ==
  LET f == fills[calls[t].fill] IN
  /\ At(t, "await")
  /\ \/ f.state = "resolved" /\ Return(t, f.record)
     \/ f.state = "cancelled" /\ Goto(t, "discard")
  /\ UNCHANGED <<chain, sync, stream, db, fills, updater, faults>>

\* remove_pending_fill by a waiter whose fill owner was cancelled.
DiscardCancelled(t) ==
  /\ At(t, "discard")
  /\ db' = IF HoldsPlaceholder(t)
             THEN [db EXCEPT ![calls[t].pda] = Vacant] ELSE db
  /\ calls' = [calls EXCEPT ![t].pc = "read", ![t].fill = NoFill]
  /\ UNCHANGED <<chain, sync, stream, fills, updater, faults>>

\* put_entry may evict any other entry: buckets are of fixed size.
insert_new(t, p, f) ==
  \/ /\ db' = [db EXCEPT ![p] = Placeholder(f)]
     /\ calls' = [calls EXCEPT ![t].pc = "subscribe", ![t].fill = f]
     /\ UNCHANGED faults
  \/ \E q \in Pdas \ {p} :
       /\ db[q] # Vacant
       /\ Spend("evict")
       /\ db' = [db EXCEPT ![p] = Placeholder(f), ![q] = Vacant]
       /\ calls' = [calls EXCEPT ![t].pc = "unsubscribe", ![t].fill = f,
                                 ![t].evicted = q]

InsertPlaceholder(t) ==
  LET p == calls[t].pda IN
  /\ At(t, "insert")
  /\ \/ /\ db[p] # Vacant
        /\ Goto(t, "read")
        /\ UNCHANGED <<db, fills, faults>>
     \/ /\ db[p] = Vacant
        /\ Fills \ Referenced # {}
        /\ fills' = [fills EXCEPT ![NewFill] = Unresolved]
        /\ insert_new(t, p, NewFill)
  /\ UNCHANGED <<chain, sync, stream, updater>>

UnsubscribeEvicted(t) ==
  /\ At(t, "unsubscribe")
  /\ subs' = IF alive THEN subs \ {calls[t].evicted} ELSE subs
  /\ calls' = [calls EXCEPT ![t].pc = "subscribe", ![t].evicted = NoPda]
  /\ UNCHANGED <<chain, cursor, alive, stream, db, fills, updater, faults>>

\* Mutant: the subscription slot is not turned into a min_context_slot.
subscribe_without_min(t) ==
  /\ At(t, "subscribe") /\ alive
  /\ subs' = subs \cup {calls[t].pda}
  /\ cursor' = [cursor EXCEPT ![calls[t].pda] = checked_sub(now, ReplayWindow)]
  /\ Goto(t, "claim")
  /\ UNCHANGED <<chain, alive, stream, db, fills, updater, faults>>

\* The service starts to follow p, replays the changes of its window (and
\* goes on with those it has still to send) and answers its current slot.
subscribe(t) ==
  LET p == calls[t].pda
      from == checked_sub(now, ReplayWindow)
  IN
  /\ At(t, "subscribe")
  /\ \/ /\ alive
        /\ subs' = subs \cup {p}
        /\ cursor' = [cursor EXCEPT
                        ![p] = IF p \in subs /\ @ < from THEN @ ELSE from]
        /\ calls' = [calls EXCEPT ![t].pc = "claim",
                                  ![t].min = checked_sub(now, Rollback)]
     \/ /\ ~ alive
        /\ Goto(t, "abandon")
        /\ UNCHANGED <<subs, cursor>>
  /\ UNCHANGED <<chain, alive, stream, db, fills, updater, faults>>

\* Mutant: the sending half outlives the iteration.
StartOver_leaks_sender(t) ==
  /\ calls' = [calls EXCEPT ![t].pc = "read", ![t].fill = NoFill,
                            ![t].min = 0]
  /\ UNCHANGED fills

\* The loop goes round; the fill handle of this iteration is dropped.
StartOver(t) ==
  /\ drop_sender(calls[t].fill)
  /\ calls' = [calls EXCEPT ![t].pc = "read", ![t].fill = NoFill,
                            ![t].min = 0]

\* No subscription: the placeholder goes, the record is fetched uncached.
AbandonPlaceholder(t) ==
  /\ At(t, "abandon")
  /\ \/ /\ HoldsPlaceholder(t)
        /\ db' = [db EXCEPT ![calls[t].pda] = Vacant]
        /\ Goto(t, "detached")
        /\ UNCHANGED fills
     \/ /\ ~ HoldsPlaceholder(t)
        /\ StartOver(t)
        /\ UNCHANGED db
  /\ UNCHANGED <<chain, sync, stream, updater, faults>>

ClaimPlaceholder(t) ==
  /\ At(t, "claim")
  /\ \/ /\ HoldsPlaceholder(t)
        /\ db' = [db EXCEPT ![calls[t].pda].min = calls[t].min]
        /\ Goto(t, "select")
        /\ UNCHANGED fills
     \/ /\ ~ HoldsPlaceholder(t)
        /\ StartOver(t)
        /\ UNCHANGED db
  /\ UNCHANGED <<chain, sync, stream, updater, faults>>

-----------------------------------------------------------------------------
(* fetch: up to MaxAttempts + 1 RPC requests, with backoff between them.   *)

Fetching == {"refetch", "detached", "select"}
AfterFetch == [refetch |-> "remerge", detached |-> "send",
               select |-> "merge"]

GotFetched(t, e) ==
  calls' = [calls EXCEPT ![t].pc = AfterFetch[calls[t].pc], ![t].got = e,
                         ![t].attempt = 0, ![t].watch = "off"]

\* The node answers from any slot that satisfies min_context_slot.
FetchAnswered(t, c) ==
  /\ calls[t].pc \in Fetching
  /\ c \in 1 .. now /\ c >= calls[t].min
  /\ GotFetched(t, [slot |-> c,
                    record |-> from_bytes(chain[c][calls[t].pda])])
  /\ UNCHANGED <<chain, sync, stream, db, fills, updater, faults>>

FetchFailed(t) ==
  /\ calls[t].pc \in Fetching
  /\ calls[t].attempt < MaxAttempts
  /\ calls' = [calls EXCEPT ![t].attempt = @ + 1]
  /\ UNCHANGED <<chain, sync, stream, db, fills, updater, faults>>

FetchExhausted(t) ==
  /\ calls[t].pc \in Fetching
  /\ calls[t].attempt = MaxAttempts
  /\ Spend("exhaust")
  /\ GotFetched(t, [slot |-> 0, record |-> None])
  /\ UNCHANGED <<chain, sync, stream, db, fills, updater>>

-----------------------------------------------------------------------------
(* stream_fill, raced against fetch: the Notified future is created first, *)
(* then the entry is read, then the future is awaited.                     *)

ArmNotified(t) ==
  /\ At(t, "select") /\ calls[t].watch = "off"
  /\ calls' = [calls EXCEPT ![t].watch = "armed"]
  /\ UNCHANGED <<chain, sync, stream, db, fills, updater, faults>>

ReadInstalled(t) ==
  LET e == db[calls[t].pda] IN
  /\ At(t, "select") /\ calls[t].watch \in {"armed", "signalled"}
  /\ calls' =
       IF e # Vacant /\ e.slot # 0
         THEN [calls EXCEPT ![t].pc = "settle", ![t].attempt = 0,
                            ![t].got = [slot |-> 0, record |-> e.record],
                            ![t].watch = "off"]
         ELSE [calls EXCEPT ![t].watch =
                 IF @ = "signalled" THEN "off" ELSE "waiting"]
  /\ UNCHANGED <<chain, sync, stream, db, fills, updater, faults>>

-----------------------------------------------------------------------------
\* Mutants: a late fetch overwrites whatever slot the stream installed, or
\* overwrites the record but not the slot.
merge_fetched_any_slot(e, new, f) ==
  [entry |-> IF e = Vacant \/ e.fill \notin {NoFill, f} THEN e
               ELSE Installed(new.slot, new.record),
   record |-> new.record]
merge_fetched_record_only(e, new, f) ==
  [entry |-> IF e = Vacant \/ e.fill \notin {NoFill, f} THEN e
               ELSE Installed(IF e.slot < new.slot THEN new.slot ELSE e.slot,
                              new.record),
   record |-> new.record]

\* merge_fetched: the entry and the record to answer with, given what was
\* fetched and the fill handle of the merging call (NoFill: none).
merge_fetched(e, new, f) ==
  IF e = Vacant \/ e.fill \notin {NoFill, f}
    THEN [entry |-> e, record |-> new.record]
  ELSE IF e.slot < new.slot
    THEN [entry |-> Installed(new.slot, new.record), record |-> new.record]
  ELSE [entry |-> e, record |-> e.record]

MergeRefetched(t) ==
  LET p == calls[t].pda
      m == merge_fetched(db[p], calls[t].got, NoFill)
  IN
  /\ At(t, "remerge")
  /\ db' = [db EXCEPT ![p] = m.entry]
  /\ Return(t, m.record)
  /\ UNCHANGED <<chain, sync, stream, fills, updater, faults>>

MergeOwned(t) ==
  LET p == calls[t].pda
      m == merge_fetched(db[p], calls[t].got, calls[t].fill)
  IN
  /\ At(t, "merge")
  /\ db' = [db EXCEPT ![p] = m.entry]
  /\ calls' = [calls EXCEPT ![t].pc = "settle", ![t].got.record = m.record]
  /\ UNCHANGED <<chain, sync, stream, fills, updater, faults>>

\* Take the handle out of the entry before resolving it.
SettleEntry(t) ==
  LET p == calls[t].pda IN
  /\ At(t, "settle")
  /\ db' = IF db[p] # Vacant /\ db[p].fill = calls[t].fill
             THEN [db EXCEPT ![p].fill = NoFill] ELSE db
  /\ Goto(t, "send")
  /\ UNCHANGED <<chain, sync, stream, fills, updater, faults>>

ResolveFill(t) ==
  /\ At(t, "send")
  /\ fills' = [fills EXCEPT ![calls[t].fill] =
                 [state |-> "resolved", record |-> calls[t].got.record]]
  /\ Return(t, calls[t].got.record)
  /\ UNCHANGED <<chain, sync, stream, db, updater, faults>>

\* The request is dropped by the server, at any await (none precedes "send").
Cancel(t) ==
  /\ calls[t].pc \notin {"idle", "send"}
  /\ Spend("cancel")
  /\ calls' = [calls EXCEPT ![t] = Idle]
  /\ \/ calls[t].pc \in OwnerLocs /\ drop_sender(calls[t].fill)
     \/ calls[t].pc \notin OwnerLocs /\ UNCHANGED fills
  /\ UNCHANGED <<chain, sync, stream, db, updater>>

-----------------------------------------------------------------------------
(* updater: one message at a time.                                         *)

Receive(type) ==
  /\ clearing = {} /\ waking = NoFill
  /\ stream # <<>> /\ Head(stream).type = type
  /\ stream' = Tail(stream)

\* An update reaches the cache only through an entry with an older slot.
Applicable(e, slot) == e # Vacant /\ e.slot < slot

\* Mutant: the fill handle is taken out of the entry and never notified.
update_cached_entry_silent ==
  LET u == Head(stream) IN
  /\ Receive("update")
  /\ IF Applicable(db[u.pda], u.slot)
       THEN db' = [db EXCEPT ![u.pda] = Installed(u.slot, from_bytes(u.data))]
       ELSE UNCHANGED db
  /\ UNCHANGED <<chain, sync, fills, calls, updater, faults>>

update_cached_entry ==
  LET u == Head(stream) IN
  /\ Receive("update")
  /\ IF Applicable(db[u.pda], u.slot)
       THEN /\ db' = [db EXCEPT ![u.pda] =
                        Installed(u.slot, from_bytes(u.data))]
            /\ waking' = db[u.pda].fill
       ELSE UNCHANGED <<db, waking>>
  /\ UNCHANGED <<chain, sync, fills, calls, clearing, faults>>

\* Notify::notify_waiters reaches the futures that exist at this moment.
notify_filled ==
  /\ waking # NoFill
  /\ waking' = NoFill
  /\ calls' = [t \in Calls |->
       IF At(t, "select") /\ calls[t].fill = waking
         THEN [calls[t] EXCEPT !.watch =
                 CASE @ = "armed"   -> "signalled"
                   [] @ = "waiting" -> "off"
                   [] OTHER         -> @]
         ELSE calls[t]]
  /\ UNCHANGED <<chain, sync, stream, db, fills, clearing, faults>>

\* Mutant: the entries survive the interruption.
SyncInterrupted_keeps_entries ==
  /\ Receive("interrupted")
  /\ UNCHANGED <<chain, sync, db, fills, calls, updater, faults>>

SyncInterrupted ==
  /\ Receive("interrupted")
  /\ clearing' = Pdas
  /\ UNCHANGED <<chain, sync, db, fills, calls, waking, faults>>

\* clear_async visits the buckets one after the other.
ClearEntry(p) ==
  /\ p \in clearing
  /\ clearing' = clearing \ {p}
  /\ db' = [db EXCEPT ![p] = Vacant]
  /\ UNCHANGED <<chain, sync, stream, fills, calls, waking, faults>>

SyncTerminated ==
  /\ Receive("terminated")
  /\ UNCHANGED <<chain, sync, db, fills, calls, updater, faults>>

-----------------------------------------------------------------------------
Fetch(t) ==
  (\E c \in 1 .. now : FetchAnswered(t, c)) \/ FetchFailed(t)
    \/ FetchExhausted(t)

Advance(t) ==
  \/ ReadEntry(t) \/ AwaitFill(t) \/ DiscardCancelled(t)
  \/ InsertPlaceholder(t) \/ UnsubscribeEvicted(t) \/ subscribe(t)
  \/ AbandonPlaceholder(t) \/ ClaimPlaceholder(t)
  \/ ArmNotified(t) \/ ReadInstalled(t)
  \/ MergeRefetched(t) \/ MergeOwned(t) \/ SettleEntry(t) \/ ResolveFill(t)

Updater ==
  \/ update_cached_entry \/ notify_filled \/ SyncInterrupted
  \/ (\E p \in Pdas : ClearEntry(p)) \/ SyncTerminated

Deliver == \E p \in Pdas : \E s \in 1 .. now : SyncDeliver(p, s)

Next ==
  \/ \E p \in Pdas, d \in Data : ChainSlot(p, d)
  \/ Deliver \/ SyncInterrupt \/ SyncTerminate
  \/ \E t \in Calls :
       (\E p \in Pdas : get_record(t, p)) \/ Advance(t) \/ Fetch(t) \/ Cancel(t)
  \/ Updater

Spec == Init /\ [][Next]_vars

-----------------------------------------------------------------------------
(* Fairness: the runtime polls every task that can go on, and the sync     *)
(* service sends what it has to send.  That a request to the RPC node ends *)
(* is an assumption of its own: only some properties need it.              *)

LiveSpec ==
  /\ Spec
  /\ \A t \in Calls : WF_vars(Advance(t))
  /\ WF_vars(Updater)
  /\ WF_vars(Deliver)

RpcEnds == \A t \in Calls : WF_vars(Fetch(t))

-----------------------------------------------------------------------------
(* Properties                                                              *)

\* The type of every variable.
TypeOK ==
  /\ chain \in Seq([Pdas -> Data]) /\ chain # <<>>
  /\ subs \subseteq Pdas
  /\ cursor \in [Pdas -> Nat]
  /\ alive \in BOOLEAN
  /\ stream \in Seq(AccountUpdate)
  /\ db \in [Pdas -> DelegationEntry \cup {Vacant}]
  /\ fills \in [Fills -> FillState]
  /\ calls \in [Calls -> Call]
  /\ clearing \subseteq Pdas
  /\ waking \in Fills \cup {NoFill}
  /\ faults \in [Faults -> Nat]

Filled(p) == db[p] # Vacant /\ db[p].slot # 0
Pending(p) == db[p] # Vacant /\ db[p].fill # NoFill

\* Nobody waits for an answer that nobody will give.  A call that waits on a
\* pending fill (get_record, pending_fill.result()) has a live owner call that
\* will resolve or drop it, and so has the fill of every placeholder in the
\* cache; a fill that was already resolved is no longer in the cache.
FillsOwned ==
  /\ \A t \in Calls :
       At(t, "await") /\ fills[calls[t].fill].state = "pending"
         => \E u \in Calls : Owns(u, calls[t].fill)
  /\ \A p \in Pdas : Pending(p) =>
       /\ fills[db[p].fill].state # "resolved"
       /\ fills[db[p].fill].state = "pending" =>
            \E u \in Calls : Owns(u, db[p].fill) /\ calls[u].pda = p

\* A filled entry pairs its slot with the record of that very slot, whichever
\* of merge_fetched and update_cached_entry wrote it, and in any order.
EntryFaithful ==
  \A p \in Pdas : Filled(p) =>
    /\ db[p].slot <= now
    /\ db[p].record = from_bytes(chain[db[p].slot][p])

Queued(p, s) ==
  \E i \in DOMAIN stream : stream[i].type = "update" /\ stream[i].pda = p
                             /\ stream[i].slot = s
Undelivered(p, s) == alive /\ p \in subs /\ s > cursor[p]
Dropping(p) ==
  \/ p \in clearing
  \/ \E i \in DOMAIN stream : stream[i].type \in {"interrupted", "terminated"}

\* The coherence strategy of the module's documentation: a change the chain
\* made to p after the slot of its filled entry is not lost.  Either it is on
\* its way to the updater, or the updater is about to drop the entry.
Coherent ==
  \A p \in Pdas : Filled(p) =>
    \A s \in db[p].slot + 1 .. now : Changed(p, s) =>
      Undelivered(p, s) \/ Queued(p, s) \/ Dropping(p)

\* What get_record returned is the record of the address at some slot, never
\* the None of a placeholder (slot 0) whose fill has not ended.
AnswersTrue ==
  \A t \in Calls : At(t, "idle") /\ calls[t].pda # NoPda =>
    \E s \in 1 .. now :
      calls[t].got.record = from_bytes(chain[s][calls[t].pda])

\* The cache implements the abstract DelegationView.
View == INSTANCE DelegationView
  WITH Unknown <- Vacant, Decode <- from_bytes,
       view <- [p \in Pdas |-> IF Filled(p)
                  THEN [slot |-> db[p].slot, record |-> db[p].record]
                  ELSE Vacant]
ImplementsView == View!Spec

\* Every get_record ends, whoever is cancelled or cleared on its way, if the
\* requests to the RPC node do.
CallsReturn ==
  RpcEnds => \A t \in Calls : ~ At(t, "idle") ~> At(t, "idle")

\* Once the chain is quiet the cache agrees with it for good.
Converges ==
  <>[](\A p \in Pdas : Filled(p) =>
         db[p].record = from_bytes(chain[now][p]))

\* "Serve it instead of keeping every waiter on this fill blocked behind the
\* RPC backoff": when an update of the address is in the channel, the owner of
\* its placeholder leaves the select although no fetch ever ends, unless an
\* interruption clears the entry.
StreamServes ==
  \A t \in Calls :
    At(t, "select") /\ HoldsPlaceholder(t)
        /\ (\E s \in 1 .. now : Queued(calls[t].pda, s))
      ~> ~ At(t, "select") \/ db[calls[t].pda] = Vacant

=============================================================================
