----------------------- MODULE DelegationsCacheProofs -----------------------
(***************************************************************************)
(* Theorems about the delegation cache, for every set of addresses, calls  *)
(* and fill handles and for every number of faults.                        *)
(***************************************************************************)
EXTENDS DelegationsCache, TLAPS

-----------------------------------------------------------------------------
(* Type correctness                                                        *)

Holding == OwnerLocs \cup {"await", "discard"}

\* A running call has an address, and where it uses a fill handle it has one.
LocalsOK ==
  \A t \in Calls :
    /\ calls[t].pc # "idle" => calls[t].pda \in Pdas
    /\ calls[t].pc \in Holding => calls[t].fill \in Fills

TypeInv == TypeOK /\ LocalsOK

\* The empty cache is well typed.
LEMMA TypeInit == Init => TypeInv
<1> SUFFICES ASSUME Init PROVE TypeInv
  OBVIOUS
<1>1. Idle \in Call /\ Idle.pc = "idle"
  BY DEF Idle, Call, Locations, Fetched, Recs
<1>2. Unresolved \in FillState
  BY DEF Unresolved, FillState, Recs
<1>3. calls \in [Calls -> Call] /\ fills \in [Fills -> FillState] /\ LocalsOK
  BY <1>1, <1>2 DEF Init, LocalsOK, Holding, OwnerLocs
<1>4. PICK c \in [Pdas -> Data] : chain = <<c>>
  BY DEF Init
<1>5. chain \in Seq([Pdas -> Data]) /\ chain # <<>>
  BY <1>4
<1>6. QED
  BY <1>3, <1>5, BoundAssumption DEF Init, TypeInv, TypeOK

USE DEF now

\* Spending a fault leaves a natural number of them.
LEMMA SpendType ==
  ASSUME faults \in [Faults -> Nat], NEW k \in Faults, Spend(k)
  PROVE  faults' \in [Faults -> Nat]
BY DEF Spend

\* Steps of the chain and of the sync service keep the types.
LEMMA TypeSync ==
  ASSUME TypeInv,
         \/ \E p \in Pdas, d \in Data : ChainSlot(p, d)
         \/ Deliver \/ SyncInterrupt \/ SyncTerminate
  PROVE  TypeInv'
<1>1. ASSUME NEW p \in Pdas, NEW d \in Data, ChainSlot(p, d) PROVE TypeInv'
  BY <1>1 DEF TypeInv, TypeOK, LocalsOK, ChainSlot, sync, updater
<1>2. ASSUME NEW p \in Pdas, NEW s \in 1 .. now, SyncDeliver(p, s)
      PROVE  TypeInv'
  BY <1>2 DEF TypeInv, TypeOK, LocalsOK, SyncDeliver, AccountUpdate, updater
<1>3. CASE SyncInterrupt
  BY <1>3, SpendType
     DEF TypeInv, TypeOK, LocalsOK, SyncInterrupt, AccountUpdate, updater, Faults
<1>4. CASE SyncTerminate
  <2>1. alive' \in BOOLEAN
    BY <1>4, Zenon DEF SyncTerminate
  <2>2. stream' \in Seq(AccountUpdate)
    BY <1>4 DEF TypeInv, TypeOK, SyncTerminate, AccountUpdate
  <2>3. faults' \in [Faults -> Nat]
    BY <1>4, SpendType DEF TypeInv, TypeOK, SyncTerminate, Faults
  <2> QED
    BY <1>4, <2>1, <2>2, <2>3
       DEF TypeInv, TypeOK, LocalsOK, SyncTerminate, updater
<1>5. QED
  BY <1>1, <1>2, <1>3, <1>4 DEF Deliver

\* The step of one call changes the locals of that call only.
LEMMA TypeCall ==
  ASSUME TypeInv, NEW t \in Calls, NEW c \in Call,
         c.pc # "idle" => c.pda \in Pdas,
         c.pc \in Holding => c.fill \in Fills,
         calls' = [calls EXCEPT ![t] = c],
         UNCHANGED <<chain, stream, updater, alive>>,
         subs' \subseteq Pdas, cursor' \in [Pdas -> Nat],
         db' \in [Pdas -> DelegationEntry \cup {Vacant}],
         fills' \in [Fills -> FillState],
         faults' \in [Faults -> Nat]
  PROVE  TypeInv'
BY DEF TypeInv, TypeOK, LocalsOK, updater

\* An occupied entry of the cache is a DelegationEntry.
LEMMA EntryType ==
  ASSUME TypeInv, NEW p \in Pdas, db[p] # Vacant
  PROVE  db[p] \in DelegationEntry
BY DEF TypeInv, TypeOK

\* The call goes to another location with its other locals.
LEMMA GotoType ==
  ASSUME TypeInv, NEW t \in Calls, NEW loc \in Locations,
         calls[t].pc # "idle", loc \in Holding => calls[t].pc \in Holding,
         Goto(t, loc),
         UNCHANGED <<chain, stream, updater, alive>>,
         subs' \subseteq Pdas, cursor' \in [Pdas -> Nat],
         db' \in [Pdas -> DelegationEntry \cup {Vacant}],
         fills' \in [Fills -> FillState],
         faults' \in [Faults -> Nat]
  PROVE  TypeInv'
<1> DEFINE c == [calls[t] EXCEPT !.pc = loc]
<1>1. c \in Call /\ c.pda = calls[t].pda /\ c.fill = calls[t].fill /\ c.pc = loc
  BY DEF TypeInv, TypeOK, Call
<1>2. calls' = [calls EXCEPT ![t] = c]
  BY DEF Goto
<1> QED
  BY <1>1, <1>2, TypeCall DEF TypeInv, LocalsOK

\* A call that returns a record keeps the types.
LEMMA ReturnType ==
  ASSUME TypeInv, NEW t \in Calls, NEW r \in Recs,
         calls[t].pc # "idle",
         Return(t, r),
         UNCHANGED <<chain, stream, updater, alive>>,
         subs' \subseteq Pdas, cursor' \in [Pdas -> Nat],
         db' \in [Pdas -> DelegationEntry \cup {Vacant}],
         fills' \in [Fills -> FillState],
         faults' \in [Faults -> Nat]
  PROVE  TypeInv'
<1> DEFINE c == [Idle EXCEPT !.pda = calls[t].pda,
                             !.got = [slot |-> 0, record |-> r]]
<1>1. c \in Call /\ c.pc = "idle"
  BY DEF TypeInv, TypeOK, LocalsOK, Call, Idle, Locations, Fetched
<1>2. calls' = [calls EXCEPT ![t] = c]
  BY DEF Return
<1> QED
  BY <1>1, <1>2, TypeCall DEF Holding, OwnerLocs

\* Dropping a sending half keeps the type of the fills.
LEMMA DropType ==
  ASSUME TypeInv, NEW f \in Fills, drop_sender(f)
  PROVE  fills' \in [Fills -> FillState]
<1>1. fills \in [Fills -> FillState]
  BY DEF TypeInv, TypeOK
<1>2. [fills[f] EXCEPT !.state = "cancelled"] \in FillState
  BY <1>1 DEF FillState
<1> QED
  BY <1>1, <1>2 DEF drop_sender

\* The steps of get_record up to the claim of its placeholder.
LEMMA TypeLookup ==
  ASSUME TypeInv, NEW t \in Calls,
         \/ \E p \in Pdas : get_record(t, p)
         \/ ReadEntry(t) \/ AwaitFill(t) \/ DiscardCancelled(t)
         \/ InsertPlaceholder(t) \/ UnsubscribeEvicted(t) \/ subscribe(t)
         \/ AbandonPlaceholder(t) \/ ClaimPlaceholder(t)
  PROVE  TypeInv'
<1> USE DEF Call, Locations, Holding, OwnerLocs, sync, updater, At
<1> DEFINE p == calls[t].pda
<1>0. /\ calls[t] \in Call
      /\ calls[t].pc # "idle" => calls[t].pda \in Pdas
      /\ calls[t].pc \in Holding => calls[t].fill \in Fills
  BY DEF TypeInv, TypeOK, LocalsOK
<1>1. ASSUME NEW q \in Pdas, get_record(t, q) PROVE TypeInv'
  <2>1. [Idle EXCEPT !.pc = "read", !.pda = q] \in Call
    BY DEF Idle, Fetched, Recs
  <2> QED
    BY <1>1, <2>1, TypeCall DEF TypeInv, TypeOK, get_record, Idle
<1>2. CASE ReadEntry(t)
  <2>1. CASE db[p] = Vacant
    BY <1>2, <2>1, <1>0, GotoType DEF ReadEntry, TypeInv, TypeOK
  <2>2. CASE db[p] # Vacant
    <3>1. p \in Pdas /\ db[p] \in DelegationEntry
      BY <1>0, <1>2, <2>2, EntryType DEF ReadEntry
    <3>2. CASE db[p].slot # 0
      BY <1>2, <2>2, <3>1, <3>2, ReturnType
         DEF ReadEntry, DelegationEntry, TypeInv, TypeOK
    <3>3. CASE db[p].slot = 0 /\ db[p].fill # NoFill
      <4> DEFINE c == [calls[t] EXCEPT !.pc = "await", !.fill = db[p].fill]
      <4>1. c \in Call /\ calls' = [calls EXCEPT ![t] = c]
            /\ c.pda \in Pdas /\ c.fill \in Fills
        BY <1>0, <1>2, <2>2, <3>1, <3>3 DEF ReadEntry, DelegationEntry
      <4> QED
        BY <1>2, <4>1, TypeCall DEF ReadEntry, TypeInv, TypeOK
    <3>4. CASE db[p].slot = 0 /\ db[p].fill = NoFill
      <4> DEFINE c == [calls[t] EXCEPT !.pc = "refetch", !.min = db[p].min]
      <4>1. c \in Call /\ calls' = [calls EXCEPT ![t] = c]
            /\ c.pda \in Pdas /\ c.pc = "refetch"
        BY <1>0, <1>2, <2>2, <3>1, <3>4 DEF ReadEntry, DelegationEntry
      <4> QED
        BY <1>2, <4>1, TypeCall DEF ReadEntry, TypeInv, TypeOK
    <3> QED
      BY <3>2, <3>3, <3>4
  <2> QED
    BY <2>1, <2>2
<1>3. CASE AwaitFill(t)
  <2>1. CASE Goto(t, "discard")
    BY <1>3, <2>1, GotoType DEF AwaitFill, TypeInv, TypeOK
  <2>2. CASE Return(t, fills[calls[t].fill].record)
    <3>1. fills[calls[t].fill].record \in Recs
      BY <1>0, <1>3 DEF AwaitFill, TypeInv, TypeOK, FillState
    <3> QED
      BY <1>3, <2>2, <3>1, ReturnType DEF AwaitFill, TypeInv, TypeOK
  <2> QED
    BY <1>3, <2>1, <2>2 DEF AwaitFill
<1>4. CASE DiscardCancelled(t)
  <2> DEFINE c == [calls[t] EXCEPT !.pc = "read", !.fill = NoFill]
  <2>1. c \in Call /\ calls' = [calls EXCEPT ![t] = c]
        /\ c.pda \in Pdas /\ c.pc = "read"
    BY <1>0, <1>4 DEF DiscardCancelled
  <2>2. db' \in [Pdas -> DelegationEntry \cup {Vacant}]
    BY <1>4 DEF DiscardCancelled, TypeInv, TypeOK
  <2>3. /\ UNCHANGED <<chain, stream, updater, alive>>
        /\ subs' \subseteq Pdas /\ cursor' \in [Pdas -> Nat]
        /\ fills' \in [Fills -> FillState] /\ faults' \in [Faults -> Nat]
    BY <1>4 DEF DiscardCancelled, TypeInv, TypeOK
  <2> HIDE DEF c
  <2> QED
    BY <2>1, <2>2, <2>3, TypeCall
<1>5. CASE InsertPlaceholder(t)
  <2>1. CASE db[p] # Vacant
    BY <1>5, <2>1, <1>0, GotoType DEF InsertPlaceholder, TypeInv, TypeOK
  <2>2. CASE db[p] = Vacant
    <3> DEFINE f == NewFill
    <3>1. f \in Fills
      BY <1>5, <2>2 DEF InsertPlaceholder, NewFill
    <3>2. Placeholder(f) \in DelegationEntry /\ Unresolved \in FillState
      BY <3>1 DEF Placeholder, DelegationEntry, Unresolved, FillState, Recs
    <3>3. fills' \in [Fills -> FillState]
      BY <1>5, <2>2, <3>2 DEF InsertPlaceholder, TypeInv, TypeOK
    <3>4. CASE /\ db' = [db EXCEPT ![p] = Placeholder(f)]
               /\ calls' = [calls EXCEPT ![t].pc = "subscribe", ![t].fill = f]
               /\ UNCHANGED faults
      <4> DEFINE c == [calls[t] EXCEPT !.pc = "subscribe", !.fill = f]
      <4>1. c \in Call /\ calls' = [calls EXCEPT ![t] = c]
            /\ c.pda \in Pdas /\ c.fill \in Fills
        BY <1>0, <1>5, <3>1, <3>4 DEF InsertPlaceholder
      <4>2. db' \in [Pdas -> DelegationEntry \cup {Vacant}]
        BY <3>2, <3>4 DEF TypeInv, TypeOK
      <4> HIDE DEF c
      <4> QED
        BY <1>5, <3>3, <3>4, <4>1, <4>2, TypeCall, ZenonT(60)
           DEF InsertPlaceholder, TypeInv, TypeOK
    <3>5. ASSUME NEW q \in Pdas, Spend("evict"),
                 db' = [db EXCEPT ![p] = Placeholder(f), ![q] = Vacant],
                 calls' = [calls EXCEPT ![t].pc = "unsubscribe",
                                        ![t].fill = f, ![t].evicted = q]
          PROVE  TypeInv'
      <4> DEFINE c == [calls[t] EXCEPT !.pc = "unsubscribe", !.fill = f,
                                       !.evicted = q]
      <4>1. c \in Call /\ calls' = [calls EXCEPT ![t] = c]
            /\ c.pda \in Pdas /\ c.fill \in Fills
        BY <1>0, <1>5, <3>1, <3>5 DEF InsertPlaceholder
      <4>2. db' \in [Pdas -> DelegationEntry \cup {Vacant}]
        BY <3>2, <3>5 DEF TypeInv, TypeOK
      <4>3. faults' \in [Faults -> Nat]
        BY <3>5, SpendType DEF Faults, TypeInv, TypeOK
      <4> QED
        BY <1>5, <3>3, <4>1, <4>2, <4>3, TypeCall
           DEF InsertPlaceholder, TypeInv, TypeOK
    <3> QED
      BY <1>5, <2>2, <3>4, <3>5 DEF InsertPlaceholder, insert_new
  <2> QED
    BY <2>1, <2>2
<1>6. CASE UnsubscribeEvicted(t)
  <2> DEFINE c == [calls[t] EXCEPT !.pc = "subscribe", !.evicted = NoPda]
  <2>1. c \in Call /\ calls' = [calls EXCEPT ![t] = c]
        /\ c.pda \in Pdas /\ c.fill \in Fills
    BY <1>0, <1>6 DEF UnsubscribeEvicted
  <2>2. /\ UNCHANGED <<chain, stream, updater, alive>>
        /\ subs' \subseteq Pdas /\ cursor' \in [Pdas -> Nat]
        /\ db' \in [Pdas -> DelegationEntry \cup {Vacant}]
        /\ fills' \in [Fills -> FillState] /\ faults' \in [Faults -> Nat]
    BY <1>6 DEF UnsubscribeEvicted, TypeInv, TypeOK
  <2> HIDE DEF c
  <2> QED
    BY <2>1, <2>2, TypeCall
<1>7. CASE subscribe(t)
  <2>1. now \in Nat
    BY DEF TypeInv, TypeOK
  <2>2. /\ checked_sub(now, ReplayWindow) \in Nat
        /\ checked_sub(now, Rollback) \in Nat
    BY <2>1, BoundAssumption DEF checked_sub
  <2>3. CASE ~ alive
    BY <1>7, <2>3, GotoType DEF subscribe, TypeInv, TypeOK
  <2>4. CASE alive
    <3> DEFINE c == [calls[t] EXCEPT !.pc = "claim",
                                     !.min = checked_sub(now, Rollback)]
    <3>1. c \in Call /\ calls' = [calls EXCEPT ![t] = c]
          /\ c.pda \in Pdas /\ c.fill \in Fills
      BY <1>0, <1>7, <2>2, <2>4 DEF subscribe
    <3>2. cursor' \in [Pdas -> Nat] /\ subs' \subseteq Pdas
      BY <1>0, <1>7, <2>2, <2>4 DEF subscribe, TypeInv, TypeOK
    <3> QED
      BY <1>7, <3>1, <3>2, TypeCall DEF subscribe, TypeInv, TypeOK
  <2> QED
    BY <2>3, <2>4
<1>8. ASSUME StartOver(t), calls[t].pc \in Holding, UNCHANGED db,
             UNCHANGED <<chain, sync, stream, updater, faults>>
      PROVE  TypeInv'
  <2> DEFINE c == [calls[t] EXCEPT !.pc = "read", !.fill = NoFill, !.min = 0]
  <2>1. c \in Call /\ calls' = [calls EXCEPT ![t] = c]
        /\ c.pda \in Pdas /\ c.pc = "read"
    BY <1>0, <1>8 DEF StartOver
  <2>2. fills' \in [Fills -> FillState]
    <3>0. calls[t].fill \in Fills
      BY <1>0, <1>8
    <3> QED
      BY <1>8, <3>0, DropType DEF StartOver
  <2> QED
    BY <1>8, <2>1, <2>2, TypeCall DEF TypeInv, TypeOK
<1>9. CASE AbandonPlaceholder(t)
  <2>1. CASE HoldsPlaceholder(t)
    <3>1. db' \in [Pdas -> DelegationEntry \cup {Vacant}]
      BY <1>9, <2>1 DEF AbandonPlaceholder, TypeInv, TypeOK
    <3> QED
      BY <1>9, <2>1, <3>1, GotoType DEF AbandonPlaceholder, TypeInv, TypeOK
  <2>2. CASE ~ HoldsPlaceholder(t)
    BY <1>8, <1>9, <2>2 DEF AbandonPlaceholder
  <2> QED
    BY <2>1, <2>2
<1>10. CASE ClaimPlaceholder(t)
  <2>1. CASE HoldsPlaceholder(t)
    <3>1. db[p] # Vacant /\ p \in Pdas
      BY <1>0, <1>10, <2>1 DEF ClaimPlaceholder, HoldsPlaceholder
    <3>2. db[p] \in DelegationEntry
      BY <3>1, EntryType
    <3>3. [db[p] EXCEPT !.min = calls[t].min] \in DelegationEntry
      BY <1>0, <3>2 DEF DelegationEntry
    <3>4. db' = [db EXCEPT ![p] = [db[p] EXCEPT !.min = calls[t].min]]
      BY <1>10, <2>1 DEF ClaimPlaceholder
    <3>5. db' \in [Pdas -> DelegationEntry \cup {Vacant}]
      BY <3>3, <3>4 DEF TypeInv, TypeOK
    <3> QED
      BY <1>10, <2>1, <3>5, GotoType DEF ClaimPlaceholder, TypeInv, TypeOK
  <2>2. CASE ~ HoldsPlaceholder(t)
    BY <1>8, <1>10, <2>2 DEF ClaimPlaceholder
  <2> QED
    BY <2>1, <2>2
<1> QED
  BY <1>1, <1>2, <1>3, <1>4, <1>5, <1>6, <1>7, <1>9, <1>10

\* What merge_fetched makes of an entry is an entry, its answer a record.
LEMMA MergeType ==
  ASSUME NEW e \in DelegationEntry \cup {Vacant}, NEW new \in Fetched, NEW f
  PROVE  /\ merge_fetched(e, new, f).entry \in DelegationEntry \cup {Vacant}
         /\ merge_fetched(e, new, f).record \in Recs
<1>1. Installed(new.slot, new.record) \in DelegationEntry /\ new.record \in Recs
  BY DEF Installed, DelegationEntry, Fetched
<1>2. e # Vacant => e.record \in Recs
  BY DEF DelegationEntry
<1> QED
  BY <1>1, <1>2 DEF merge_fetched

\* from_bytes answers a record or None, whatever the bytes are.
LEMMA DecodeType == ASSUME NEW d PROVE from_bytes(d) \in Recs
BY DEF from_bytes, Recs

\* The steps of get_record from its fetch to its answer.
LEMMA TypeFill ==
  ASSUME TypeInv, NEW t \in Calls,
         \/ Fetch(t) \/ ArmNotified(t) \/ ReadInstalled(t)
         \/ MergeRefetched(t) \/ MergeOwned(t)
         \/ SettleEntry(t) \/ ResolveFill(t) \/ Cancel(t)
  PROVE  TypeInv'
<1> USE DEF Locations, Holding, OwnerLocs, sync, updater, At
<1> DEFINE p == calls[t].pda
<1>0. /\ calls[t] \in Call
      /\ calls[t].pc # "idle" => calls[t].pda \in Pdas
      /\ calls[t].pc \in Holding => calls[t].fill \in Fills
  BY DEF TypeInv, TypeOK, LocalsOK
<1>1. ASSUME NEW e \in Fetched, calls[t].pc \in Fetching, GotFetched(t, e),
             faults' \in [Faults -> Nat],
             UNCHANGED <<chain, sync, stream, db, fills, updater>>
      PROVE  TypeInv'
  <2> DEFINE c == [calls[t] EXCEPT !.pc = AfterFetch[calls[t].pc], !.got = e,
                                   !.attempt = 0, !.watch = "off"]
  <2>1. AfterFetch[calls[t].pc] \in {"remerge", "send", "merge"}
        /\ (AfterFetch[calls[t].pc] \in Holding => calls[t].pc \in Holding)
    BY <1>1 DEF Fetching, AfterFetch
  <2>2. c \in Call /\ c.pda = p /\ c.fill = calls[t].fill
        /\ c.pc = AfterFetch[calls[t].pc]
    BY <1>0, <1>1, <2>1 DEF Call
  <2>3. calls' = [calls EXCEPT ![t] = c]
    BY <1>1 DEF GotFetched
  <2>4. c.pda \in Pdas /\ (c.pc \in Holding => c.fill \in Fills)
    BY <1>0, <1>1, <2>1, <2>2 DEF Fetching
  <2>5. /\ UNCHANGED <<chain, stream, updater, alive>>
        /\ subs' \subseteq Pdas /\ cursor' \in [Pdas -> Nat]
        /\ db' \in [Pdas -> DelegationEntry \cup {Vacant}]
        /\ fills' \in [Fills -> FillState]
    BY <1>1 DEF TypeInv, TypeOK
  <2> HIDE DEF c
  <2> QED
    BY <1>1, <2>2, <2>3, <2>4, <2>5, TypeCall
<1>2. ASSUME NEW s \in 1 .. now, FetchAnswered(t, s) PROVE TypeInv'
  <2>1. [slot |-> s, record |-> from_bytes(chain[s][p])] \in Fetched
    BY DecodeType DEF Fetched
  <2> QED
    BY <1>1, <1>2, <2>1 DEF FetchAnswered, TypeInv, TypeOK
<1>3. CASE FetchFailed(t)
  <2> DEFINE c == [calls[t] EXCEPT !.attempt = @ + 1]
  <2>1. c \in Call /\ c.pda = p /\ c.fill = calls[t].fill /\ c.pc = calls[t].pc
    BY <1>0 DEF Call
  <2>2. calls' = [calls EXCEPT ![t] = c]
    BY <1>3 DEF FetchFailed
  <2> HIDE DEF c
  <2> QED
    BY <1>0, <1>3, <2>1, <2>2, TypeCall DEF FetchFailed, TypeInv, TypeOK
<1>4. CASE FetchExhausted(t)
  <2>1. [slot |-> 0, record |-> None] \in Fetched
    BY DEF Fetched, Recs
  <2>2. faults' \in [Faults -> Nat]
    BY <1>4, SpendType DEF FetchExhausted, Faults, TypeInv, TypeOK
  <2> QED
    BY <1>1, <1>4, <2>1, <2>2 DEF FetchExhausted
<1>5. ASSUME NEW w \in {"off", "armed", "signalled", "waiting"},
             calls' = [calls EXCEPT ![t].watch = w],
             UNCHANGED <<chain, sync, stream, db, fills, updater, faults>>
      PROVE  TypeInv'
  <2> DEFINE c == [calls[t] EXCEPT !.watch = w]
  <2>1. c \in Call /\ c.pda = p /\ c.fill = calls[t].fill /\ c.pc = calls[t].pc
    BY <1>0 DEF Call
  <2>2. calls' = [calls EXCEPT ![t] = c]
    BY <1>5
  <2> HIDE DEF c
  <2> QED
    BY <1>0, <1>5, <2>1, <2>2, TypeCall DEF TypeInv, TypeOK
<1>6. CASE ArmNotified(t)
  BY <1>5, <1>6 DEF ArmNotified
<1>7. CASE ReadInstalled(t)
  <2>1. CASE db[p] # Vacant /\ db[p].slot # 0
    <3> DEFINE c == [calls[t] EXCEPT !.pc = "settle", !.attempt = 0,
                       !.got = [slot |-> 0, record |-> db[p].record],
                       !.watch = "off"]
    <3>1. p \in Pdas /\ calls[t].fill \in Fills
      BY <1>0, <1>7 DEF ReadInstalled
    <3>2. db[p].record \in Recs
      BY <2>1, <3>1, EntryType DEF DelegationEntry
    <3>3. c \in Call /\ c.pda \in Pdas /\ c.fill \in Fills
      BY <1>0, <3>1, <3>2 DEF Call, Fetched
    <3>4. calls' = [calls EXCEPT ![t] = c]
      BY <1>7, <2>1 DEF ReadInstalled
    <3> HIDE DEF c
    <3> QED
      BY <1>7, <3>3, <3>4, TypeCall DEF ReadInstalled, TypeInv, TypeOK
  <2>2. CASE ~ (db[p] # Vacant /\ db[p].slot # 0)
    <3>1. CASE calls[t].watch = "signalled"
      <4>1. calls' = [calls EXCEPT ![t].watch = "off"]
        BY <1>7, <2>2, <3>1 DEF ReadInstalled
      <4> QED
        BY <1>5, <1>7, <4>1 DEF ReadInstalled
    <3>2. CASE calls[t].watch # "signalled"
      <4>1. calls' = [calls EXCEPT ![t].watch = "waiting"]
        BY <1>7, <2>2, <3>2 DEF ReadInstalled
      <4> QED
        BY <1>5, <1>7, <4>1 DEF ReadInstalled
    <3> QED
      BY <3>1, <3>2
  <2> QED
    BY <2>1, <2>2
<1>8. ASSUME NEW m, NEW f, m = merge_fetched(db[p], calls[t].got, f), p \in Pdas
      PROVE  /\ [db EXCEPT ![p] = m.entry]
                    \in [Pdas -> DelegationEntry \cup {Vacant}]
             /\ m.record \in Recs
  <2>1. db[p] \in DelegationEntry \cup {Vacant} /\ calls[t].got \in Fetched
    BY <1>0, <1>8 DEF TypeInv, TypeOK, Call
  <2>2. m.entry \in DelegationEntry \cup {Vacant} /\ m.record \in Recs
    BY <1>8, <2>1, MergeType
  <2> QED
    BY <2>2 DEF TypeInv, TypeOK
<1>9. CASE MergeRefetched(t)
  <2> DEFINE m == merge_fetched(db[p], calls[t].got, NoFill)
  <2>1. db' \in [Pdas -> DelegationEntry \cup {Vacant}] /\ m.record \in Recs
    BY <1>0, <1>8, <1>9 DEF MergeRefetched
  <2>2. Return(t, m.record)
    BY <1>9 DEF MergeRefetched
  <2> HIDE DEF m
  <2> QED
    BY <1>9, <2>1, <2>2, ReturnType DEF MergeRefetched, TypeInv, TypeOK
<1>10. CASE MergeOwned(t)
  <2> DEFINE m == merge_fetched(db[p], calls[t].got, calls[t].fill)
             c == [calls[t] EXCEPT !.pc = "settle", !.got.record = m.record]
  <2>1. db' \in [Pdas -> DelegationEntry \cup {Vacant}] /\ m.record \in Recs
    BY <1>0, <1>8, <1>10 DEF MergeOwned
  <2>2. calls' = [calls EXCEPT ![t] = c]
    BY <1>10 DEF MergeOwned
  <2> HIDE DEF m
  <2>3. c \in Call /\ c.pda \in Pdas /\ c.fill \in Fills
    BY <1>0, <1>10, <2>1 DEF Call, Fetched, MergeOwned
  <2> HIDE DEF c
  <2> QED
    BY <1>10, <2>1, <2>2, <2>3, TypeCall DEF MergeOwned, TypeInv, TypeOK
<1>11. CASE SettleEntry(t)
  <2>1. ASSUME db[p] # Vacant
        PROVE  [db[p] EXCEPT !.fill = NoFill] \in DelegationEntry
    BY <1>0, <1>11, <2>1, EntryType DEF SettleEntry, DelegationEntry
  <2>2. db' \in [Pdas -> DelegationEntry \cup {Vacant}]
    BY <1>11, <2>1 DEF SettleEntry, TypeInv, TypeOK
  <2> QED
    BY <1>11, <2>2, GotoType DEF SettleEntry, TypeInv, TypeOK
<1>12. CASE ResolveFill(t)
  <2>1. calls[t].got.record \in Recs
    BY <1>0 DEF Call, Fetched
  <2>2. fills' \in [Fills -> FillState]
    BY <1>12, <2>1 DEF ResolveFill, FillState, TypeInv, TypeOK
  <2> QED
    BY <1>12, <2>1, <2>2, ReturnType DEF ResolveFill, TypeInv, TypeOK
<1>13. CASE Cancel(t)
  <2>1. Idle \in Call /\ Idle.pc = "idle"
    BY DEF Idle, Call, Fetched, Recs
  <2>2. fills' \in [Fills -> FillState]
    BY <1>0, <1>13, DropType DEF Cancel, TypeInv, TypeOK
  <2>3. faults' \in [Faults -> Nat]
    BY <1>13, SpendType DEF Cancel, Faults, TypeInv, TypeOK
  <2> QED
    BY <1>13, <2>1, <2>2, <2>3, TypeCall DEF Cancel, TypeInv, TypeOK
<1> QED
  BY <1>2, <1>3, <1>4, <1>6, <1>7, <1>9, <1>10, <1>11, <1>12, <1>13 DEF Fetch

\* The steps of the updater.
LEMMA TypeUpdater == ASSUME TypeInv, Updater PROVE TypeInv'
<1> USE DEF sync, updater
<1>1. CASE update_cached_entry
  <2> DEFINE u == Head(stream)
  <2>1. u \in AccountUpdate /\ u.type = "update" /\ stream # <<>>
        /\ stream' = Tail(stream)
    BY <1>1 DEF update_cached_entry, Receive, TypeInv, TypeOK
  <2>2. u.pda \in Pdas /\ u.slot \in Nat
    BY <2>1 DEF AccountUpdate
  <2>3. Installed(u.slot, from_bytes(u.data)) \in DelegationEntry
    BY <2>2, DecodeType DEF Installed, DelegationEntry
  <2>4. stream' \in Seq(AccountUpdate)
    BY <2>1 DEF TypeInv, TypeOK
  <2>5. db' \in [Pdas -> DelegationEntry \cup {Vacant}]
    BY <1>1, <2>3 DEF update_cached_entry, TypeInv, TypeOK
  <2>6. waking' \in Fills \cup {NoFill}
    <3>1. ASSUME Applicable(db[u.pda], u.slot)
          PROVE  db[u.pda].fill \in Fills \cup {NoFill}
      BY <2>2, <3>1, EntryType DEF Applicable, DelegationEntry
    <3> QED
      BY <1>1, <3>1 DEF update_cached_entry, TypeInv, TypeOK
  <2> QED
    BY <1>1, <2>4, <2>5, <2>6 DEF update_cached_entry, TypeInv, TypeOK, LocalsOK
<1>2. CASE notify_filled
  <2>1. ASSUME NEW t \in Calls
        PROVE  /\ calls'[t] \in Call
               /\ calls'[t].pc = calls[t].pc /\ calls'[t].pda = calls[t].pda
               /\ calls'[t].fill = calls[t].fill
    <3>1. calls[t] \in Call
      BY DEF TypeInv, TypeOK
    <3> DEFINE w == CASE calls[t].watch = "armed"   -> "signalled"
                      [] calls[t].watch = "waiting" -> "off"
                      [] OTHER                      -> calls[t].watch
    <3>2. w \in {"off", "armed", "signalled", "waiting"}
      BY <3>1 DEF Call
    <3>3. calls'[t] \in {calls[t], [calls[t] EXCEPT !.watch = w]}
      BY <1>2 DEF notify_filled
    <3> HIDE DEF w
    <3> QED
      BY <3>1, <3>2, <3>3 DEF Call
  <2>2. calls' \in [Calls -> Call]
    <3>1. DOMAIN calls' = Calls /\ calls' = [t \in Calls |-> calls'[t]]
      BY <1>2 DEF notify_filled
    <3> QED
      BY <2>1, <3>1
  <2> QED
    BY <1>2, <2>1, <2>2 DEF notify_filled, TypeInv, TypeOK, LocalsOK
<1>3. CASE SyncInterrupted
  BY <1>3 DEF SyncInterrupted, Receive, TypeInv, TypeOK, LocalsOK
<1>4. ASSUME NEW p \in Pdas, ClearEntry(p) PROVE TypeInv'
  BY <1>4 DEF ClearEntry, TypeInv, TypeOK, LocalsOK
<1>5. CASE SyncTerminated
  BY <1>5 DEF SyncTerminated, Receive, TypeInv, TypeOK, LocalsOK
<1> QED
  BY <1>1, <1>2, <1>3, <1>4, <1>5 DEF Updater

\* Every step keeps the types.
LEMMA TypeStep == TypeInv /\ [Next]_vars => TypeInv'
<1>1. ASSUME TypeInv, UNCHANGED vars PROVE TypeInv'
  BY <1>1 DEF TypeInv, TypeOK, LocalsOK, vars, sync, updater
<1> QED
  BY <1>1, TypeSync, TypeLookup, TypeFill, TypeUpdater DEF Next, Advance

\* Every variable keeps its type, a running call keeps an address and the
\* call that uses a fill handle (await, settle, send) has one.
THEOREM TypeCorrect == Spec => []TypeOK
<1>1. Spec => []TypeInv
  BY TypeInit, TypeStep, PTL DEF Spec
<1> QED
  BY <1>1, PTL DEF TypeInv

-----------------------------------------------------------------------------
(* Nobody waits in vain: the single-flight protocol of get_record gives    *)
(* every pending fill exactly one owner, whoever is cancelled, evicted or  *)
(* cleared in between.                                                     *)

\* The sending half of a fill exists once, and the fill is then unresolved.
OwnersPending ==
  \A t \in Calls : calls[t].pc \in OwnerLocs =>
    fills[calls[t].fill].state = "pending"
OwnersDistinct ==
  \A t, u \in Calls :
    /\ calls[t].pc \in OwnerLocs /\ calls[u].pc \in OwnerLocs
    /\ calls[t].fill = calls[u].fill
    => t = u

\* A waiter's fill, and a placeholder's, has ended or has an owner.
WaitersOwned ==
  \A t \in Calls :
    At(t, "await") /\ fills[calls[t].fill].state = "pending"
      => \E u \in Calls : Owns(u, calls[t].fill)
EntriesOwned ==
  \A p \in Pdas : Pending(p) =>
    /\ fills[db[p].fill].state # "resolved"
    /\ fills[db[p].fill].state = "pending" =>
         \E u \in Calls : Owns(u, db[p].fill) /\ calls[u].pda = p

\* A fill about to be resolved is not in the cache any more: this is what
\* makes the order of the last two statements of get_record matter.
Detached == {"detached", "send"}
SendersDetached ==
  \A t \in Calls, p \in Pdas :
    calls[t].pc \in Detached /\ db[p] # Vacant => db[p].fill # calls[t].fill

FillInv == /\ OwnersPending /\ OwnersDistinct
           /\ WaitersOwned /\ EntriesOwned /\ SendersDetached

\* At the start nobody waits and nothing is pending.
LEMMA FillInit == Init => FillInv
BY DEF Init, Idle, FillInv, OwnersPending, OwnersDistinct, WaitersOwned,
       EntriesOwned, SendersDetached, Detached, OwnerLocs, At, Pending

\* Steps that hand no fill over: entries only lose handles, owners stay.
Frame ==
  /\ fills' = fills
  /\ \A t \in Calls :
       /\ calls'[t].pc \in OwnerLocs <=> calls[t].pc \in OwnerLocs
       /\ calls[t].pc \in OwnerLocs =>
            calls'[t].fill = calls[t].fill /\ calls'[t].pda = calls[t].pda
       /\ calls'[t].pc = "await" =>
            calls[t].pc = "await" /\ calls'[t].fill = calls[t].fill
       /\ calls'[t].pc \in Detached => calls[t].pc \in Detached
  /\ \A p \in Pdas : db'[p] # Vacant =>
       db[p] # Vacant /\ db'[p].fill \in {db[p].fill, NoFill}

\* A step that adds no waiter, owner or handle keeps the invariant.
LEMMA FillFrame == ASSUME FillInv, TypeInv, Frame PROVE FillInv'
<1>0. \A u \in Calls : \A f : Owns(u, f) =>
        calls'[u].pc \in OwnerLocs /\ calls'[u].fill = f
          /\ calls'[u].pda = calls[u].pda
  BY DEF Frame, Owns
<1>1. OwnersPending' /\ OwnersDistinct'
  BY DEF FillInv, Frame, OwnersPending, OwnersDistinct
<1>2. WaitersOwned'
  BY <1>0 DEF FillInv, Frame, WaitersOwned, At, Owns
<1>3. EntriesOwned'
  BY <1>0 DEF FillInv, Frame, EntriesOwned, Pending, Owns
<1>4. SendersDetached'
  <2> SUFFICES ASSUME NEW t \in Calls, NEW p \in Pdas,
                      calls'[t].pc \in Detached, db'[p] # Vacant
               PROVE  db'[p].fill # calls'[t].fill
    BY DEF SendersDetached
  <2>1. /\ calls[t].pc \in Detached /\ calls'[t].fill = calls[t].fill
        /\ calls[t].fill \in Fills
    BY DEF Frame, Detached, OwnerLocs, TypeInv, LocalsOK, Holding
  <2> QED
    BY <2>1, SentinelAssumption DEF Frame, FillInv, SendersDetached
<1> QED
  BY <1>1, <1>2, <1>3, <1>4 DEF FillInv

\* The owner t drops its sending half: the fill is cancelled.
LEMMA FillDrop ==
  ASSUME FillInv, TypeInv, NEW t \in Calls, NEW c,
         calls[t].pc \in OwnerLocs, drop_sender(calls[t].fill),
         calls' = [calls EXCEPT ![t] = c], c.pc \notin OwnerLocs \cup {"await"},
         db' = db
  PROVE  FillInv'
<1> DEFINE f == calls[t].fill
<1>0. /\ f \in Fills /\ fills'[f].state = "cancelled"
      /\ \A g \in Fills \ {f} : fills'[g] = fills[g]
      /\ calls'[t] = c /\ \A u \in Calls \ {t} : calls'[u] = calls[u]
  BY DEF TypeInv, TypeOK, LocalsOK, Holding, OwnerLocs, drop_sender, FillState
<1>1. \A u \in Calls \ {t} : calls[u].pc \in OwnerLocs =>
        calls[u].fill \in Fills \ {f}
  BY DEF FillInv, OwnersDistinct, TypeInv, LocalsOK, Holding
<1>2. OwnersPending' /\ OwnersDistinct'
  BY <1>0, <1>1 DEF FillInv, OwnersPending, OwnersDistinct
<1>3. \A g \in Fills \ {f}, u \in Calls :
        Owns(u, g) => u # t /\ Owns(u, g)' /\ calls'[u] = calls[u]
  BY <1>0 DEF Owns
<1>4. WaitersOwned'
  <2> SUFFICES ASSUME NEW w \in Calls, calls'[w].pc = "await",
                      fills'[calls'[w].fill].state = "pending"
               PROVE  \E u \in Calls : /\ calls'[u].pc \in OwnerLocs
                                        /\ calls'[u].fill = calls'[w].fill
    BY DEF WaitersOwned, At, Owns
  <2>1. w # t /\ calls'[w] = calls[w] /\ calls[w].fill \in Fills \ {f}
    BY <1>0 DEF TypeInv, LocalsOK, Holding
  <2>2. PICK u \in Calls : Owns(u, calls[w].fill)
    BY <1>0, <2>1 DEF FillInv, WaitersOwned, At
  <2> QED
    BY <1>3, <2>1, <2>2 DEF Owns
<1>5. EntriesOwned'
  <2> SUFFICES ASSUME NEW p \in Pdas, db[p] # Vacant, db[p].fill # NoFill
               PROVE  /\ fills'[db[p].fill].state # "resolved"
                      /\ fills'[db[p].fill].state = "pending" =>
                           \E u \in Calls : /\ calls'[u].pc \in OwnerLocs
                                            /\ calls'[u].fill = db[p].fill
                                            /\ calls'[u].pda = p
    BY DEF EntriesOwned, Pending, Owns
  <2>1. db[p].fill \in Fills
    BY EntryType DEF DelegationEntry
  <2> QED
    BY <1>0, <1>3, <2>1 DEF FillInv, EntriesOwned, Pending, Owns
<1>6. SendersDetached'
  BY <1>0 DEF FillInv, SendersDetached, Detached, OwnerLocs
<1> QED
  BY <1>2, <1>4, <1>5, <1>6 DEF FillInv

\* The owner t takes its fill out of the cache before it resolves it.
LEMMA FillDetach ==
  ASSUME FillInv, TypeInv, NEW t \in Calls, NEW loc \in Detached,
         calls[t].pc \in OwnerLocs, Goto(t, loc), fills' = fills,
         \A q \in Pdas : db'[q] # Vacant =>
           db[q] # Vacant /\ db'[q].fill \in {db[q].fill, NoFill},
         db'[calls[t].pda] # Vacant =>
           db'[calls[t].pda].fill # calls[t].fill
  PROVE  FillInv'
<1> DEFINE f == calls[t].fill
<1>0. /\ f \in Fills
      /\ \A u \in Calls : /\ calls'[u].fill = calls[u].fill
                          /\ calls'[u].pda = calls[u].pda
                          /\ u # t => calls'[u].pc = calls[u].pc
      /\ calls'[t].pc = loc /\ loc \in OwnerLocs
  BY DEF TypeInv, TypeOK, LocalsOK, Holding, OwnerLocs, Goto, Call, Detached
<1>1. OwnersPending' /\ OwnersDistinct'
  BY <1>0 DEF FillInv, OwnersPending, OwnersDistinct
<1>2. \A u \in Calls : \A g : Owns(u, g) => Owns(u, g)'
  BY <1>0 DEF Owns
<1>3. WaitersOwned'
  BY <1>0, <1>2 DEF FillInv, WaitersOwned, At, Detached
<1>4. EntriesOwned'
  BY <1>0, <1>2 DEF FillInv, EntriesOwned, Pending
<1>5. SendersDetached'
  <2> SUFFICES ASSUME NEW u \in Calls, NEW p \in Pdas,
                      calls'[u].pc \in Detached, db'[p] # Vacant,
                      db'[p].fill = calls[u].fill
               PROVE  FALSE
    BY <1>0 DEF SendersDetached
  <2>1. calls[u].fill \in Fills /\ calls[u].pc \in OwnerLocs
    BY <1>0 DEF TypeInv, LocalsOK, Holding, OwnerLocs, Detached
  <2>2. db[p] # Vacant /\ db[p].fill = calls[u].fill
    BY <2>1, SentinelAssumption
  <2>3. u = t
    BY <1>0, <2>2 DEF FillInv, SendersDetached
  <2>4. PICK v \in Calls : Owns(v, db[p].fill) /\ calls[v].pda = p
    BY <2>1, <2>2, SentinelAssumption
       DEF FillInv, EntriesOwned, OwnersPending, Pending
  <2>5. v = t
    BY <2>1, <2>2, <2>3, <2>4 DEF FillInv, OwnersDistinct, Owns
  <2> QED
    BY <2>2, <2>3, <2>4, <2>5
<1> QED
  BY <1>1, <1>3, <1>4, <1>5 DEF FillInv

\* The owner t resolves a fill that is out of the cache.
LEMMA FillResolve ==
  ASSUME FillInv, TypeInv, NEW t \in Calls, ResolveFill(t)
  PROVE  FillInv'
<1> DEFINE f == calls[t].fill
<1>0. /\ calls[t].pc = "send" /\ f \in Fills /\ db' = db
      /\ fills'[f].state = "resolved"
      /\ \A g \in Fills \ {f} : fills'[g] = fills[g]
      /\ calls'[t].pc = "idle" /\ \A u \in Calls \ {t} : calls'[u] = calls[u]
  BY DEF ResolveFill, Return, Idle, At, TypeInv, TypeOK, LocalsOK, Holding,
         OwnerLocs
<1>1. \A u \in Calls \ {t} : calls[u].pc \in OwnerLocs =>
        calls[u].fill \in Fills \ {f}
  BY <1>0 DEF FillInv, OwnersDistinct, TypeInv, LocalsOK, Holding, OwnerLocs
<1>2. OwnersPending' /\ OwnersDistinct'
  BY <1>0, <1>1 DEF FillInv, OwnersPending, OwnersDistinct, OwnerLocs
<1>3. WaitersOwned'
  <2> SUFFICES ASSUME NEW w \in Calls, calls'[w].pc = "await",
                      fills'[calls'[w].fill].state = "pending"
               PROVE  \E u \in Calls : /\ calls'[u].pc \in OwnerLocs
                                        /\ calls'[u].fill = calls'[w].fill
    BY DEF WaitersOwned, At, Owns
  <2>1. w # t /\ calls'[w] = calls[w] /\ calls[w].fill \in Fills \ {f}
    BY <1>0 DEF TypeInv, LocalsOK, Holding
  <2>2. PICK u \in Calls : Owns(u, calls[w].fill)
    BY <1>0, <2>1 DEF FillInv, WaitersOwned, At
  <2>3. u # t
    BY <2>1, <2>2 DEF Owns
  <2> QED
    BY <1>0, <2>1, <2>2, <2>3 DEF Owns
<1>4. EntriesOwned'
  <2> SUFFICES ASSUME NEW p \in Pdas, db[p] # Vacant, db[p].fill # NoFill
               PROVE  /\ fills'[db[p].fill].state # "resolved"
                      /\ fills'[db[p].fill].state = "pending" =>
                           \E u \in Calls : /\ calls'[u].pc \in OwnerLocs
                                            /\ calls'[u].fill = db[p].fill
                                            /\ calls'[u].pda = p
    BY <1>0 DEF EntriesOwned, Pending, Owns
  <2>1. db[p].fill \in Fills \ {f}
    BY <1>0, EntryType DEF DelegationEntry, FillInv, SendersDetached, Detached
  <2> QED
    BY <1>0, <2>1 DEF FillInv, EntriesOwned, Pending, Owns
<1>5. SendersDetached'
  BY <1>0 DEF FillInv, SendersDetached, Detached
<1> QED
  BY <1>2, <1>3, <1>4, <1>5 DEF FillInv

\* A new placeholder: its handle is not referenced by anything else.
LEMMA FillInsert ==
  ASSUME FillInv, TypeInv, NEW t \in Calls, NEW f \in Fills, NEW c,
         f \notin Referenced, calls[t].pc = "insert",
         fills' = [fills EXCEPT ![f] = Unresolved],
         calls' = [calls EXCEPT ![t] = c],
         c.pc \in OwnerLocs \ Detached, c.fill = f, c.pda = calls[t].pda,
         db'[calls[t].pda] = Placeholder(f),
         \A q \in Pdas \ {calls[t].pda} : db'[q] \in {db[q], Vacant}
  PROVE  FillInv'
<1>0. /\ \A u \in Calls : calls[u].fill # f
      /\ \A p \in Pdas : db[p] # Vacant => db[p].fill # f
      /\ fills'[f].state = "pending"
      /\ \A g \in Fills \ {f} : fills'[g] = fills[g]
      /\ calls'[t] = c /\ \A u \in Calls \ {t} : calls'[u] = calls[u]
      /\ calls[t].pc \notin OwnerLocs
  BY DEF Referenced, Unresolved, TypeInv, TypeOK, OwnerLocs
<1>1. OwnersPending' /\ OwnersDistinct'
  BY <1>0 DEF FillInv, OwnersPending, OwnersDistinct, TypeInv, LocalsOK, Holding
<1>2. WaitersOwned'
  <2> SUFFICES ASSUME NEW w \in Calls, calls'[w].pc = "await",
                      fills'[calls'[w].fill].state = "pending"
               PROVE  \E u \in Calls : /\ calls'[u].pc \in OwnerLocs
                                        /\ calls'[u].fill = calls'[w].fill
    BY DEF WaitersOwned, At, Owns
  <2>1. w # t /\ calls'[w] = calls[w] /\ calls[w].fill \in Fills \ {f}
    BY <1>0 DEF TypeInv, LocalsOK, Holding, OwnerLocs
  <2>2. PICK u \in Calls : Owns(u, calls[w].fill)
    BY <1>0, <2>1 DEF FillInv, WaitersOwned, At
  <2> QED
    BY <1>0, <2>1, <2>2 DEF Owns
<1>3. EntriesOwned'
  <2> SUFFICES ASSUME NEW p \in Pdas, db'[p] # Vacant, db'[p].fill # NoFill
               PROVE  /\ fills'[db'[p].fill].state # "resolved"
                      /\ fills'[db'[p].fill].state = "pending" =>
                           \E u \in Calls : /\ calls'[u].pc \in OwnerLocs
                                            /\ calls'[u].fill = db'[p].fill
                                            /\ calls'[u].pda = p
    BY DEF EntriesOwned, Pending, Owns
  <2>1. CASE p = calls[t].pda
    BY <1>0, <2>1 DEF Placeholder
  <2>2. CASE p # calls[t].pda
    <3>1. db'[p] = db[p]
      BY <2>2
    <3>2. db[p].fill \in Fills \ {f}
      BY <1>0, <3>1, EntryType DEF DelegationEntry
    <3> QED
      BY <1>0, <3>1, <3>2 DEF FillInv, EntriesOwned, Pending, Owns
  <2> QED
    BY <2>1, <2>2
<1>4. SendersDetached'
  BY <1>0 DEF FillInv, SendersDetached, Placeholder
<1> QED
  BY <1>1, <1>2, <1>3, <1>4 DEF FillInv

\* A call that finds a placeholder waits for a fill that has an owner.
LEMMA FillWait ==
  ASSUME FillInv, TypeInv, NEW t \in Calls, NEW p \in Pdas, NEW c,
         calls[t].pc = "read", db[p] # Vacant, db[p].fill # NoFill,
         calls' = [calls EXCEPT ![t] = c],
         c.pc = "await", c.fill = db[p].fill,
         fills' = fills, db' = db
  PROVE  FillInv'
<1>0. /\ calls'[t].pc = "await" /\ calls'[t].fill = db[p].fill
      /\ \A u \in Calls \ {t} : calls'[u] = calls[u]
      /\ "await" \notin OwnerLocs /\ "await" \notin Detached
      /\ calls[t].pc \notin OwnerLocs
  BY DEF TypeInv, TypeOK, Call, OwnerLocs, Detached
<1>1. OwnersPending' /\ OwnersDistinct' /\ SendersDetached'
  BY <1>0 DEF FillInv, OwnersPending, OwnersDistinct, SendersDetached
<1>2. \A u \in Calls : \A g : Owns(u, g) =>
        calls'[u].pc \in OwnerLocs /\ calls'[u].fill = g
          /\ calls'[u].pda = calls[u].pda
  BY <1>0 DEF Owns
<1>3. WaitersOwned'
  <2> SUFFICES ASSUME NEW w \in Calls, calls'[w].pc = "await",
                      fills[calls'[w].fill].state = "pending"
               PROVE  \E u \in Calls : /\ calls'[u].pc \in OwnerLocs
                                        /\ calls'[u].fill = calls'[w].fill
    BY DEF WaitersOwned, At, Owns
  <2>1. CASE w = t
    BY <1>0, <1>2, <2>1 DEF FillInv, EntriesOwned, Pending
  <2>2. CASE w # t
    BY <1>0, <1>2, <2>2 DEF FillInv, WaitersOwned, At
  <2> QED
    BY <2>1, <2>2
<1>4. EntriesOwned'
  BY <1>2 DEF FillInv, EntriesOwned, Pending, Owns
<1> QED
  BY <1>1, <1>3, <1>4 DEF FillInv

\* What one call may do to its own locals without touching a fill's owner.
LEMMA FrameCall ==
  ASSUME FillInv, TypeInv, NEW t \in Calls, NEW c,
         calls' = [calls EXCEPT ![t] = c], fills' = fills,
         c.pc \in OwnerLocs <=> calls[t].pc \in OwnerLocs,
         calls[t].pc \in OwnerLocs =>
           c.fill = calls[t].fill /\ c.pda = calls[t].pda,
         c.pc # "await",
         c.pc \in Detached => calls[t].pc \in Detached,
         \A p \in Pdas : db'[p] # Vacant =>
           db[p] # Vacant /\ db'[p].fill \in {db[p].fill, NoFill}
  PROVE  FillInv'
<1>1. calls'[t] = c /\ \A u \in Calls \ {t} : calls'[u] = calls[u]
  BY DEF TypeInv, TypeOK
<1>2. Frame
  BY <1>1 DEF Frame
<1> QED
  BY <1>2, FillFrame

\* A call that goes round its loop drops its fill (StartOver).
LEMMA FillStartOver ==
  ASSUME FillInv, TypeInv, NEW t \in Calls, calls[t].pc \in OwnerLocs,
         StartOver(t), db' = db
  PROVE  FillInv'
<1> DEFINE c == [calls[t] EXCEPT !.pc = "read", !.fill = NoFill, !.min = 0]
<1>1. calls' = [calls EXCEPT ![t] = c] /\ c.pc = "read"
  BY DEF StartOver, TypeInv, TypeOK, Call
<1>2. c.pc \notin OwnerLocs \cup {"await"} /\ drop_sender(calls[t].fill)
  BY <1>1 DEF StartOver, OwnerLocs
<1> HIDE DEF c
<1> QED
  BY <1>1, <1>2, FillDrop

\* Steps of the chain, the sync service and the updater.
LEMMA FillOutside ==
  ASSUME FillInv, TypeInv,
         \/ \E p \in Pdas, d \in Data : ChainSlot(p, d)
         \/ Deliver \/ SyncInterrupt \/ SyncTerminate \/ Updater
  PROVE  FillInv'
<1>1. ASSUME UNCHANGED <<db, fills, calls>> PROVE FillInv'
  BY <1>1, FillFrame DEF Frame
<1>2. ASSUME UNCHANGED <<fills, calls>>,
             \A p \in Pdas : db'[p] # Vacant =>
               db[p] # Vacant /\ db'[p].fill \in {db[p].fill, NoFill}
      PROVE  FillInv'
  BY <1>2, FillFrame DEF Frame
<1>3. CASE update_cached_entry
  <2> DEFINE u == Head(stream)
             e == Installed(u.slot, from_bytes(u.data))
  <2>0. e.fill = NoFill
    BY DEF Installed
  <2>1. \A p \in Pdas : db'[p] # Vacant =>
          db[p] # Vacant /\ db'[p].fill \in {db[p].fill, NoFill}
    <3>1. CASE Applicable(db[u.pda], u.slot)
      <4>1. db' = [db EXCEPT ![u.pda] = e] /\ db[u.pda] # Vacant
        BY <1>3, <3>1 DEF update_cached_entry, Applicable
      <4> HIDE DEF e, u
      <4> QED
        BY <2>0, <4>1 DEF TypeInv, TypeOK
    <3>2. CASE ~ Applicable(db[u.pda], u.slot)
      BY <1>3, <3>2 DEF update_cached_entry
    <3> QED
      BY <3>1, <3>2
  <2> QED
    BY <1>2, <1>3, <2>1 DEF update_cached_entry
<1>4. CASE notify_filled
  <2>1. ASSUME NEW t \in Calls
        PROVE  /\ calls'[t].pc = calls[t].pc /\ calls'[t].pda = calls[t].pda
               /\ calls'[t].fill = calls[t].fill
    BY <1>4 DEF notify_filled, TypeInv, TypeOK, Call
  <2>2. UNCHANGED <<db, fills>>
    BY <1>4 DEF notify_filled
  <2>3. Frame
    BY <2>1, <2>2 DEF Frame
  <2> QED
    BY <2>3, FillFrame
<1>5. ASSUME NEW p \in Pdas, ClearEntry(p) PROVE FillInv'
  <2>1. \A q \in Pdas : db'[q] # Vacant =>
          db[q] # Vacant /\ db'[q].fill \in {db[q].fill, NoFill}
    BY <1>5 DEF ClearEntry, TypeInv, TypeOK
  <2> QED
    BY <1>2, <1>5, <2>1 DEF ClearEntry
<1> QED
  BY <1>1, <1>3, <1>4, <1>5
     DEF ChainSlot, Deliver, SyncDeliver, SyncInterrupt, SyncTerminate, Updater,
         SyncInterrupted, SyncTerminated

\* The steps of get_record up to the claim of its placeholder.
LEMMA FillLookup ==
  ASSUME FillInv, TypeInv, NEW t \in Calls,
         \/ \E p \in Pdas : get_record(t, p)
         \/ ReadEntry(t) \/ AwaitFill(t) \/ DiscardCancelled(t)
         \/ InsertPlaceholder(t) \/ UnsubscribeEvicted(t) \/ subscribe(t)
         \/ AbandonPlaceholder(t) \/ ClaimPlaceholder(t)
  PROVE  FillInv'
<1> USE DEF At
<1> DEFINE p == calls[t].pda
<1>0. /\ calls[t] \in Call
      /\ calls[t].pc # "idle" => p \in Pdas
  BY DEF TypeInv, TypeOK, LocalsOK
<1>1. ASSUME NEW q \in Pdas, get_record(t, q) PROVE FillInv'
  <2> DEFINE c == [Idle EXCEPT !.pc = "read", !.pda = q]
  <2>1. calls' = [calls EXCEPT ![t] = c] /\ c.pc = "read"
        /\ calls[t].pc = "idle" /\ fills' = fills /\ db' = db
    BY <1>1 DEF get_record, Idle
  <2> HIDE DEF c
  <2> QED
    BY <2>1, FrameCall DEF OwnerLocs, Detached
<1>2. ASSUME NEW loc \in {"insert", "discard", "read"}, Goto(t, loc),
             calls[t].pc \notin OwnerLocs, fills' = fills, db' = db
      PROVE  FillInv'
  <2> DEFINE c == [calls[t] EXCEPT !.pc = loc]
  <2>1. calls' = [calls EXCEPT ![t] = c] /\ c.pc = loc
    BY <1>0, <1>2 DEF Goto, Call
  <2> HIDE DEF c
  <2> QED
    BY <1>2, <2>1, FrameCall DEF OwnerLocs, Detached
<1>3. ASSUME NEW r, Return(t, r), calls[t].pc \notin OwnerLocs,
             fills' = fills, db' = db
      PROVE  FillInv'
  <2> DEFINE c == [Idle EXCEPT !.pda = p, !.got = [slot |-> 0, record |-> r]]
  <2>1. calls' = [calls EXCEPT ![t] = c] /\ c.pc = "idle"
    BY <1>3 DEF Return, Idle
  <2> HIDE DEF c
  <2> QED
    BY <1>3, <2>1, FrameCall DEF OwnerLocs, Detached
<1>4. CASE ReadEntry(t)
  <2>0. calls[t].pc = "read" /\ calls[t].pc \notin OwnerLocs /\ p \in Pdas
        /\ fills' = fills /\ db' = db
    BY <1>0, <1>4 DEF ReadEntry, OwnerLocs
  <2>1. CASE Goto(t, "insert")
    BY <1>2, <2>0, <2>1
  <2>2. CASE Return(t, db[p].record)
    BY <1>3, <2>0, <2>2
  <2>3. CASE /\ db[p] # Vacant /\ db[p].fill # NoFill
             /\ calls' = [calls EXCEPT ![t].pc = "await",
                                       ![t].fill = db[p].fill]
    <3> DEFINE c == [calls[t] EXCEPT !.pc = "await", !.fill = db[p].fill]
    <3>1. calls' = [calls EXCEPT ![t] = c] /\ c.pc = "await"
          /\ c.fill = db[p].fill
      BY <1>0, <2>3 DEF Call
    <3> HIDE DEF c
    <3>2. db[p] # Vacant /\ db[p].fill # NoFill
      BY <2>3
    <3> QED
      BY <2>0, <3>1, <3>2, FillWait
  <2>4. CASE calls' = [calls EXCEPT ![t].pc = "refetch", ![t].min = db[p].min]
    <3> DEFINE c == [calls[t] EXCEPT !.pc = "refetch", !.min = db[p].min]
    <3>1. calls' = [calls EXCEPT ![t] = c] /\ c.pc = "refetch"
      BY <1>0, <2>4 DEF Call
    <3> HIDE DEF c
    <3> QED
      BY <2>0, <3>1, FrameCall DEF OwnerLocs, Detached
  <2> QED
    BY <1>4, <2>1, <2>2, <2>3, <2>4 DEF ReadEntry
<1>5. CASE AwaitFill(t)
  BY <1>2, <1>3, <1>5 DEF AwaitFill, OwnerLocs
<1>6. CASE DiscardCancelled(t)
  <2> DEFINE c == [calls[t] EXCEPT !.pc = "read", !.fill = NoFill]
  <2>1. calls' = [calls EXCEPT ![t] = c] /\ c.pc = "read"
        /\ calls[t].pc = "discard" /\ fills' = fills
    BY <1>0, <1>6 DEF DiscardCancelled, Call
  <2>2. \A q \in Pdas : db'[q] # Vacant =>
          db[q] # Vacant /\ db'[q].fill \in {db[q].fill, NoFill}
    BY <1>6 DEF DiscardCancelled, TypeInv, TypeOK
  <2> HIDE DEF c
  <2> QED
    BY <2>1, <2>2, FrameCall DEF OwnerLocs, Detached
<1>7. CASE InsertPlaceholder(t)
  <2>1. CASE db[p] # Vacant
    BY <1>2, <1>7, <2>1 DEF InsertPlaceholder, OwnerLocs
  <2>2. CASE db[p] = Vacant
    <3> DEFINE f == NewFill
    <3>1. f \in Fills /\ f \notin Referenced
      BY <1>7, <2>2 DEF InsertPlaceholder, NewFill
    <3>2. /\ calls[t].pc = "insert" /\ p \in Pdas
          /\ fills' = [fills EXCEPT ![f] = Unresolved]
          /\ insert_new(t, p, f)
      BY <1>0, <1>7, <2>2 DEF InsertPlaceholder
    <3> HIDE DEF f
    <3>3. CASE /\ db' = [db EXCEPT ![p] = Placeholder(f)]
               /\ calls' = [calls EXCEPT ![t].pc = "subscribe", ![t].fill = f]
      <4> DEFINE c == [calls[t] EXCEPT !.pc = "subscribe", !.fill = f]
      <4>1. /\ calls' = [calls EXCEPT ![t] = c]
            /\ c.pc = "subscribe" /\ c.fill = f /\ c.pda = p
        BY <1>0, <3>3 DEF Call
      <4>2. /\ db'[p] = Placeholder(f)
            /\ \A q \in Pdas \ {p} : db'[q] \in {db[q], Vacant}
        BY <3>2, <3>3 DEF TypeInv, TypeOK
      <4> HIDE DEF c
      <4> QED
        BY <3>1, <3>2, <4>1, <4>2, FillInsert DEF OwnerLocs, Detached
    <3>4. ASSUME NEW q \in Pdas \ {p},
                 db' = [db EXCEPT ![p] = Placeholder(f), ![q] = Vacant],
                 calls' = [calls EXCEPT ![t].pc = "unsubscribe",
                                        ![t].fill = f, ![t].evicted = q]
          PROVE  FillInv'
      <4> DEFINE c == [calls[t] EXCEPT !.pc = "unsubscribe", !.fill = f,
                                       !.evicted = q]
      <4>1. /\ calls' = [calls EXCEPT ![t] = c]
            /\ c.pc = "unsubscribe" /\ c.fill = f /\ c.pda = p
        BY <1>0, <3>4 DEF Call
      <4>2. /\ db'[p] = Placeholder(f)
            /\ \A r \in Pdas \ {p} : db'[r] \in {db[r], Vacant}
        BY <3>2, <3>4 DEF TypeInv, TypeOK
      <4> HIDE DEF c
      <4> QED
        BY <3>1, <3>2, <4>1, <4>2, FillInsert DEF OwnerLocs, Detached
    <3> QED
      BY <3>2, <3>3, <3>4 DEF insert_new
  <2> QED
    BY <2>1, <2>2
<1>8. CASE UnsubscribeEvicted(t)
  <2> DEFINE c == [calls[t] EXCEPT !.pc = "subscribe", !.evicted = NoPda]
  <2>1. /\ calls' = [calls EXCEPT ![t] = c] /\ fills' = fills /\ db' = db
        /\ c.pc = "subscribe" /\ c.fill = calls[t].fill /\ c.pda = p
        /\ calls[t].pc = "unsubscribe"
    BY <1>0, <1>8 DEF UnsubscribeEvicted, Call
  <2> HIDE DEF c
  <2> QED
    BY <2>1, FrameCall DEF OwnerLocs, Detached
<1>9. CASE subscribe(t)
  <2>1. PICK c : /\ calls' = [calls EXCEPT ![t] = c]
                 /\ c.pc \in {"claim", "abandon"}
                 /\ c.fill = calls[t].fill /\ c.pda = p
    <3>1. CASE Goto(t, "abandon")
      <4> DEFINE c == [calls[t] EXCEPT !.pc = "abandon"]
      <4>1. /\ calls' = [calls EXCEPT ![t] = c] /\ c.pc = "abandon"
            /\ c.fill = calls[t].fill /\ c.pda = p
        BY <1>0, <3>1 DEF Goto, Call
      <4> HIDE DEF c
      <4> QED
        BY <4>1
    <3>2. CASE calls' = [calls EXCEPT ![t].pc = "claim",
                                      ![t].min = checked_sub(now, Rollback)]
      <4> DEFINE c == [calls[t] EXCEPT !.pc = "claim",
                                       !.min = checked_sub(now, Rollback)]
      <4>1. /\ calls' = [calls EXCEPT ![t] = c] /\ c.pc = "claim"
            /\ c.fill = calls[t].fill /\ c.pda = p
        BY <1>0, <3>2 DEF Call
      <4> HIDE DEF c
      <4> QED
        BY <4>1
    <3> QED
      BY <1>9, <3>1, <3>2 DEF subscribe
  <2>2. calls[t].pc = "subscribe" /\ fills' = fills /\ db' = db
    BY <1>9 DEF subscribe
  <2> QED
    BY <2>1, <2>2, FrameCall DEF OwnerLocs, Detached
<1>10. CASE AbandonPlaceholder(t)
  <2>1. CASE HoldsPlaceholder(t)
    <3>1. /\ Goto(t, "detached") /\ fills' = fills /\ calls[t].pc = "abandon"
          /\ db' = [db EXCEPT ![p] = Vacant] /\ p \in Pdas
      BY <1>0, <1>10, <2>1 DEF AbandonPlaceholder
    <3>2. /\ \A q \in Pdas : db'[q] # Vacant =>
               db[q] # Vacant /\ db'[q].fill \in {db[q].fill, NoFill}
          /\ db'[p] = Vacant
      BY <3>1 DEF TypeInv, TypeOK
    <3> QED
      BY <3>1, <3>2, FillDetach DEF OwnerLocs, Detached
  <2>2. CASE ~ HoldsPlaceholder(t)
    BY <1>10, <2>2, FillStartOver DEF AbandonPlaceholder, OwnerLocs
  <2> QED
    BY <2>1, <2>2
<1>11. CASE ClaimPlaceholder(t)
  <2>1. CASE HoldsPlaceholder(t)
    <3> DEFINE c == [calls[t] EXCEPT !.pc = "select"]
    <3>1. /\ calls' = [calls EXCEPT ![t] = c] /\ fills' = fills
          /\ c.pc = "select" /\ c.fill = calls[t].fill /\ c.pda = p
          /\ calls[t].pc = "claim" /\ p \in Pdas /\ db[p] # Vacant
          /\ db' = [db EXCEPT ![p].min = calls[t].min]
      BY <1>0, <1>11, <2>1 DEF ClaimPlaceholder, Goto, HoldsPlaceholder, Call
    <3>2. db[p] \in DelegationEntry
      BY <3>1, EntryType
    <3>3. [db[p] EXCEPT !.min = calls[t].min].fill = db[p].fill
      BY <3>2 DEF DelegationEntry
    <3>4. \A q \in Pdas : db'[q] # Vacant =>
            db[q] # Vacant /\ db'[q].fill \in {db[q].fill, NoFill}
      BY <3>1, <3>3 DEF TypeInv, TypeOK
    <3> HIDE DEF c
    <3> QED
      BY <3>1, <3>4, FrameCall DEF OwnerLocs, Detached
  <2>2. CASE ~ HoldsPlaceholder(t)
    BY <1>11, <2>2, FillStartOver DEF ClaimPlaceholder, OwnerLocs
  <2> QED
    BY <2>1, <2>2
<1> QED
  BY <1>1, <1>4, <1>5, <1>6, <1>7, <1>8, <1>9, <1>10, <1>11

\* merge_fetched leaves the handle of an entry in place or removes it.
LEMMA MergeKeepsFill ==
  ASSUME TypeInv, NEW p \in Pdas, NEW new \in Fetched, NEW f, NEW e,
         e = merge_fetched(db[p], new, f).entry,
         db' = [db EXCEPT ![p] = e]
  PROVE  \A q \in Pdas : db'[q] # Vacant =>
           db[q] # Vacant /\ db'[q].fill \in {db[q].fill, NoFill}
<1>1. Installed(new.slot, new.record).fill = NoFill
  BY DEF Installed
<1>2. e # Vacant => db[p] # Vacant /\ e.fill \in {db[p].fill, NoFill}
  BY <1>1 DEF merge_fetched
<1>3. \A q \in Pdas : db'[q] = IF q = p THEN e ELSE db[q]
  BY DEF TypeInv, TypeOK
<1> QED
  BY <1>2, <1>3

\* The steps of get_record from its fetch to its answer, and its end by
\* cancellation.
LEMMA FillFetch ==
  ASSUME FillInv, TypeInv, NEW t \in Calls,
         \/ Fetch(t) \/ ArmNotified(t) \/ ReadInstalled(t)
         \/ MergeRefetched(t) \/ MergeOwned(t)
         \/ SettleEntry(t) \/ ResolveFill(t) \/ Cancel(t)
  PROVE  FillInv'
<1> USE DEF At
<1> DEFINE p == calls[t].pda
<1>0. /\ calls[t] \in Call /\ calls[t].got \in Fetched
      /\ calls[t].pc # "idle" => p \in Pdas
  BY DEF TypeInv, TypeOK, LocalsOK, Call
<1>1. ASSUME NEW e, calls[t].pc \in Fetching, GotFetched(t, e),
             UNCHANGED <<db, fills>>
      PROVE  FillInv'
  <2> DEFINE c == [calls[t] EXCEPT !.pc = AfterFetch[calls[t].pc], !.got = e,
                                   !.attempt = 0, !.watch = "off"]
  <2>1. /\ calls' = [calls EXCEPT ![t] = c]
        /\ c.pc = AfterFetch[calls[t].pc] /\ c.fill = calls[t].fill /\ c.pda = p
    BY <1>0, <1>1 DEF GotFetched, Call
  <2>2. /\ c.pc # "await"
        /\ c.pc \in OwnerLocs <=> calls[t].pc \in OwnerLocs
        /\ c.pc \in Detached => calls[t].pc \in Detached
    BY <1>1, <2>1 DEF Fetching, AfterFetch, OwnerLocs, Detached
  <2> HIDE DEF c
  <2> QED
    BY <1>1, <2>1, <2>2, FrameCall
<1>2. ASSUME NEW c, calls' = [calls EXCEPT ![t] = c],
             c.pc = calls[t].pc, c.fill = calls[t].fill, c.pda = p,
             calls[t].pc # "await", UNCHANGED <<db, fills>>
      PROVE  FillInv'
  BY <1>2, FrameCall
<1>3. CASE Fetch(t)
  <2>1. CASE FetchFailed(t)
    <3> DEFINE c == [calls[t] EXCEPT !.attempt = @ + 1]
    <3>1. /\ calls' = [calls EXCEPT ![t] = c] /\ UNCHANGED <<db, fills>>
          /\ c.pc = calls[t].pc /\ c.fill = calls[t].fill /\ c.pda = p
          /\ calls[t].pc # "await"
      BY <1>0, <2>1 DEF FetchFailed, Fetching, Call
    <3> HIDE DEF c
    <3> QED
      BY <1>2, <3>1
  <2> QED
    BY <1>1, <1>3, <2>1 DEF Fetch, FetchAnswered, FetchExhausted
<1>4. CASE ArmNotified(t)
  <2> DEFINE c == [calls[t] EXCEPT !.watch = "armed"]
  <2>1. /\ calls' = [calls EXCEPT ![t] = c] /\ UNCHANGED <<db, fills>>
        /\ c.pc = calls[t].pc /\ c.fill = calls[t].fill /\ c.pda = p
        /\ calls[t].pc # "await"
    BY <1>0, <1>4 DEF ArmNotified, Call
  <2> HIDE DEF c
  <2> QED
    BY <1>2, <2>1
<1>5. CASE ReadInstalled(t)
  <2> DEFINE settle == [calls[t] EXCEPT !.pc = "settle", !.attempt = 0,
                          !.got = [slot |-> 0, record |-> db[p].record],
                          !.watch = "off"]
             wait == [calls[t] EXCEPT !.watch =
                        IF @ = "signalled" THEN "off" ELSE "waiting"]
  <2>1. /\ calls[t].pc = "select" /\ UNCHANGED <<db, fills>>
        /\ calls' \in {[calls EXCEPT ![t] = settle],
                       [calls EXCEPT ![t] = wait]}
    BY <1>5 DEF ReadInstalled
  <2>2. /\ settle.pc = "settle" /\ settle.fill = calls[t].fill
        /\ settle.pda = p
        /\ wait.pc = "select" /\ wait.fill = calls[t].fill /\ wait.pda = p
    BY <1>0, <2>1 DEF Call
  <2> HIDE DEF settle, wait
  <2> QED
    BY <1>2, <2>1, <2>2, FrameCall DEF OwnerLocs, Detached
<1>6. CASE MergeRefetched(t)
  <2> DEFINE m == merge_fetched(db[p], calls[t].got, NoFill)
             c == [Idle EXCEPT !.pda = p,
                               !.got = [slot |-> 0, record |-> m.record]]
  <2>1. /\ calls' = [calls EXCEPT ![t] = c] /\ c.pc = "idle"
        /\ calls[t].pc = "remerge" /\ fills' = fills
        /\ db' = [db EXCEPT ![p] = m.entry]
    BY <1>6 DEF MergeRefetched, Return, Idle
  <2>2. \A q \in Pdas : db'[q] # Vacant =>
          db[q] # Vacant /\ db'[q].fill \in {db[q].fill, NoFill}
    BY <1>0, <2>1, MergeKeepsFill
  <2> HIDE DEF m, c
  <2> QED
    BY <2>1, <2>2, FrameCall DEF OwnerLocs, Detached
<1>7. CASE MergeOwned(t)
  <2> DEFINE m == merge_fetched(db[p], calls[t].got, calls[t].fill)
             c == [calls[t] EXCEPT !.pc = "settle", !.got.record = m.record]
  <2>1. /\ calls' = [calls EXCEPT ![t] = c] /\ fills' = fills
        /\ calls[t].pc = "merge" /\ db' = [db EXCEPT ![p] = m.entry]
    BY <1>7 DEF MergeOwned
  <2>2. \A q \in Pdas : db'[q] # Vacant =>
          db[q] # Vacant /\ db'[q].fill \in {db[q].fill, NoFill}
    BY <1>0, <2>1, MergeKeepsFill
  <2> HIDE DEF m
  <2>3. c.pc = "settle" /\ c.fill = calls[t].fill /\ c.pda = p
    BY <1>0 DEF Call
  <2> HIDE DEF c
  <2> QED
    BY <2>1, <2>2, <2>3, FrameCall DEF OwnerLocs, Detached
<1>8. CASE SettleEntry(t)
  <2>1. /\ calls[t].pc = "settle" /\ p \in Pdas /\ fills' = fills
        /\ Goto(t, "send")
    BY <1>0, <1>8 DEF SettleEntry
  <2>2. /\ \A q \in Pdas : db'[q] # Vacant =>
             db[q] # Vacant /\ db'[q].fill \in {db[q].fill, NoFill}
        /\ db'[p] # Vacant => db'[p].fill # calls[t].fill
    <3>1. CASE db[p] # Vacant /\ db[p].fill = calls[t].fill
      <4> DEFINE e == [db[p] EXCEPT !.fill = NoFill]
      <4>1. db' = [db EXCEPT ![p] = e]
        BY <1>8, <3>1 DEF SettleEntry
      <4>2. e.fill = NoFill
        BY <2>1, <3>1, EntryType DEF DelegationEntry
      <4>3. calls[t].fill # NoFill
        BY <2>1, SentinelAssumption DEF TypeInv, LocalsOK, Holding, OwnerLocs
      <4>4. \A q \in Pdas : db'[q] = IF q = p THEN e ELSE db[q]
        BY <4>1 DEF TypeInv, TypeOK
      <4> HIDE DEF e
      <4> QED
        BY <2>1, <3>1, <4>2, <4>3, <4>4
    <3>2. CASE ~ (db[p] # Vacant /\ db[p].fill = calls[t].fill)
      BY <1>8, <3>2 DEF SettleEntry
    <3> QED
      BY <3>1, <3>2
  <2> QED
    BY <2>1, <2>2, FillDetach DEF OwnerLocs, Detached
<1>9. CASE ResolveFill(t)
  BY <1>9, FillResolve
<1>10. CASE Cancel(t)
  <2>1. calls' = [calls EXCEPT ![t] = Idle] /\ db' = db /\ Idle.pc = "idle"
    BY <1>10 DEF Cancel, Idle
  <2>2. CASE calls[t].pc \in OwnerLocs
    <3>1. drop_sender(calls[t].fill) /\ Idle.pc \notin OwnerLocs \cup {"await"}
      BY <1>10, <2>1, <2>2 DEF Cancel, OwnerLocs
    <3> QED
      BY <2>1, <2>2, <3>1, FillDrop
  <2>3. CASE calls[t].pc \notin OwnerLocs
    <3>1. fills' = fills
      BY <1>10, <2>3 DEF Cancel
    <3> QED
      BY <2>1, <2>3, <3>1, FrameCall DEF OwnerLocs, Detached
  <2> QED
    BY <2>2, <2>3
<1> QED
  BY <1>3, <1>4, <1>5, <1>6, <1>7, <1>8, <1>9, <1>10

\* Every step keeps the invariant.
LEMMA FillStep == FillInv /\ TypeInv /\ [Next]_vars => FillInv'
<1>1. ASSUME FillInv, TypeInv, UNCHANGED vars PROVE FillInv'
  <2>1. Frame
    BY <1>1 DEF vars, Frame
  <2> QED
    BY <1>1, <2>1, FillFrame
<1> QED
  BY <1>1, FillOutside, FillLookup, FillFetch DEF Next, Advance

\* Single flight: at every moment of get_record's interleavings the fill of a
\* waiter or of a placeholder has ended or has a live owner that will end it.
THEOREM FillsAlwaysOwned == Spec => []FillsOwned
<1>1. Spec => []TypeInv
  BY TypeInit, TypeStep, PTL DEF Spec
<1>2. Spec => []FillInv
  BY <1>1, FillInit, FillStep, PTL DEF Spec
<1>3. FillInv => FillsOwned
  BY DEF FillInv, FillsOwned, WaitersOwned, EntriesOwned
<1> QED
  BY <1>2, <1>3, PTL

-----------------------------------------------------------------------------
(* The cache implements DelegationView: whatever merge_fetched and         *)
(* update_cached_entry race about, an entry only moves from the record of  *)
(* one slot to the record of a later one, or is forgotten.                 *)

\* What is in the channel is what the chain held at the slot of the message.
StreamFaithful ==
  \A i \in DOMAIN stream : stream[i].type = "update" =>
    /\ stream[i].slot \in 1 .. now
    /\ stream[i].data = chain[stream[i].slot][stream[i].pda]

\* So is what a call fetched and has still to merge (slot 0: the fetch failed).
FetchFaithful ==
  \A t \in Calls :
    calls[t].pc \in {"merge", "remerge"} /\ calls[t].got.slot # 0 =>
      /\ calls[t].got.slot \in 1 .. now
      /\ calls[t].got.record
           = from_bytes(chain[calls[t].got.slot][calls[t].pda])

SourceInv == StreamFaithful /\ FetchFaithful /\ EntryFaithful

ViewStep == [View!Next]_View!vars

USE DEF now

\* The empty cache maps to a view that knows nothing.
LEMMA SourceInit == Init => SourceInv /\ View!Init
<1> SUFFICES ASSUME Init PROVE SourceInv /\ View!Init
  OBVIOUS
<1>1. stream = <<>> /\ db = [p \in Pdas |-> Vacant]
      /\ calls = [t \in Calls |-> Idle] /\ Idle.pc = "idle"
  BY DEF Init, Idle
<1>2. SourceInv
  BY <1>1 DEF SourceInv, StreamFaithful, FetchFaithful, EntryFaithful, Filled
<1>3. View!Init
  BY <1>1 DEF Init, View!Init, Filled
<1> QED
  BY <1>2, <1>3

-----------------------------------------------------------------------------
(* What a step does to one entry.                                          *)

\* A step that changes neither the chain nor what the cache knows.
LEMMA QuietStep ==
  ASSUME SourceInv, chain' = chain,
         \A p \in Pdas : /\ Filled(p)' <=> Filled(p)
                         /\ Filled(p) => db'[p].slot = db[p].slot
                                           /\ db'[p].record = db[p].record
  PROVE  EntryFaithful' /\ ViewStep
<1>1. EntryFaithful'
  BY DEF SourceInv, EntryFaithful, from_bytes
<1>2. UNCHANGED View!vars
  BY DEF View!vars
<1> QED
  BY <1>1, <1>2 DEF ViewStep

\* A step that drops one entry is Forget.
LEMMA ForgetStep ==
  ASSUME SourceInv, TypeInv, chain' = chain, NEW p \in Pdas,
         ~ Filled(p)', \A q \in Pdas \ {p} : db'[q] = db[q]
  PROVE  EntryFaithful' /\ ViewStep
<1>1. EntryFaithful'
  BY DEF SourceInv, EntryFaithful, Filled, from_bytes
<1>2. View!Forget(p)
  BY DEF View!Forget, Filled
<1> QED
  BY <1>1, <1>2 DEF ViewStep, View!Next

\* A step that fills one entry with a later slot is Learn.
LEMMA LearnStep ==
  ASSUME SourceInv, TypeInv, chain' = chain, NEW p \in Pdas, NEW s \in 1 .. now,
         db[p] # Vacant, db[p].slot < s,
         db' = [db EXCEPT ![p] = Installed(s, from_bytes(chain[s][p]))]
  PROVE  EntryFaithful' /\ ViewStep
<1> DEFINE e == Installed(s, from_bytes(chain[s][p]))
<1>0. e \in DelegationEntry /\ e.slot = s /\ e.record = from_bytes(chain[s][p])
  BY DecodeType DEF Installed, DelegationEntry
<1>1. e # Vacant
  BY <1>0, SentinelAssumption
<1>2. db'[p] = e /\ \A q \in Pdas \ {p} : db'[q] = db[q]
  BY DEF TypeInv, TypeOK
<1> HIDE DEF e
<1>3. EntryFaithful'
  BY <1>0, <1>1, <1>2 DEF SourceInv, EntryFaithful, Filled, from_bytes
<1>4. View!Learn(p, s)
  <2> DEFINE v == [q \in Pdas |-> IF Filled(q)
                     THEN [slot |-> db[q].slot, record |-> db[q].record]
                     ELSE Vacant]
             r == [slot |-> s, record |-> from_bytes(chain[s][p])]
  <2>1. v[p] = Vacant \/ v[p].slot < s
    BY DEF Filled
  <2>2. (v[p])' = r
    BY <1>0, <1>1, <1>2 DEF Filled
  <2>3. \A q \in Pdas \ {p} : (v[q])' = v[q]
    BY <1>2 DEF Filled
  <2>4. v' = [v EXCEPT ![p] = r]
    BY <2>2, <2>3
  <2> QED
    BY <2>1, <2>4 DEF View!Learn
<1> QED
  BY <1>3, <1>4 DEF ViewStep, View!Next

-----------------------------------------------------------------------------
(* What a step does to the messages and to what was fetched.               *)

\* Nothing to show when neither messages nor fetched records change.
LEMMA SameSources ==
  ASSUME SourceInv, chain' = chain, stream' = stream, calls' = calls
  PROVE  StreamFaithful' /\ FetchFaithful'
BY DEF SourceInv, StreamFaithful, FetchFaithful, from_bytes

\* The messages are unchanged.
LEMMA SameStream ==
  ASSUME SourceInv, chain' = chain, stream' = stream
  PROVE  StreamFaithful'
BY DEF SourceInv, StreamFaithful

\* One call moves to a place where it has no fetched record to merge.
LEMMA OneCall ==
  ASSUME SourceInv, NEW t \in Calls, chain' = chain,
         calls'[t].pc \notin {"merge", "remerge"},
         \A u \in Calls \ {t} : calls'[u] = calls[u]
  PROVE  FetchFaithful'
BY DEF SourceInv, FetchFaithful, from_bytes

\* Steps of the chain and of the sync service.
LEMMA ViewOutside ==
  ASSUME SourceInv, TypeInv,
         \/ \E p \in Pdas, d \in Data : ChainSlot(p, d)
         \/ Deliver \/ SyncInterrupt \/ SyncTerminate
  PROVE  SourceInv' /\ ViewStep
<1>0. now \in Nat /\ now >= 1 /\ chain \in Seq([Pdas -> Data])
  BY DEF TypeInv, TypeOK
<1>1. ASSUME NEW p \in Pdas, NEW d \in Data, ChainSlot(p, d)
      PROVE  SourceInv' /\ ViewStep
  <2> DEFINE c == [chain[now] EXCEPT ![p] = d]
  <2>1. c \in [Pdas -> Data] /\ chain' = Append(chain, c)
        /\ UNCHANGED <<stream, calls, db>>
    BY <1>0, <1>1 DEF ChainSlot
  <2> HIDE DEF c
  <2>2. Len(chain') = now + 1 /\ \A s \in 1 .. now : chain'[s] = chain[s]
    BY <1>0, <2>1
  <2>3. StreamFaithful'
    BY <1>0, <2>1, <2>2 DEF SourceInv, StreamFaithful
  <2>4. FetchFaithful'
    BY <1>0, <2>1, <2>2 DEF SourceInv, FetchFaithful, from_bytes
  <2>5. EntryFaithful'
    <3> SUFFICES ASSUME NEW q \in Pdas, Filled(q)
                 PROVE  /\ db[q].slot <= Len(chain')
                        /\ db[q].record = from_bytes(chain'[db[q].slot][q])
      BY <2>1 DEF EntryFaithful, Filled, from_bytes
    <3>1. db[q].slot \in 1 .. now
      BY <1>0, EntryType DEF Filled, DelegationEntry, SourceInv, EntryFaithful
    <3> QED
      BY <1>0, <2>2, <3>1 DEF SourceInv, EntryFaithful
  <2>6. View!Produce
    BY <2>1 DEF View!Produce, Filled
  <2> QED
    BY <2>3, <2>4, <2>5, <2>6 DEF SourceInv, ViewStep, View!Next
<1>2. ASSUME NEW m \in AccountUpdate, stream' = Append(stream, m),
             m.type = "update" => m.slot \in 1 .. now
                                    /\ m.data = chain[m.slot][m.pda],
             UNCHANGED <<chain, calls, db>>
      PROVE  SourceInv' /\ ViewStep
  <2>1. StreamFaithful'
    <3> SUFFICES ASSUME NEW i \in DOMAIN stream', stream'[i].type = "update"
                 PROVE  /\ stream'[i].slot \in 1 .. now
                        /\ stream'[i].data
                             = chain[stream'[i].slot][stream'[i].pda]
      BY <1>2 DEF StreamFaithful
    <3>1. stream'[i] = m \/ (i \in DOMAIN stream /\ stream'[i] = stream[i])
      BY <1>2 DEF TypeInv, TypeOK
    <3> QED
      BY <1>2, <3>1 DEF SourceInv, StreamFaithful
  <2>2. FetchFaithful'
    BY <1>2 DEF SourceInv, FetchFaithful, from_bytes
  <2>3. EntryFaithful' /\ ViewStep
    BY <1>2, QuietStep DEF Filled
  <2> QED
    BY <2>1, <2>2, <2>3 DEF SourceInv
<1>3. ASSUME NEW p \in Pdas, NEW s \in 1 .. now, SyncDeliver(p, s)
      PROVE  SourceInv' /\ ViewStep
  <2> DEFINE m == [type |-> "update", pda |-> p, slot |-> s,
                   data |-> chain[s][p]]
  <2>1. m \in AccountUpdate
    BY <1>0 DEF AccountUpdate
  <2> QED
    BY <1>2, <1>3, <2>1 DEF SyncDeliver
<1>4. CASE SyncInterrupt
  BY <1>2, <1>4 DEF SyncInterrupt, AccountUpdate
<1>5. CASE SyncTerminate
  BY <1>2, <1>5 DEF SyncTerminate, AccountUpdate
<1> QED
  BY <1>1, <1>3, <1>4, <1>5 DEF Deliver

\* Steps of the updater: it learns, forgets, or leaves the entries.
LEMMA ViewUpdater ==
  ASSUME SourceInv, TypeInv, Updater
  PROVE  SourceInv' /\ ViewStep
<1>0. ASSUME stream # <<>>, stream' = Tail(stream), chain' = chain
      PROVE  StreamFaithful'
  <2>1. \A i \in DOMAIN stream' : i + 1 \in DOMAIN stream
                                    /\ stream'[i] = stream[i + 1]
    BY <1>0 DEF TypeInv, TypeOK
  <2> QED
    BY <1>0, <2>1 DEF SourceInv, StreamFaithful
<1>1. CASE update_cached_entry
  <2> DEFINE u == Head(stream)
  <2>1. /\ u \in AccountUpdate /\ u.type = "update" /\ stream # <<>>
        /\ u = stream[1] /\ 1 \in DOMAIN stream
        /\ stream' = Tail(stream) /\ chain' = chain /\ calls' = calls
    BY <1>1 DEF update_cached_entry, Receive, TypeInv, TypeOK
  <2>2. /\ u.pda \in Pdas /\ u.slot \in 1 .. now
        /\ u.data = chain[u.slot][u.pda]
    BY <2>1 DEF AccountUpdate, SourceInv, StreamFaithful
  <2>3. StreamFaithful' /\ FetchFaithful'
    BY <1>0, <2>1 DEF SourceInv, FetchFaithful, from_bytes
  <2>4. EntryFaithful' /\ ViewStep
    <3>1. CASE Applicable(db[u.pda], u.slot)
      <4>1. db' = [db EXCEPT ![u.pda] =
                     Installed(u.slot, from_bytes(chain[u.slot][u.pda]))]
        BY <1>1, <2>2, <3>1 DEF update_cached_entry
      <4> HIDE DEF u
      <4> QED
        BY <2>1, <2>2, <3>1, <4>1, LearnStep DEF Applicable
    <3>2. CASE ~ Applicable(db[u.pda], u.slot)
      BY <1>1, <2>1, <3>2, QuietStep DEF update_cached_entry, Filled
    <3> QED
      BY <3>1, <3>2
  <2> QED
    BY <2>3, <2>4 DEF SourceInv
<1>2. CASE notify_filled
  <2>1. UNCHANGED <<chain, stream, db>>
    BY <1>2 DEF notify_filled
  <2>2. \A t \in Calls : /\ calls'[t].pc = calls[t].pc
                         /\ calls'[t].pda = calls[t].pda
                         /\ calls'[t].got = calls[t].got
    BY <1>2 DEF notify_filled, TypeInv, TypeOK, Call
  <2>3. FetchFaithful'
    BY <2>1, <2>2 DEF SourceInv, FetchFaithful, from_bytes
  <2>4. StreamFaithful' /\ EntryFaithful' /\ ViewStep
    BY <2>1, SameStream, QuietStep DEF Filled
  <2> QED
    BY <2>3, <2>4 DEF SourceInv
<1>3. ASSUME NEW p \in Pdas, ClearEntry(p) PROVE SourceInv' /\ ViewStep
  <2>1. /\ UNCHANGED <<chain, stream, calls>>
        /\ db'[p] = Vacant /\ \A q \in Pdas \ {p} : db'[q] = db[q]
    BY <1>3 DEF ClearEntry, TypeInv, TypeOK
  <2>2. EntryFaithful' /\ ViewStep
    BY <2>1, ForgetStep DEF Filled
  <2> QED
    BY <2>1, <2>2, SameSources DEF SourceInv
<1>4. ASSUME stream # <<>>, stream' = Tail(stream),
             UNCHANGED <<chain, calls, db>>
      PROVE  SourceInv' /\ ViewStep
  BY <1>0, <1>4, QuietStep DEF SourceInv, FetchFaithful, from_bytes, Filled
<1> QED
  BY <1>1, <1>2, <1>3, <1>4
     DEF Updater, SyncInterrupted, SyncTerminated, Receive

\* Steps of a call that leave the cache alone.
LEMMA ViewCallOnly ==
  ASSUME SourceInv, NEW t \in Calls, UNCHANGED <<chain, stream, db>>,
         calls'[t].pc \notin {"merge", "remerge"},
         \A u \in Calls \ {t} : calls'[u] = calls[u]
  PROVE  SourceInv' /\ ViewStep
BY OneCall, SameStream, QuietStep DEF SourceInv, Filled

\* Return changes the locals of its call only.
LEMMA ReturnLocal ==
  ASSUME TypeInv, NEW t \in Calls, NEW r, Return(t, r)
  PROVE  /\ calls'[t].pc = "idle"
         /\ \A u \in Calls \ {t} : calls'[u] = calls[u]
BY DEF Return, Idle, TypeInv, TypeOK

\* Goto changes the location of its call only.
LEMMA GotoLocal ==
  ASSUME TypeInv, NEW t \in Calls, NEW loc, Goto(t, loc)
  PROVE  /\ calls'[t].pc = loc
         /\ \A u \in Calls \ {t} : calls'[u] = calls[u]
BY DEF Goto, TypeInv, TypeOK, Call

\* The steps of a call that only read the cache.
LEMMA ViewRead ==
  ASSUME SourceInv, TypeInv, NEW t \in Calls,
         \/ \E p \in Pdas : get_record(t, p)
         \/ ReadEntry(t) \/ AwaitFill(t) \/ UnsubscribeEvicted(t)
         \/ subscribe(t) \/ FetchFailed(t) \/ ArmNotified(t)
         \/ ReadInstalled(t) \/ ResolveFill(t) \/ Cancel(t)
  PROVE  SourceInv' /\ ViewStep
<1> USE DEF TypeInv, TypeOK, Call, Idle, Goto, Return, At
<1>1. ASSUME NEW p \in Pdas, get_record(t, p) PROVE SourceInv' /\ ViewStep
  BY <1>1, ViewCallOnly DEF get_record
<1>2. CASE ReadEntry(t)
  <2>1. /\ UNCHANGED <<chain, stream, db>>
        /\ calls'[t].pc \in {"insert", "idle", "await", "refetch"}
        /\ \A u \in Calls \ {t} : calls'[u] = calls[u]
    <3> USE ReturnLocal, GotoLocal
    <3> HIDE DEF Return, Goto
    <3> QED
      BY <1>2 DEF ReadEntry
  <2> QED
    BY <2>1, ViewCallOnly
<1>3. CASE AwaitFill(t)
  <2>1. /\ UNCHANGED <<chain, stream, db>>
        /\ calls'[t].pc \in {"idle", "discard"}
        /\ \A u \in Calls \ {t} : calls'[u] = calls[u]
    <3> USE ReturnLocal, GotoLocal
    <3> HIDE DEF Return, Goto
    <3> QED
      BY <1>3 DEF AwaitFill
  <2> QED
    BY <2>1, ViewCallOnly
<1>4. CASE UnsubscribeEvicted(t)
  BY <1>4, ViewCallOnly DEF UnsubscribeEvicted
<1>5. CASE subscribe(t)
  <2>1. /\ UNCHANGED <<chain, stream, db>>
        /\ calls'[t].pc \in {"claim", "abandon"}
        /\ \A u \in Calls \ {t} : calls'[u] = calls[u]
    BY <1>5 DEF subscribe
  <2> QED
    BY <2>1, ViewCallOnly
<1>6. CASE FetchFailed(t)
  <2>1. /\ UNCHANGED <<chain, stream, db>>
        /\ calls'[t].pc \in Fetching
        /\ \A u \in Calls \ {t} : calls'[u] = calls[u]
    BY <1>6 DEF FetchFailed
  <2> QED
    BY <2>1, ViewCallOnly DEF Fetching
<1>7. CASE ArmNotified(t)
  BY <1>7, ViewCallOnly DEF ArmNotified
<1>8. CASE ReadInstalled(t)
  <2>1. /\ UNCHANGED <<chain, stream, db>>
        /\ calls'[t].pc \in {"select", "settle"}
        /\ \A u \in Calls \ {t} : calls'[u] = calls[u]
    BY <1>8 DEF ReadInstalled
  <2> QED
    BY <2>1, ViewCallOnly
<1>9. CASE ResolveFill(t)
  BY <1>9, ViewCallOnly DEF ResolveFill
<1>10. CASE Cancel(t)
  BY <1>10, ViewCallOnly DEF Cancel
<1> QED
  BY <1>1, <1>2, <1>3, <1>4, <1>5, <1>6, <1>7, <1>8, <1>9, <1>10

\* Steps of a call that insert, claim, settle or remove its placeholder.
LEMMA ViewPlaceholder ==
  ASSUME SourceInv, TypeInv, NEW t \in Calls,
         \/ DiscardCancelled(t) \/ InsertPlaceholder(t)
         \/ AbandonPlaceholder(t) \/ ClaimPlaceholder(t) \/ SettleEntry(t)
  PROVE  SourceInv' /\ ViewStep
<1>p. PICK p \in Pdas : p = calls[t].pda
  BY DEF TypeInv, LocalsOK, At, DiscardCancelled, InsertPlaceholder,
         AbandonPlaceholder, ClaimPlaceholder, SettleEntry
<1>0. calls[t] \in Call /\ db \in [Pdas -> DelegationEntry \cup {Vacant}]
  BY DEF TypeInv, TypeOK
<1>1. /\ UNCHANGED <<chain, stream>>
      /\ calls'[t].pc \notin {"merge", "remerge"}
      /\ \A u \in Calls \ {t} : calls'[u] = calls[u]
  BY <1>0 DEF TypeInv, TypeOK, Call, At, Goto, DiscardCancelled,
     InsertPlaceholder, insert_new, AbandonPlaceholder, ClaimPlaceholder,
     SettleEntry, StartOver
<1>2. ASSUME EntryFaithful' /\ ViewStep PROVE SourceInv' /\ ViewStep
  BY <1>1, <1>2, OneCall, SameStream DEF SourceInv
<1>3. CASE db' = db
  BY <1>1, <1>3, ViewCallOnly
<1>4. CASE db' = [db EXCEPT ![p] = Vacant]
  BY <1>0, <1>1, <1>2, <1>4, ForgetStep DEF Filled
<1>5. ASSUME NEW f, db' = [db EXCEPT ![p] = Placeholder(f)]
      PROVE  SourceInv' /\ ViewStep
  BY <1>0, <1>1, <1>2, <1>5, ForgetStep DEF Filled, Placeholder
<1>6. ASSUME NEW f, NEW q \in Pdas \ {p}, db[p] = Vacant,
             db' = [db EXCEPT ![p] = Placeholder(f), ![q] = Vacant]
      PROVE  SourceInv' /\ ViewStep
  <2>1. /\ db'[p] = Placeholder(f) /\ db'[q] = Vacant
        /\ \A r \in Pdas \ {p, q} : db'[r] = db[r]
    BY <1>0, <1>1, <1>6
  <2>2. ~ Filled(p) /\ ~ Filled(p)' /\ ~ Filled(q)'
    BY <1>6, <2>1 DEF Filled, Placeholder
  <2>3. EntryFaithful'
    BY <1>1, <2>1, <2>2 DEF EntryFaithful, SourceInv, Filled, from_bytes
  <2>4. View!Forget(q)
    BY <1>1, <2>1, <2>2 DEF View!Forget, Filled
  <2> QED
    BY <1>2, <2>3, <2>4 DEF ViewStep, View!Next
<1>7. ASSUME NEW e, db[p] # Vacant, db' = [db EXCEPT ![p] = e], e # Vacant,
             e.slot = db[p].slot, e.record = db[p].record
      PROVE  SourceInv' /\ ViewStep
  <2>1. db'[p] = e /\ \A q \in Pdas \ {p} : db'[q] = db[q]
    BY <1>0, <1>1, <1>7
  <2> QED
    BY <1>1, <1>2, <1>7, <2>1, QuietStep DEF Filled
<1>8. CASE ClaimPlaceholder(t) /\ db' # db
  <2> DEFINE e == [db[p] EXCEPT !.min = calls[t].min]
  <2>1. db[p] # Vacant /\ db' = [db EXCEPT ![p] = e]
    BY <1>p, <1>8 DEF ClaimPlaceholder, HoldsPlaceholder
  <2>2. e \in DelegationEntry /\ e.slot = db[p].slot /\ e.record = db[p].record
    BY <1>0, <1>1, <2>1, EntryType DEF DelegationEntry, Call
  <2> QED
    BY <1>7, <2>1, <2>2, SentinelAssumption
<1>9. CASE SettleEntry(t) /\ db' # db
  <2> DEFINE e == [db[p] EXCEPT !.fill = NoFill]
  <2>1. db[p] # Vacant /\ db' = [db EXCEPT ![p] = e]
    BY <1>p, <1>9 DEF SettleEntry
  <2>2. e \in DelegationEntry /\ e.slot = db[p].slot /\ e.record = db[p].record
    BY <1>1, <2>1, EntryType DEF DelegationEntry
  <2> QED
    BY <1>7, <2>1, <2>2, SentinelAssumption
<1> QED
  BY <1>p, <1>3, <1>4, <1>5, <1>6, <1>8, <1>9
     DEF DiscardCancelled, InsertPlaceholder, insert_new, AbandonPlaceholder

\* What merge_fetched makes of an entry: nothing, or a later slot's record.
LEMMA MergeOutcome ==
  ASSUME NEW old, NEW new, NEW f
  PROVE  LET e == merge_fetched(old, new, f).entry
         IN  \/ e = old
             \/ /\ old # Vacant /\ old.slot < new.slot
                /\ e = Installed(new.slot, new.record)
BY DEF merge_fetched

\* A merge is Learn, or leaves the entry.
LEMMA ViewMerge ==
  ASSUME SourceInv, TypeInv, NEW t \in Calls,
         MergeOwned(t) \/ MergeRefetched(t)
  PROVE  EntryFaithful' /\ ViewStep
<1> DEFINE new == calls[t].got
<1>0. PICK p, f, e : /\ p = calls[t].pda
                     /\ e = merge_fetched(db[p], new, f).entry
                     /\ db' = [db EXCEPT ![p] = e]
  BY DEF MergeOwned, MergeRefetched
<1>1. /\ calls[t].pc \in {"merge", "remerge"} /\ chain' = chain
      /\ p \in Pdas /\ new \in Fetched
      /\ db \in [Pdas -> DelegationEntry \cup {Vacant}]
  BY <1>0 DEF MergeOwned, MergeRefetched, At, TypeInv, TypeOK, LocalsOK, Call
<1>2. CASE e = db[p]
  <2>1. db' = db
    BY <1>0, <1>1, <1>2
  <2> QED
    BY <1>1, <2>1, QuietStep DEF Filled
<1>3. CASE /\ db[p] # Vacant /\ db[p].slot < new.slot
           /\ e = Installed(new.slot, new.record)
  <2>1. db[p].slot \in Nat /\ new.slot \in Nat
    BY <1>1, <1>3, EntryType DEF DelegationEntry, Fetched
  <2>2. new.slot \in 1 .. now /\ new.record = from_bytes(chain[new.slot][p])
    BY <1>0, <1>1, <1>3, <2>1 DEF SourceInv, FetchFaithful
  <2>3. db' = [db EXCEPT ![p] =
                 Installed(new.slot, from_bytes(chain[new.slot][p]))]
    BY <1>0, <1>3, <2>2
  <2> HIDE DEF new
  <2> QED
    BY <1>1, <1>3, <2>2, <2>3, LearnStep
<1> QED
  BY <1>0, <1>2, <1>3, MergeOutcome

\* What a fetch answers is the record of some slot.
LEMMA ViewFetch ==
  ASSUME SourceInv, TypeInv, NEW t \in Calls,
         \/ Fetch(t) \/ MergeRefetched(t) \/ MergeOwned(t)
  PROVE  SourceInv' /\ ViewStep
<1>1. ASSUME NEW e, GotFetched(t, e), UNCHANGED <<chain, stream, db>>,
             e.slot # 0 => e.slot \in 1 .. now
               /\ e.record = from_bytes(chain[e.slot][calls[t].pda])
      PROVE  SourceInv' /\ ViewStep
  <2>1. /\ calls'[t].got = e /\ calls'[t].pda = calls[t].pda
        /\ \A u \in Calls \ {t} : calls'[u] = calls[u]
    BY <1>1 DEF GotFetched, TypeInv, TypeOK, Call
  <2>2. FetchFaithful'
    BY <1>1, <2>1 DEF SourceInv, FetchFaithful, from_bytes
  <2> QED
    BY <1>1, <2>2, SameStream, QuietStep DEF SourceInv, Filled
<1>2. ASSUME NEW s \in 1 .. now, FetchAnswered(t, s)
      PROVE  SourceInv' /\ ViewStep
  BY <1>1, <1>2 DEF FetchAnswered
<1>3. CASE FetchExhausted(t)
  BY <1>1, <1>3 DEF FetchExhausted
<1>4. CASE FetchFailed(t)
  BY <1>4, ViewRead
<1>5. CASE MergeRefetched(t)
  <2>1. EntryFaithful' /\ ViewStep
    BY <1>5, ViewMerge
  <2>2. FetchFaithful'
    BY <1>5, OneCall DEF MergeRefetched, Return, Idle, TypeInv, TypeOK
  <2> QED
    BY <1>5, <2>1, <2>2, SameStream DEF MergeRefetched, SourceInv
<1>6. CASE MergeOwned(t)
  <2>1. EntryFaithful' /\ ViewStep
    BY <1>6, ViewMerge
  <2>2. FetchFaithful'
    BY <1>6, OneCall DEF MergeOwned, TypeInv, TypeOK, Call
  <2> QED
    BY <1>6, <2>1, <2>2, SameStream DEF MergeOwned, SourceInv
<1> QED
  BY <1>2, <1>3, <1>4, <1>5, <1>6 DEF Fetch

\* Every step keeps the invariant and maps to a step of the view.
LEMMA SourceStep == SourceInv /\ TypeInv /\ [Next]_vars => SourceInv' /\ ViewStep
<1>1. ASSUME SourceInv, TypeInv, UNCHANGED vars PROVE SourceInv' /\ ViewStep
  BY <1>1, SameSources, QuietStep DEF vars, SourceInv, Filled
<1> QED
  BY <1>1, ViewOutside, ViewUpdater, ViewRead, ViewPlaceholder, ViewFetch
     DEF Next, Advance

\* An entry pairs a slot with the record the chain held at that slot.
THEOREM EntriesFaithful == Spec => []EntryFaithful
<1>1. Spec => []TypeInv
  BY TypeInit, TypeStep, PTL DEF Spec
<1>2. Spec => []SourceInv
  BY <1>1, SourceInit, SourceStep, PTL DEF Spec
<1> QED
  BY <1>2, PTL DEF SourceInv

\* The cache implements its abstract specification: what it shows of an
\* address is always the record of some slot and only moves to later slots.
THEOREM CacheImplementsView == Spec => ImplementsView
<1>1. Spec => []TypeInv
  BY TypeInit, TypeStep, PTL DEF Spec
<1>2. Spec => []SourceInv
  BY <1>1, SourceInit, SourceStep, PTL DEF Spec
<1>3. SourceInv /\ TypeInv /\ [Next]_vars => [View!Next]_View!vars
  BY SourceStep DEF ViewStep
<1> QED
  BY <1>1, <1>2, <1>3, SourceInit, PTL DEF Spec, ImplementsView, View!Spec

-----------------------------------------------------------------------------
(* What get_record answers, as long as no fetch has given up: then the     *)
(* None of a failed fetch is an answer like any other.                     *)

\* The chain held record r at address p, at some slot.
Genuine(p, r) == \E s \in 1 .. now : r = from_bytes(chain[s][p])

NoneExhausted == faults["exhaust"] = Budget["exhaust"]

\* The record that a call with locals c holds, and will or did answer with.
Sound(c) ==
  /\ c.pc \in {"merge", "remerge"} => c.got.slot # 0
  /\ \/ c.pc \in {"merge", "remerge", "settle", "send"}
     \/ c.pc = "idle" /\ c.pda # NoPda
     => Genuine(c.pda, c.got.record)

\* A waiter and the owner of its fill ask for the same address.
WaitersMatched ==
  \A t, u \in Calls : At(t, "await") /\ Owns(u, calls[t].fill) =>
    calls[u].pda = calls[t].pda

\* What a fill was resolved with answers whoever waits for it.
WaitersSound ==
  \A t \in Calls : At(t, "await") /\ fills[calls[t].fill].state = "resolved" =>
    Genuine(calls[t].pda, fills[calls[t].fill].record)

AnswerInv ==
  /\ faults["exhaust"] <= Budget["exhaust"]
  /\ WaitersMatched
  /\ NoneExhausted => WaitersSound /\ \A t \in Calls : Sound(calls[t])

\* At the start nothing was asked for.
LEMMA AnswerInit == Init => AnswerInv
BY BoundAssumption
   DEF Init, Idle, AnswerInv, WaitersMatched, WaitersSound, Sound, At, Faults

\* The chain only grows: what it held it has held ever after.
LEMMA GenuineKept ==
  ASSUME TypeInv, [Next]_vars, NEW p, NEW r, Genuine(p, r)
  PROVE  Genuine(p, r)'
<1>0. chain \in Seq([Pdas -> Data])
  BY DEF TypeInv, TypeOK
<1>1. chain' = chain \/ \E c : chain' = Append(chain, c)
  <2>1. chain' = chain \/ \E q \in Pdas, d \in Data : ChainSlot(q, d)
    <3>1. ASSUME NEW t \in Calls, (\E q \in Pdas : get_record(t, q))
                                    \/ Advance(t) \/ Fetch(t) \/ Cancel(t)
          PROVE  chain' = chain
      <4>1. Advance(t) => chain' = chain
        BY DEF Advance, ReadEntry, AwaitFill, DiscardCancelled,
               InsertPlaceholder, UnsubscribeEvicted, subscribe,
               AbandonPlaceholder, ClaimPlaceholder, ArmNotified,
               ReadInstalled, MergeRefetched, MergeOwned, SettleEntry,
               ResolveFill
      <4>2. Fetch(t) \/ Cancel(t) => chain' = chain
        BY DEF Fetch, FetchAnswered, FetchFailed, FetchExhausted, Cancel
      <4> QED
        BY <3>1, <4>1, <4>2 DEF get_record
    <3>2. Updater => chain' = chain
      BY DEF Updater, update_cached_entry, notify_filled, SyncInterrupted,
             ClearEntry, SyncTerminated
    <3>3. Deliver \/ SyncInterrupt \/ SyncTerminate => chain' = chain
      BY DEF Deliver, SyncDeliver, SyncInterrupt, SyncTerminate
    <3> QED
      BY <3>1, <3>2, <3>3 DEF Next, vars
  <2> QED
    BY <2>1 DEF ChainSlot
<1>2. CASE chain' = chain
  BY <1>2 DEF Genuine, from_bytes
<1>3. ASSUME NEW c, chain' = Append(chain, c) PROVE Genuine(p, r)'
  <2>1. Len(chain') = Len(chain) + 1
        /\ \A s \in 1 .. Len(chain) : chain'[s] = chain[s]
    BY <1>0, <1>3
  <2>2. PICK s \in 1 .. Len(chain) : r = from_bytes(chain[s][p])
    BY DEF Genuine
  <2>3. s \in 1 .. Len(chain') /\ r = from_bytes(chain'[s][p])
    BY <1>0, <2>1, <2>2
  <2> QED
    BY <2>3 DEF Genuine, from_bytes
<1> QED
  BY <1>1, <1>2, <1>3

\* A filled entry holds a genuine record.
LEMMA EntryGenuine ==
  ASSUME SourceInv, TypeInv, NEW p \in Pdas, Filled(p)
  PROVE  Genuine(p, db[p].record)
<1>1. db[p].slot \in 1 .. now
  BY EntryType DEF Filled, DelegationEntry, SourceInv, EntryFaithful, TypeInv,
                   TypeOK
<1> QED
  BY <1>1 DEF SourceInv, EntryFaithful, Genuine

\* Steps that change neither a fill nor what a call holds and waits for.
LEMMA AnswerFrame ==
  ASSUME AnswerInv, TypeInv, [Next]_vars, fills' = fills,
         faults'["exhaust"] = faults["exhaust"],
         \A t \in Calls :
           /\ calls'[t].pc = calls[t].pc /\ calls'[t].pda = calls[t].pda
           /\ calls'[t].fill = calls[t].fill /\ calls'[t].got = calls[t].got
  PROVE  AnswerInv'
<1>1. WaitersMatched'
  BY DEF AnswerInv, WaitersMatched, At, Owns
<1>2. ASSUME NoneExhausted PROVE WaitersSound'
  BY <1>2, GenuineKept DEF AnswerInv, WaitersSound, At
<1>3. ASSUME NoneExhausted, NEW t \in Calls PROVE Sound(calls[t])'
  BY <1>3, GenuineKept DEF AnswerInv, Sound
<1> QED
  BY <1>1, <1>2, <1>3 DEF AnswerInv, NoneExhausted

\* Steps of one call, which resolves no fill.
LEMMA AnswerCall ==
  ASSUME AnswerInv, TypeInv, NEW t \in Calls, NEW c,
         chain' = chain, calls' = [calls EXCEPT ![t] = c],
         \A f \in Fills : fills'[f].state = "resolved" => fills'[f] = fills[f],
         faults'["exhaust"] \in Nat, faults'["exhaust"] <= faults["exhaust"],
         c.pc = "await" =>
           /\ c.fill \in Fills /\ fills'[c.fill].state # "resolved"
           /\ \A u \in Calls : Owns(u, c.fill) => calls[u].pda = c.pda,
         c.pc \in OwnerLocs =>
           \/ /\ calls[t].pc \in OwnerLocs
              /\ c.fill = calls[t].fill /\ c.pda = calls[t].pda
           \/ \A u \in Calls : calls[u].fill # c.fill,
         NoneExhausted /\ faults'["exhaust"] = faults["exhaust"] => Sound(c)
  PROVE  AnswerInv'
<1>0. calls'[t] = c /\ \A u \in Calls \ {t} : calls'[u] = calls[u]
  BY DEF TypeInv, TypeOK
<1>1. WaitersMatched'
  <2> SUFFICES ASSUME NEW w \in Calls, NEW u \in Calls, calls'[w].pc = "await",
                      calls'[u].pc \in OwnerLocs,
                      calls'[u].fill = calls'[w].fill
               PROVE  calls'[u].pda = calls'[w].pda
    BY DEF WaitersMatched, At, Owns
  <2>0. u # w
    BY DEF OwnerLocs
  <2>1. CASE w = t
    BY <1>0, <2>0, <2>1 DEF Owns
  <2>2. CASE u = t
    BY <1>0, <2>0, <2>2 DEF AnswerInv, WaitersMatched, At, Owns
  <2>3. CASE w # t /\ u # t
    BY <1>0, <2>3 DEF AnswerInv, WaitersMatched, At, Owns
  <2> QED
    BY <2>1, <2>2, <2>3
<1>2. \A p : \A r : Genuine(p, r)' <=> Genuine(p, r)
  BY DEF Genuine, from_bytes
<1>3. faults'["exhaust"] <= Budget["exhaust"]
      /\ (NoneExhausted' => NoneExhausted
                             /\ faults'["exhaust"] = faults["exhaust"])
  BY BoundAssumption DEF AnswerInv, NoneExhausted, TypeInv, TypeOK, Faults
<1>4. ASSUME NoneExhausted' PROVE WaitersSound'
  <2> SUFFICES ASSUME NEW w \in Calls, calls'[w].pc = "await",
                      fills'[calls'[w].fill].state = "resolved"
               PROVE  Genuine(calls'[w].pda, fills'[calls'[w].fill].record)
    BY <1>2 DEF WaitersSound, At
  <2>1. w # t
    BY <1>0
  <2>2. calls'[w] = calls[w] /\ calls[w].fill \in Fills
    BY <1>0, <2>1 DEF TypeInv, LocalsOK, Holding
  <2> QED
    BY <1>3, <1>4, <2>2 DEF AnswerInv, WaitersSound, At
<1>5. ASSUME NoneExhausted', NEW u \in Calls PROVE Sound(calls[u])'
  <2>1. Sound(calls'[u])
    BY <1>0, <1>3, <1>5 DEF AnswerInv
  <2> QED
    BY <1>2, <2>1 DEF Sound
<1> QED
  BY <1>1, <1>3, <1>4, <1>5 DEF AnswerInv

\* The owner's record answers everyone who waits for its fill.
LEMMA AnswerResolve ==
  ASSUME AnswerInv, TypeInv, NEW t \in Calls, ResolveFill(t)
  PROVE  AnswerInv'
<1> DEFINE f == calls[t].fill
           r == calls[t].got.record
<1>0. /\ calls[t].pc = "send" /\ f \in Fills /\ Owns(t, f)
      /\ fills'[f] = [state |-> "resolved", record |-> r]
      /\ \A g \in Fills \ {f} : fills'[g] = fills[g]
      /\ calls'[t].pc = "idle" /\ calls'[t].pda = calls[t].pda
      /\ calls'[t].got.record = r
      /\ \A u \in Calls \ {t} : calls'[u] = calls[u]
      /\ chain' = chain /\ faults' = faults
  BY DEF ResolveFill, Return, Idle, At, TypeInv, TypeOK, LocalsOK, Holding,
         OwnerLocs, Owns
<1>1. WaitersMatched'
  BY <1>0 DEF AnswerInv, WaitersMatched, At, Owns, OwnerLocs
<1>2. \A p : \A q : Genuine(p, q)' <=> Genuine(p, q)
  BY <1>0 DEF Genuine, from_bytes
<1>3. ASSUME NoneExhausted PROVE Genuine(calls[t].pda, r)
  BY <1>0, <1>3 DEF AnswerInv, Sound
<1>4. ASSUME NoneExhausted PROVE WaitersSound'
  <2> SUFFICES ASSUME NEW w \in Calls, calls'[w].pc = "await",
                      fills'[calls'[w].fill].state = "resolved"
               PROVE  Genuine(calls'[w].pda, fills'[calls'[w].fill].record)
    BY <1>2 DEF WaitersSound, At
  <2>1. w # t /\ calls'[w] = calls[w] /\ calls[w].fill \in Fills
    BY <1>0 DEF TypeInv, LocalsOK, Holding
  <2>2. CASE calls[w].fill = f
    <3>1. calls[w].pda = calls[t].pda
      BY <1>0, <2>1, <2>2 DEF AnswerInv, WaitersMatched, At
    <3> QED
      BY <1>0, <1>3, <1>4, <2>1, <2>2, <3>1
  <2>3. CASE calls[w].fill # f
    BY <1>0, <1>4, <2>1, <2>3 DEF AnswerInv, WaitersSound, At
  <2> QED
    BY <2>2, <2>3
<1>5. ASSUME NoneExhausted, NEW u \in Calls PROVE Sound(calls[u])'
  <2>1. CASE u = t
    BY <1>0, <1>2, <1>3, <1>5, <2>1 DEF Sound
  <2>2. CASE u # t
    BY <1>0, <1>2, <1>5, <2>2 DEF AnswerInv, Sound
  <2> QED
    BY <2>1, <2>2
<1> QED
  BY <1>0, <1>1, <1>4, <1>5 DEF AnswerInv, NoneExhausted

\* A call that returns a genuine record.
LEMMA AnswerReturn ==
  ASSUME AnswerInv, TypeInv, NEW t \in Calls, NEW r, Return(t, r),
         NoneExhausted => Genuine(calls[t].pda, r),
         UNCHANGED <<chain, fills, faults>>
  PROVE  AnswerInv'
<1> DEFINE c == [Idle EXCEPT !.pda = calls[t].pda,
                             !.got = [slot |-> 0, record |-> r]]
<1>1. /\ calls' = [calls EXCEPT ![t] = c] /\ c.pc = "idle"
      /\ c.pda = calls[t].pda /\ c.got.record = r
  BY DEF Return, Idle
<1>2. faults["exhaust"] \in Nat
  BY DEF TypeInv, TypeOK, Faults
<1> HIDE DEF c
<1>3. NoneExhausted => Sound(c)
  BY <1>1 DEF Sound
<1>4. faults'["exhaust"] \in Nat /\ faults'["exhaust"] <= faults["exhaust"]
  BY <1>2
<1>5. c.pc # "await" /\ c.pc \notin OwnerLocs
  BY <1>1 DEF OwnerLocs
<1> QED
  BY <1>1, <1>3, <1>4, <1>5, AnswerCall

\* A call that goes where it holds no record; it keeps the fill it owns.
LEMMA AnswerMove ==
  ASSUME AnswerInv, TypeInv, NEW t \in Calls, NEW c,
         chain' = chain, calls' = [calls EXCEPT ![t] = c],
         \A f \in Fills : fills'[f].state = "resolved" => fills'[f] = fills[f],
         faults'["exhaust"] = faults["exhaust"],
         c.pc \notin {"idle", "await", "merge", "remerge", "settle", "send"},
         c.pc \in OwnerLocs =>
           \/ /\ calls[t].pc \in OwnerLocs
              /\ c.fill = calls[t].fill /\ c.pda = calls[t].pda
           \/ \A u \in Calls : calls[u].fill # c.fill
  PROVE  AnswerInv'
<1>1. faults["exhaust"] \in Nat
  BY DEF TypeInv, TypeOK, Faults
<1>2. Sound(c)
  BY DEF Sound
<1>3. faults'["exhaust"] \in Nat /\ faults'["exhaust"] <= faults["exhaust"]
  BY <1>1
<1>4. c.pc # "await"
  OBVIOUS
<1> QED
  BY <1>2, <1>3, <1>4, AnswerCall

\* Only FetchExhausted spends what it is named for.
LEMMA SpendOther ==
  ASSUME TypeInv, NEW k \in Faults \ {"exhaust"}, Spend(k)
  PROVE  faults'["exhaust"] = faults["exhaust"]
BY DEF Spend, TypeInv, TypeOK, Faults

\* Steps of the chain, the sync service and the updater.
LEMMA AnswerOutside ==
  ASSUME AnswerInv, TypeInv, [Next]_vars,
         \/ \E p \in Pdas, d \in Data : ChainSlot(p, d)
         \/ Deliver \/ SyncInterrupt \/ SyncTerminate \/ Updater
         \/ UNCHANGED vars
  PROVE  AnswerInv'
<1>1. CASE notify_filled
  <2>1. ASSUME NEW t \in Calls
        PROVE  /\ calls'[t].pc = calls[t].pc /\ calls'[t].pda = calls[t].pda
               /\ calls'[t].fill = calls[t].fill /\ calls'[t].got = calls[t].got
    BY <1>1 DEF notify_filled, TypeInv, TypeOK, Call
  <2> QED
    BY <1>1, <2>1, AnswerFrame DEF notify_filled
<1>2. ASSUME UNCHANGED <<fills, calls>>, faults'["exhaust"] = faults["exhaust"]
      PROVE  AnswerInv'
  BY <1>2, AnswerFrame
<1>3. CASE SyncInterrupt \/ SyncTerminate
  BY <1>2, <1>3, SpendOther DEF SyncInterrupt, SyncTerminate, Faults
<1> QED
  BY <1>1, <1>2, <1>3
     DEF ChainSlot, Deliver, SyncDeliver, Updater, update_cached_entry,
         SyncInterrupted, SyncTerminated, ClearEntry, vars

\* The steps of get_record up to the claim of its placeholder.
LEMMA AnswerLookup ==
  ASSUME AnswerInv, FillInv, SourceInv, TypeInv, NEW t \in Calls,
         \/ \E p \in Pdas : get_record(t, p)
         \/ ReadEntry(t) \/ AwaitFill(t) \/ DiscardCancelled(t)
         \/ InsertPlaceholder(t) \/ UnsubscribeEvicted(t) \/ subscribe(t)
         \/ AbandonPlaceholder(t) \/ ClaimPlaceholder(t)
  PROVE  AnswerInv'
<1> USE DEF At
<1> DEFINE p == calls[t].pda
<1>0. /\ calls[t] \in Call
      /\ calls[t].pc # "idle" => p \in Pdas
      /\ fills \in [Fills -> FillState]
  BY DEF TypeInv, TypeOK, LocalsOK
<1>1. ASSUME NEW q \in Pdas, get_record(t, q) PROVE AnswerInv'
  <2> DEFINE c == [Idle EXCEPT !.pc = "read", !.pda = q]
  <2>1. /\ calls' = [calls EXCEPT ![t] = c] /\ c.pc = "read"
        /\ UNCHANGED <<chain, fills, faults>>
    BY <1>1 DEF get_record, Idle
  <2> HIDE DEF c
  <2> QED
    BY <2>1, AnswerMove DEF OwnerLocs
<1>2. ASSUME NEW loc \in Locations, Goto(t, loc),
             loc \notin {"idle", "await", "merge", "remerge", "settle", "send"},
             loc \in OwnerLocs => calls[t].pc \in OwnerLocs,
             UNCHANGED <<chain, fills, faults>>
      PROVE  AnswerInv'
  <2> DEFINE c == [calls[t] EXCEPT !.pc = loc]
  <2>1. /\ calls' = [calls EXCEPT ![t] = c] /\ c.pc = loc
        /\ c.fill = calls[t].fill /\ c.pda = p
    BY <1>0, <1>2 DEF Goto, Call
  <2> HIDE DEF c
  <2> QED
    BY <1>2, <2>1, AnswerMove
<1>3. CASE ReadEntry(t)
  <2>0. calls[t].pc = "read" /\ p \in Pdas /\ UNCHANGED <<chain, fills, faults>>
    BY <1>0, <1>3 DEF ReadEntry
  <2>1. CASE Goto(t, "insert")
    BY <1>2, <2>0, <2>1 DEF Locations, OwnerLocs
  <2>2. CASE db[p] # Vacant /\ db[p].slot # 0 /\ Return(t, db[p].record)
    BY <2>0, <2>2, EntryGenuine, AnswerReturn DEF Filled
  <2>3. CASE /\ db[p] # Vacant /\ db[p].fill # NoFill
             /\ calls' = [calls EXCEPT ![t].pc = "await",
                                       ![t].fill = db[p].fill]
    <3> DEFINE c == [calls[t] EXCEPT !.pc = "await", !.fill = db[p].fill]
    <3>1. calls' = [calls EXCEPT ![t] = c] /\ c.pc = "await"
          /\ c.fill = db[p].fill /\ c.pda = p
      BY <1>0, <2>3 DEF Call
    <3> HIDE DEF c
    <3>2. Pending(p) /\ db[p].fill \in Fills
      BY <2>0, <2>3, EntryType DEF Pending, DelegationEntry
    <3>3. fills[c.fill].state # "resolved"
      BY <2>0, <3>1, <3>2 DEF FillInv, EntriesOwned
    <3>4. ASSUME NEW u \in Calls, Owns(u, c.fill) PROVE calls[u].pda = c.pda
      <4>1. fills[db[p].fill].state = "pending"
        BY <3>1, <3>4 DEF FillInv, OwnersPending, Owns
      <4>2. PICK v \in Calls : Owns(v, db[p].fill) /\ calls[v].pda = p
        BY <2>0, <3>2, <4>1 DEF FillInv, EntriesOwned
      <4>3. u = v
        BY <3>1, <3>4, <4>2 DEF FillInv, OwnersDistinct, Owns
      <4> QED
        BY <3>1, <4>2, <4>3
    <3>5. faults'["exhaust"] \in Nat /\ faults'["exhaust"] <= faults["exhaust"]
      BY <2>0 DEF TypeInv, TypeOK, Faults
    <3>6. Sound(c) /\ c.pc \notin OwnerLocs
      BY <3>1 DEF Sound, OwnerLocs
    <3> QED
      BY <2>0, <3>1, <3>2, <3>3, <3>4, <3>5, <3>6, AnswerCall
  <2>4. CASE calls' = [calls EXCEPT ![t].pc = "refetch", ![t].min = db[p].min]
    <3> DEFINE c == [calls[t] EXCEPT !.pc = "refetch", !.min = db[p].min]
    <3>1. calls' = [calls EXCEPT ![t] = c] /\ c.pc = "refetch"
      BY <1>0, <2>4 DEF Call
    <3> HIDE DEF c
    <3> QED
      BY <2>0, <3>1, AnswerMove DEF OwnerLocs
  <2> QED
    BY <1>3, <2>1, <2>2, <2>3, <2>4 DEF ReadEntry
<1>4. CASE AwaitFill(t)
  <2>0. calls[t].pc = "await" /\ UNCHANGED <<chain, fills, faults>>
    BY <1>4 DEF AwaitFill
  <2> DEFINE f == fills[calls[t].fill]
  <2>1. CASE f.state = "resolved" /\ Return(t, f.record)
    <3>1. NoneExhausted => Genuine(p, f.record)
      BY <2>0, <2>1 DEF AnswerInv, WaitersSound
    <3> QED
      BY <2>0, <2>1, <3>1, AnswerReturn
  <2>2. CASE Goto(t, "discard")
    BY <1>2, <2>0, <2>2 DEF Locations, OwnerLocs
  <2> QED
    BY <1>4, <2>1, <2>2 DEF AwaitFill
<1>5. CASE DiscardCancelled(t)
  <2> DEFINE c == [calls[t] EXCEPT !.pc = "read", !.fill = NoFill]
  <2>1. calls' = [calls EXCEPT ![t] = c] /\ c.pc = "read"
        /\ UNCHANGED <<chain, fills, faults>>
    BY <1>0, <1>5 DEF DiscardCancelled, Call
  <2> HIDE DEF c
  <2> QED
    BY <2>1, AnswerMove DEF OwnerLocs
<1>6. CASE InsertPlaceholder(t)
  <2>1. CASE db[p] # Vacant
    BY <1>2, <1>6, <2>1 DEF InsertPlaceholder, Locations, OwnerLocs
  <2>2. CASE db[p] = Vacant
    <3> DEFINE f == NewFill
    <3>1. f \in Fills /\ f \notin Referenced
      BY <1>6, <2>2 DEF InsertPlaceholder, NewFill
    <3>2. /\ fills' = [fills EXCEPT ![f] = Unresolved] /\ chain' = chain
          /\ insert_new(t, p, f)
      BY <1>6, <2>2 DEF InsertPlaceholder
    <3> HIDE DEF f
    <3>3. \A u \in Calls : calls[u].fill # f
      BY <3>1 DEF Referenced
    <3>4. \A g \in Fills : fills'[g].state = "resolved" => fills'[g] = fills[g]
      BY <1>0, <3>1, <3>2 DEF Unresolved
    <3>5. PICK c : /\ calls' = [calls EXCEPT ![t] = c] /\ c.fill = f
                   /\ c.pc \in {"subscribe", "unsubscribe"}
      <4>1. CASE calls' = [calls EXCEPT ![t].pc = "subscribe", ![t].fill = f]
        <5> DEFINE c == [calls[t] EXCEPT !.pc = "subscribe", !.fill = f]
        <5>1. /\ calls' = [calls EXCEPT ![t] = c] /\ c.fill = f
              /\ c.pc = "subscribe"
          BY <1>0, <4>1 DEF Call
        <5> HIDE DEF c
        <5> QED
          BY <5>1
      <4>2. ASSUME NEW q, calls' = [calls EXCEPT ![t].pc = "unsubscribe",
                                       ![t].fill = f, ![t].evicted = q]
            PROVE  \E c : /\ calls' = [calls EXCEPT ![t] = c] /\ c.fill = f
                          /\ c.pc \in {"subscribe", "unsubscribe"}
        <5> DEFINE c == [calls[t] EXCEPT !.pc = "unsubscribe", !.fill = f,
                                         !.evicted = q]
        <5>1. /\ calls' = [calls EXCEPT ![t] = c] /\ c.fill = f
              /\ c.pc = "unsubscribe"
          BY <1>0, <4>2 DEF Call
        <5> HIDE DEF c
        <5> QED
          BY <5>1
      <4> QED
        BY <3>2, <4>1, <4>2 DEF insert_new
    <3>6. faults'["exhaust"] = faults["exhaust"]
      BY <3>2, SpendOther DEF insert_new, Faults
    <3> QED
      BY <3>2, <3>3, <3>4, <3>5, <3>6, AnswerMove
  <2> QED
    BY <2>1, <2>2
<1>7. CASE UnsubscribeEvicted(t)
  <2> DEFINE c == [calls[t] EXCEPT !.pc = "subscribe", !.evicted = NoPda]
  <2>1. /\ calls' = [calls EXCEPT ![t] = c] /\ UNCHANGED <<chain, fills, faults>>
        /\ c.pc = "subscribe" /\ c.fill = calls[t].fill /\ c.pda = p
        /\ calls[t].pc = "unsubscribe"
    BY <1>0, <1>7 DEF UnsubscribeEvicted, Call
  <2> HIDE DEF c
  <2> QED
    BY <2>1, AnswerMove DEF OwnerLocs
<1>8. CASE subscribe(t)
  <2>0. calls[t].pc = "subscribe" /\ UNCHANGED <<chain, fills, faults>>
    BY <1>8 DEF subscribe
  <2>1. CASE Goto(t, "abandon")
    BY <1>2, <2>0, <2>1 DEF Locations, OwnerLocs
  <2>2. CASE calls' = [calls EXCEPT ![t].pc = "claim",
                                    ![t].min = checked_sub(now, Rollback)]
    <3> DEFINE c == [calls[t] EXCEPT !.pc = "claim",
                                     !.min = checked_sub(now, Rollback)]
    <3>1. /\ calls' = [calls EXCEPT ![t] = c] /\ c.pc = "claim"
          /\ c.fill = calls[t].fill /\ c.pda = p
      BY <1>0, <2>2 DEF Call
    <3> HIDE DEF c
    <3> QED
      BY <2>0, <3>1, AnswerMove DEF OwnerLocs
  <2> QED
    BY <1>8, <2>1, <2>2 DEF subscribe
<1>9. ASSUME StartOver(t), calls[t].pc \in OwnerLocs, UNCHANGED <<chain, faults>>
      PROVE  AnswerInv'
  <2> DEFINE c == [calls[t] EXCEPT !.pc = "read", !.fill = NoFill, !.min = 0]
  <2>1. calls' = [calls EXCEPT ![t] = c] /\ c.pc = "read"
    BY <1>0, <1>9 DEF StartOver, Call
  <2>2. \A g \in Fills : fills'[g].state = "resolved" => fills'[g] = fills[g]
    BY <1>0, <1>9 DEF StartOver, drop_sender, FillState
  <2> HIDE DEF c
  <2> QED
    BY <1>9, <2>1, <2>2, AnswerMove DEF OwnerLocs
<1>10. CASE AbandonPlaceholder(t)
  BY <1>2, <1>9, <1>10 DEF AbandonPlaceholder, Locations, OwnerLocs
<1>11. CASE ClaimPlaceholder(t)
  BY <1>2, <1>9, <1>11 DEF ClaimPlaceholder, Locations, OwnerLocs
<1> QED
  BY <1>1, <1>3, <1>4, <1>5, <1>6, <1>7, <1>8, <1>10, <1>11

\* The answer of merge_fetched is what was fetched, or what a filled entry holds.
LEMMA MergeAnswer ==
  ASSUME SourceInv, TypeInv, NEW p \in Pdas, NEW new \in Fetched, NEW f,
         new.slot # 0, Genuine(p, new.record)
  PROVE  Genuine(p, merge_fetched(db[p], new, f).record)
<1> DEFINE r == merge_fetched(db[p], new, f).record
<1>1. \/ r = new.record
      \/ db[p] # Vacant /\ ~ (db[p].slot < new.slot) /\ r = db[p].record
  BY DEF merge_fetched
<1>2. ASSUME db[p] # Vacant, ~ (db[p].slot < new.slot) PROVE Filled(p)
  BY <1>2, EntryType DEF DelegationEntry, Fetched, Filled
<1> HIDE DEF r
<1> QED
  BY <1>1, <1>2, EntryGenuine, Zenon DEF r

\* The steps of get_record from its fetch to its answer.
LEMMA AnswerFetch ==
  ASSUME AnswerInv, SourceInv, TypeInv, NEW t \in Calls,
         \/ Fetch(t) \/ ArmNotified(t) \/ ReadInstalled(t)
         \/ MergeRefetched(t) \/ MergeOwned(t)
         \/ SettleEntry(t) \/ ResolveFill(t) \/ Cancel(t)
  PROVE  AnswerInv'
<1> USE DEF At
<1> DEFINE p == calls[t].pda
           new == calls[t].got
<1>0. /\ calls[t] \in Call /\ new \in Fetched
      /\ calls[t].pc # "idle" => p \in Pdas
      /\ fills \in [Fills -> FillState]
      /\ faults["exhaust"] \in Nat /\ faults \in [Faults -> Nat]
  BY DEF TypeInv, TypeOK, LocalsOK, Call, Faults
<1>1. ASSUME NEW c, calls' = [calls EXCEPT ![t] = c], UNCHANGED <<chain, fills>>,
             c.pc # "await", c.fill = calls[t].fill, c.pda = p,
             c.pc \in OwnerLocs => calls[t].pc \in OwnerLocs,
             faults'["exhaust"] \in Nat, faults'["exhaust"] <= faults["exhaust"],
             NoneExhausted /\ faults'["exhaust"] = faults["exhaust"] => Sound(c)
      PROVE  AnswerInv'
  <2>1. \A f \in Fills : fills'[f].state = "resolved" => fills'[f] = fills[f]
    BY <1>1
  <2> HIDE DEF p, new
  <2> QED
    BY <1>1, <2>1, AnswerCall DEF p
<1>2. ASSUME NEW e, GotFetched(t, e), calls[t].pc \in Fetching,
             UNCHANGED <<chain, fills>>,
             faults'["exhaust"] \in Nat, faults'["exhaust"] <= faults["exhaust"],
             NoneExhausted /\ faults'["exhaust"] = faults["exhaust"] =>
               e.slot # 0 /\ Genuine(p, e.record)
      PROVE  AnswerInv'
  <2> DEFINE loc == AfterFetch[calls[t].pc]
             c == [calls[t] EXCEPT !.pc = loc, !.got = e, !.attempt = 0,
                                   !.watch = "off"]
  <2>1. /\ calls' = [calls EXCEPT ![t] = c] /\ c.pc = loc
        /\ c.fill = calls[t].fill /\ c.pda = p /\ c.got = e
    BY <1>0, <1>2 DEF GotFetched, Call
  <2>2. /\ loc \in {"merge", "remerge", "send"}
        /\ loc \in OwnerLocs => calls[t].pc \in OwnerLocs
    BY <1>2 DEF AfterFetch, Fetching, OwnerLocs
  <2> HIDE DEF c, loc
  <2>3. NoneExhausted /\ faults'["exhaust"] = faults["exhaust"] => Sound(c)
    BY <1>2, <2>1, <2>2 DEF Sound
  <2>4. c.pc # "await" /\ (c.pc \in OwnerLocs => calls[t].pc \in OwnerLocs)
    BY <2>1, <2>2
  <2> QED
    BY <1>1, <1>2, <2>1, <2>3, <2>4
<1>3. ASSUME NEW s \in 1 .. now, FetchAnswered(t, s) PROVE AnswerInv'
  <2> DEFINE e == [slot |-> s, record |-> from_bytes(chain[s][p])]
  <2>1. e.slot # 0 /\ Genuine(p, e.record)
    BY DEF Genuine
  <2>2. /\ GotFetched(t, e) /\ calls[t].pc \in Fetching
        /\ UNCHANGED <<chain, fills, faults>>
    BY <1>3 DEF FetchAnswered
  <2> HIDE DEF e
  <2>3. faults'["exhaust"] \in Nat /\ faults'["exhaust"] <= faults["exhaust"]
    BY <1>0, <2>2
  <2> QED
    BY <1>2, <2>1, <2>2, <2>3
<1>4. CASE FetchExhausted(t)
  <2>1. /\ faults["exhaust"] > 0
        /\ faults' = [faults EXCEPT !["exhaust"] = @ - 1]
    BY <1>4 DEF FetchExhausted, Spend
  <2>2. /\ faults'["exhaust"] \in Nat /\ faults'["exhaust"] <= faults["exhaust"]
        /\ faults'["exhaust"] # faults["exhaust"]
    BY <1>0, <2>1 DEF Faults
  <2> QED
    BY <1>2, <1>4, <2>2 DEF FetchExhausted
<1>5. ASSUME NEW c, calls' = [calls EXCEPT ![t] = c], c.pc = calls[t].pc,
             c.fill = calls[t].fill, c.pda = p,
             calls[t].pc \in Fetching, UNCHANGED <<chain, fills, faults>>
      PROVE  AnswerInv'
  <2>1. c.pc \notin {"idle", "await", "merge", "remerge", "settle", "send"}
    BY <1>5 DEF Fetching
  <2> QED
    BY <1>5, <2>1, AnswerMove
<1>6. CASE FetchFailed(t)
  <2> DEFINE c == [calls[t] EXCEPT !.attempt = @ + 1]
  <2>1. /\ calls' = [calls EXCEPT ![t] = c] /\ c.pc = calls[t].pc
        /\ c.fill = calls[t].fill /\ c.pda = p
    BY <1>0, <1>6 DEF FetchFailed, Call
  <2> HIDE DEF c
  <2> QED
    BY <1>5, <1>6, <2>1 DEF FetchFailed
<1>7. CASE ArmNotified(t)
  <2> DEFINE c == [calls[t] EXCEPT !.watch = "armed"]
  <2>1. /\ calls' = [calls EXCEPT ![t] = c] /\ c.pc = calls[t].pc
        /\ c.fill = calls[t].fill /\ c.pda = p
    BY <1>0, <1>7 DEF ArmNotified, Call
  <2> HIDE DEF c
  <2> QED
    BY <1>5, <1>7, <2>1 DEF ArmNotified, Fetching
<1>8. CASE ReadInstalled(t)
  <2>0. /\ calls[t].pc = "select" /\ p \in Pdas
        /\ UNCHANGED <<chain, fills, faults>>
    BY <1>0, <1>8 DEF ReadInstalled
  <2>1. CASE db[p] # Vacant /\ db[p].slot # 0
    <3> DEFINE c == [calls[t] EXCEPT !.pc = "settle", !.attempt = 0,
                       !.got = [slot |-> 0, record |-> db[p].record],
                       !.watch = "off"]
    <3>1. /\ calls' = [calls EXCEPT ![t] = c] /\ c.pc = "settle"
          /\ c.fill = calls[t].fill /\ c.pda = p /\ c.got.record = db[p].record
      BY <1>0, <1>8, <2>1 DEF ReadInstalled, Call
    <3> HIDE DEF c
    <3>2. Genuine(p, db[p].record)
      BY <2>0, <2>1, EntryGenuine DEF Filled
    <3>3. Sound(c)
      BY <3>1, <3>2 DEF Sound
    <3>4. /\ c.pc # "await" /\ calls[t].pc \in OwnerLocs
          /\ faults'["exhaust"] \in Nat
          /\ faults'["exhaust"] <= faults["exhaust"]
      BY <1>0, <2>0, <3>1 DEF OwnerLocs
    <3> QED
      BY <1>1, <2>0, <3>1, <3>3, <3>4
  <2>2. CASE ~ (db[p] # Vacant /\ db[p].slot # 0)
    <3> DEFINE c == [calls[t] EXCEPT !.watch =
                       IF @ = "signalled" THEN "off" ELSE "waiting"]
    <3>1. /\ calls' = [calls EXCEPT ![t] = c] /\ c.pc = calls[t].pc
          /\ c.fill = calls[t].fill /\ c.pda = p
      BY <1>0, <1>8, <2>2 DEF ReadInstalled, Call
    <3> HIDE DEF c
    <3> QED
      BY <1>5, <2>0, <3>1 DEF Fetching
  <2> QED
    BY <2>1, <2>2
<1>9. ASSUME NoneExhausted, calls[t].pc \in {"merge", "remerge"}, NEW f
      PROVE  Genuine(p, merge_fetched(db[p], new, f).record)
  <2>1. p \in Pdas /\ new.slot # 0 /\ Genuine(p, new.record)
    BY <1>0, <1>9 DEF AnswerInv, Sound
  <2> HIDE DEF p, new
  <2> QED
    BY <1>0, <2>1, MergeAnswer DEF new
<1>10. CASE MergeRefetched(t)
  <2> DEFINE r == merge_fetched(db[p], new, NoFill).record
  <2>1. calls[t].pc = "remerge" /\ Return(t, r)
        /\ UNCHANGED <<chain, fills, faults>>
    BY <1>10 DEF MergeRefetched
  <2>2. NoneExhausted => Genuine(p, r)
    BY <1>9, <2>1
  <2> HIDE DEF r
  <2> QED
    BY <2>1, <2>2, AnswerReturn
<1>11. CASE MergeOwned(t)
  <2> DEFINE r == merge_fetched(db[p], new, calls[t].fill).record
             c == [calls[t] EXCEPT !.pc = "settle", !.got.record = r]
  <2>1. calls[t].pc = "merge" /\ UNCHANGED <<chain, fills, faults>>
    BY <1>11 DEF MergeOwned
  <2>2. NoneExhausted => Genuine(p, r)
    BY <1>9, <2>1
  <2>3. calls' = [calls EXCEPT ![t].pc = "settle", ![t].got.record = r]
    BY <1>11 DEF MergeOwned
  <2> HIDE DEF r
  <2>4. /\ calls' = [calls EXCEPT ![t] = c] /\ c.pc = "settle"
        /\ c.fill = calls[t].fill /\ c.pda = p /\ c.got.record = r
    BY <1>0, <2>3 DEF Call, Fetched
  <2> HIDE DEF c
  <2>5. NoneExhausted => Sound(c)
    BY <2>2, <2>4 DEF Sound
  <2>6. /\ c.pc # "await" /\ calls[t].pc \in OwnerLocs
        /\ faults'["exhaust"] \in Nat /\ faults'["exhaust"] <= faults["exhaust"]
    BY <1>0, <2>1, <2>4 DEF OwnerLocs
  <2> QED
    BY <1>1, <2>1, <2>4, <2>5, <2>6
<1>12. CASE SettleEntry(t)
  <2> DEFINE c == [calls[t] EXCEPT !.pc = "send"]
  <2>1. /\ calls' = [calls EXCEPT ![t] = c] /\ c.pc = "send"
        /\ c.fill = calls[t].fill /\ c.pda = p /\ c.got = new
        /\ calls[t].pc = "settle" /\ UNCHANGED <<chain, fills, faults>>
    BY <1>0, <1>12 DEF SettleEntry, Goto, Call
  <2> HIDE DEF c
  <2>2. NoneExhausted => Sound(c)
    <3>1. NoneExhausted => Sound(calls[t])
      BY DEF AnswerInv
    <3> QED
      BY <2>1, <3>1 DEF Sound
  <2>3. /\ c.pc # "await" /\ calls[t].pc \in OwnerLocs
        /\ faults'["exhaust"] \in Nat /\ faults'["exhaust"] <= faults["exhaust"]
    BY <1>0, <2>1 DEF OwnerLocs
  <2> QED
    BY <1>1, <2>1, <2>2, <2>3
<1>13. CASE Cancel(t)
  <2>1. /\ calls' = [calls EXCEPT ![t] = Idle] /\ chain' = chain
        /\ Idle.pc = "idle" /\ Idle.pda = NoPda
    BY <1>13 DEF Cancel, Idle
  <2>2. \A g \in Fills : fills'[g].state = "resolved" => fills'[g] = fills[g]
    BY <1>0, <1>13 DEF Cancel, drop_sender, FillState
  <2>3. faults'["exhaust"] = faults["exhaust"]
    BY <1>13, SpendOther DEF Cancel, Faults
  <2>4. Sound(Idle) /\ Idle.pc # "await" /\ Idle.pc \notin OwnerLocs
        /\ faults'["exhaust"] \in Nat /\ faults'["exhaust"] <= faults["exhaust"]
    BY <1>0, <2>1, <2>3 DEF Sound, OwnerLocs
  <2> QED
    BY <2>1, <2>2, <2>4, AnswerCall
<1> QED
  BY <1>3, <1>4, <1>6, <1>7, <1>8, <1>10, <1>11, <1>12, <1>13, AnswerResolve
     DEF Fetch

\* Every step keeps the invariant.
LEMMA AnswerStep ==
  AnswerInv /\ FillInv /\ SourceInv /\ TypeInv /\ [Next]_vars => AnswerInv'
BY AnswerOutside, AnswerLookup, AnswerFetch DEF Next, Advance

\* As long as no fetch has run out of attempts, get_record answers with a record
\* that the address had at some slot (or with None, if there was none), never
\* with the None of a placeholder nor with the record of another address.
THEOREM AnswersAlwaysTrue == Spec => [](NoneExhausted => AnswersTrue)
<1>1. Spec => []TypeInv
  BY TypeInit, TypeStep, PTL DEF Spec
<1>2. Spec => []FillInv
  BY <1>1, FillInit, FillStep, PTL DEF Spec
<1>3. Spec => []SourceInv
  BY <1>1, SourceInit, SourceStep, PTL DEF Spec
<1>4. Spec => []AnswerInv
  BY <1>1, <1>2, <1>3, AnswerInit, AnswerStep, PTL DEF Spec
<1>5. AnswerInv => (NoneExhausted => AnswersTrue)
  BY DEF AnswerInv, Sound, AnswersTrue, Genuine, At
<1> QED
  BY <1>4, <1>5, PTL

-----------------------------------------------------------------------------
(* The coherence strategy: no change of the chain is lost to a filled      *)
(* entry, as long as nothing was evicted, the sync service has not ended   *)
(* and no fetch has given up.  Interruptions and cancellations are free.   *)

Unforgiving == {"evict", "terminate", "exhaust"}
Spared == \A k \in Unforgiving : faults[k] = Budget[k]

\* Every change of p after slot k is on its way to the updater, or the
\* updater is about to drop the entry.
Covered(p, s) == Undelivered(p, s) \/ Queued(p, s) \/ Dropping(p)
CoveredFrom(p, k) ==
  \A s \in 1 .. now : k < s /\ Changed(p, s) => Covered(p, s)

\* The change of p at slot s is in the channel behind message i, or so is an
\* interruption.
QueuedBehind(i, p, s) ==
  \E j \in DOMAIN stream :
    /\ i < j
    /\ \/ stream[j].type = "interrupted"
       \/ stream[j].type = "update" /\ stream[j].pda = p /\ stream[j].slot = s

\* The service runs and follows what it has sent; it will send, or has sent
\* behind a message, all the later changes of the address of the message.
MessageCoherent(i) ==
  /\ stream[i].type # "terminated"
  /\ stream[i].type = "update" =>
       /\ stream[i].pda \in subs
       /\ \A s \in 1 .. now :
            stream[i].slot < s /\ Changed(stream[i].pda, s) =>
              \/ Undelivered(stream[i].pda, s)
              \/ QueuedBehind(i, stream[i].pda, s)
StreamCoherent == alive /\ \A i \in DOMAIN stream : MessageCoherent(i)

\* An entry is filled, and then followed and covered, or it is the placeholder
\* of a fill.
EntryCoherent(p) ==
  /\ db[p] # Vacant => (Filled(p) <=> ~ Pending(p))
  /\ Filled(p) => p \in subs /\ CoveredFrom(p, db[p].slot)

\* No call is on a path of failure.  The owner of a placeholder may install
\* whatever it fetches from its min_context_slot on, and once it has the record
\* its fill is out of the cache.
Claiming == {"claim", "select", "merge"}
OwnEntry(t) == /\ db[calls[t].pda] # Vacant
               /\ db[calls[t].pda].fill = calls[t].fill
CallCoherent(t) ==
  /\ calls[t].pc \notin {"unsubscribe", "abandon", "detached", "refetch",
                         "remerge"}
  /\ calls[t].pc = "merge" =>
       calls[t].got.slot # 0 /\ calls[t].min <= calls[t].got.slot
  /\ calls[t].pc = "settle" => ~ OwnEntry(t)
  /\ calls[t].pc \in Claiming =>
       /\ calls[t].pda \in subs
       /\ OwnEntry(t) => CoveredFrom(calls[t].pda, calls[t].min)

CoherenceInv ==
  /\ \A k \in Unforgiving : faults[k] <= Budget[k]
  /\ \A p \in Pdas : cursor[p] <= now
  /\ Spared => /\ StreamCoherent
               /\ \A p \in Pdas : EntryCoherent(p)
               /\ \A t \in Calls : CallCoherent(t)

\* At the start there is nothing to cover.
LEMMA CoherenceInit == Init => CoherenceInv
<1> SUFFICES ASSUME Init PROVE CoherenceInv
  OBVIOUS
<1>1. /\ Len(chain) = 1 /\ stream = <<>> /\ alive
      /\ \A p \in Pdas : db[p] = Vacant /\ cursor[p] = 0
      /\ \A t \in Calls : calls[t].pc = "idle"
      /\ faults = Budget
  BY DEF Init, Idle
<1>2. \A k \in Unforgiving : faults[k] <= Budget[k]
  BY <1>1, BoundAssumption DEF Unforgiving, Faults
<1>3. StreamCoherent
  BY <1>1 DEF StreamCoherent
<1>4. \A p \in Pdas : EntryCoherent(p)
  BY <1>1 DEF EntryCoherent, Filled
<1>5. \A t \in Calls : CallCoherent(t)
  BY <1>1 DEF CallCoherent, Claiming
<1> QED
  BY <1>1, <1>2, <1>3, <1>4, <1>5 DEF CoherenceInv

\* What may become of a call and of an entry in a step.
Unmoved(t) ==
  /\ calls'[t].pc = calls[t].pc /\ calls'[t].pda = calls[t].pda
  /\ calls'[t].fill = calls[t].fill /\ calls'[t].min = calls[t].min
  /\ calls'[t].got = calls[t].got
Continued(p) ==
  \/ db'[p] = Vacant
  \/ /\ db[p] # Vacant
     /\ db'[p].fill = db[p].fill /\ db'[p].slot = db[p].slot
     /\ \A k \in Nat :
          /\ Pending(p) \/ k = db[p].slot
          /\ p \in subs /\ CoveredFrom(p, k)
          => CoveredFrom(p, k)'
  \/ /\ db'[p].slot = 0 /\ db'[p].fill \in Fills
     /\ \A u \in Calls : Unmoved(u) => calls[u].fill # db'[p].fill
  \/ /\ db'[p].slot # 0 /\ db'[p].fill = NoFill
     /\ (p \in subs /\ CoveredFrom(p, db[p].slot))'

\* No fault is ever given back.
LEMMA NeverSparedAgain ==
  ASSUME CoherenceInv, TypeInv,
         \A k \in Unforgiving : faults'[k] \in Nat /\ faults'[k] <= faults[k]
  PROVE  /\ \A k \in Unforgiving : faults'[k] <= Budget[k]
         /\ Spared' => Spared
<1>1. ASSUME NEW k \in Unforgiving
      PROVE  /\ faults'[k] <= Budget[k]
             /\ faults'[k] = Budget[k] => faults[k] = Budget[k]
  <2>1. faults[k] \in Nat /\ Budget[k] \in Nat /\ faults[k] <= Budget[k]
    BY BoundAssumption DEF CoherenceInv, Unforgiving, TypeInv, TypeOK, Faults
  <2> QED
    BY <2>1
<1> QED
  BY <1>1 DEF Spared

\* Steps that keep the coherence of the entries keep that of the calls.
LEMMA CoherenceFrame ==
  ASSUME CoherenceInv, TypeInv,
         \A k \in Unforgiving : faults'[k] \in Nat /\ faults'[k] <= faults[k],
         \A p \in Pdas : (cursor[p] <= now)',
         Spared => /\ subs \subseteq subs'
                   /\ Spared' => StreamCoherent'
                   /\ Spared' => \A p \in Pdas : Continued(p)
                   /\ Spared' => \A t \in Calls : Unmoved(t) \/ CallCoherent(t)'
  PROVE  CoherenceInv'
<1>1. /\ \A k \in Unforgiving : faults'[k] <= Budget[k]
      /\ Spared' => Spared
  BY NeverSparedAgain
<1> SUFFICES ASSUME Spared'
             PROVE  /\ StreamCoherent'
                    /\ \A p \in Pdas : EntryCoherent(p)'
                    /\ \A t \in Calls : CallCoherent(t)'
  BY <1>1 DEF CoherenceInv
<1>2. /\ subs \subseteq subs' /\ StreamCoherent'
      /\ \A p \in Pdas : Continued(p) /\ EntryCoherent(p)
      /\ \A t \in Calls : CallCoherent(t) /\ (Unmoved(t) \/ CallCoherent(t)')
  BY <1>1 DEF CoherenceInv
<1>3. ASSUME NEW p \in Pdas PROVE EntryCoherent(p)'
  <2>1. CASE db'[p] = Vacant
    BY <2>1 DEF EntryCoherent, Filled
  <2>2. CASE /\ db[p] # Vacant
             /\ db'[p].fill = db[p].fill /\ db'[p].slot = db[p].slot
             /\ \A k \in Nat : /\ Pending(p) \/ k = db[p].slot
                               /\ p \in subs /\ CoveredFrom(p, k)
                               => CoveredFrom(p, k)'
    <3>1. PICK k \in Nat : k = db[p].slot
      BY <2>2, EntryType DEF DelegationEntry
    <3>2. Filled(p) => CoveredFrom(p, k)' /\ p \in subs'
      BY <1>2, <2>2, <3>1 DEF EntryCoherent
    <3>3. Filled(p) => CoveredFrom(p, db[p].slot)'
      BY <2>2, <3>1, <3>2 DEF CoveredFrom
    <3> QED
      BY <1>2, <2>2, <3>2, <3>3 DEF EntryCoherent, Filled, Pending
  <2>3. CASE db'[p].slot = 0 /\ db'[p].fill \in Fills
    BY <2>3, SentinelAssumption DEF EntryCoherent, Filled, Pending
  <2>4. CASE /\ db'[p].slot # 0 /\ db'[p].fill = NoFill
             /\ (p \in subs /\ CoveredFrom(p, db[p].slot))'
    BY <2>4 DEF EntryCoherent, Filled, Pending
  <2> QED
    BY <1>2, <2>1, <2>2, <2>3, <2>4 DEF Continued
<1>4. ASSUME NEW t \in Calls, Unmoved(t) PROVE CallCoherent(t)'
  <2>1. PICK p, k : p = calls[t].pda /\ k = calls[t].min
    OBVIOUS
  <2>2. /\ calls[t].pc \in Claiming \cup {"settle"} =>
             p \in Pdas /\ calls[t].fill \in Fills /\ k \in Nat
        /\ CallCoherent(t)
    BY <1>2, <2>1
       DEF TypeInv, TypeOK, LocalsOK, Holding, OwnerLocs, Claiming, Call
  <2>3. ASSUME calls[t].pc \in Claiming \cup {"settle"}, OwnEntry(t)'
        PROVE  /\ db[p] # Vacant /\ db[p].fill = calls[t].fill
               /\ p \in subs /\ CoveredFrom(p, k) => CoveredFrom(p, k)'
    <3>1. p \in Pdas /\ calls[t].fill \in Fills /\ k \in Nat
      BY <2>2, <2>3
    <3>2. db'[p] # Vacant /\ db'[p].fill = calls[t].fill
      BY <1>4, <2>1, <2>3 DEF OwnEntry, Unmoved
    <3>3. /\ db[p] # Vacant /\ db'[p].fill = db[p].fill
          /\ \A i \in Nat : /\ Pending(p) \/ i = db[p].slot
                            /\ p \in subs /\ CoveredFrom(p, i)
                            => CoveredFrom(p, i)'
      BY <1>2, <1>4, <3>1, <3>2, SentinelAssumption DEF Continued
    <3>4. Pending(p)
      BY <3>1, <3>2, <3>3, SentinelAssumption DEF Pending
    <3> QED
      BY <3>1, <3>2, <3>3, <3>4
  <2>4. calls[t].pc = "settle" => ~ OwnEntry(t)'
    BY <2>1, <2>2, <2>3 DEF CallCoherent, OwnEntry
  <2>5. calls[t].pc \in Claiming =>
          p \in subs' /\ (OwnEntry(t)' => CoveredFrom(p, k)')
    BY <1>2, <2>1, <2>2, <2>3 DEF CallCoherent, OwnEntry
  <2>6. CoveredFrom(p, k)' => CoveredFrom(calls[t].pda, calls[t].min)'
    BY <1>4, <2>1 DEF CoveredFrom, Covered, Unmoved, Undelivered, Queued,
                      Dropping, Changed
  <2> QED
    BY <1>4, <2>1, <2>2, <2>4, <2>5, <2>6 DEF CallCoherent, Unmoved
<1> QED
  BY <1>2, <1>3, <1>4

\* Coverage depends on the chain, the sync service, the channel and the updater.
LEMMA SameCover ==
  ASSUME UNCHANGED <<chain, sync, stream, clearing>>
  PROVE  /\ \A p, k : CoveredFrom(p, k)' <=> CoveredFrom(p, k)
         /\ StreamCoherent' <=> StreamCoherent
<1> USE DEF Changed, Undelivered
<1>1. \A p, k : CoveredFrom(p, k)' <=> CoveredFrom(p, k)
  BY DEF sync, CoveredFrom, Covered, Queued, Dropping
<1>2. StreamCoherent' <=> StreamCoherent
  BY DEF sync, StreamCoherent, MessageCoherent, QueuedBehind
<1> QED
  BY <1>1, <1>2

\* What a step of a call may do to an entry.
Kept(p) ==
  \/ db'[p] = Vacant
  \/ db[p] # Vacant /\ db'[p].fill = db[p].fill /\ db'[p].slot = db[p].slot
  \/ /\ db'[p].slot = 0 /\ db'[p].fill \in Fills
     /\ \A u \in Calls : calls[u].fill # db'[p].fill
  \/ /\ db'[p].slot # 0 /\ db'[p].fill = NoFill
     /\ p \in subs /\ \E k : k = db'[p].slot /\ CoveredFrom(p, k)

\* Steps of one call that concern neither the sync service nor the channel.
LEMMA CoherenceCall ==
  ASSUME CoherenceInv, TypeInv, NEW t \in Calls, NEW c,
         calls' = [calls EXCEPT ![t] = c],
         UNCHANGED <<chain, sync, stream, clearing>>,
         \A k \in Unforgiving : faults'[k] \in Nat /\ faults'[k] <= faults[k],
         Spared /\ Spared' => (\A p \in Pdas : Kept(p)) /\ CallCoherent(t)'
  PROVE  CoherenceInv'
<1>1. \A u \in Calls \ {t} : Unmoved(u)
  BY DEF TypeInv, TypeOK, Unmoved
<1>2. UNCHANGED <<chain, subs, cursor, alive>>
  BY DEF sync
<1>3. \A p \in Pdas : (cursor[p] <= now)'
  BY <1>2 DEF CoherenceInv
<1>4. Spared => StreamCoherent'
  BY SameCover DEF CoherenceInv
<1>5. ASSUME NEW p \in Pdas, Kept(p) PROVE Continued(p)
  <2>1. \A k : CoveredFrom(p, k)' <=> CoveredFrom(p, k)
    BY SameCover
  <2>2. CASE db'[p] = Vacant
    BY <2>2 DEF Continued
  <2>3. CASE db[p] # Vacant /\ db'[p].fill = db[p].fill
             /\ db'[p].slot = db[p].slot
    BY <2>1, <2>3 DEF Continued
  <2>4. CASE /\ db'[p].slot = 0 /\ db'[p].fill \in Fills
             /\ \A u \in Calls : calls[u].fill # db'[p].fill
    BY <2>4 DEF Continued
  <2>5. CASE /\ db'[p].slot # 0 /\ db'[p].fill = NoFill
             /\ p \in subs /\ \E k : k = db'[p].slot /\ CoveredFrom(p, k)
    <3>1. PICK k : k = db'[p].slot /\ CoveredFrom(p, k)
      BY <2>5
    <3>2. CoveredFrom(p, k)'
      BY <2>1, <3>1
    <3>3. CoveredFrom(p, db[p].slot)'
      BY <3>1, <3>2 DEF CoveredFrom
    <3> QED
      BY <1>2, <2>5, <3>3 DEF Continued
  <2> QED
    BY <1>5, <2>2, <2>3, <2>4, <2>5 DEF Kept
<1> QED
  BY <1>1, <1>2, <1>3, <1>4, <1>5, CoherenceFrame

\* Where a call relies on nothing.
Resting == {"idle", "read", "await", "discard", "insert", "subscribe", "send"}

\* A call goes where it relies on nothing, and entries stay or go.
LEMMA CoherenceMove ==
  ASSUME CoherenceInv, TypeInv, NEW t \in Calls, NEW c,
         calls' = [calls EXCEPT ![t] = c],
         UNCHANGED <<chain, sync, stream, clearing>>,
         \A k \in Unforgiving : faults'[k] = faults[k],
         c.pc \in Resting,
         \A p \in Pdas : db'[p] \in {db[p], Vacant}
  PROVE  CoherenceInv'
<1>1. \A k \in Unforgiving : faults'[k] \in Nat /\ faults'[k] <= faults[k]
  BY DEF TypeInv, TypeOK, Unforgiving, Faults
<1>2. \A p \in Pdas : Kept(p)
  BY DEF Kept
<1>3. calls'[t].pc \in Resting
  BY DEF TypeInv, TypeOK
<1>4. CallCoherent(t)'
  BY <1>3 DEF CallCoherent, Resting, Claiming
<1> QED
  BY <1>1, <1>2, <1>4, CoherenceCall

\* The faults that a step may spend without loss.
LEMMA SpendForgiven ==
  ASSUME TypeInv, NEW f \in Faults \ Unforgiving, Spend(f)
  PROVE  \A k \in Unforgiving : faults'[k] = faults[k]
BY DEF Spend, TypeInv, TypeOK, Faults, Unforgiving

\* The others end what the invariant says.
LEMMA SpendUnforgiven ==
  ASSUME TypeInv, NEW f \in Unforgiving, Spend(f)
  PROVE  /\ ~ (Spared /\ Spared')
         /\ \A k \in Unforgiving : faults'[k] \in Nat /\ faults'[k] <= faults[k]
<1>1. /\ faults \in [Faults -> Nat] /\ f \in Faults /\ faults[f] > 0
      /\ faults' = [faults EXCEPT ![f] = @ - 1]
  BY DEF Spend, TypeInv, TypeOK, Faults, Unforgiving
<1>2. faults'[f] = faults[f] - 1 /\ faults[f] \in Nat
  BY <1>1
<1>3. \A k \in Faults \ {f} : faults'[k] = faults[k] /\ faults[k] \in Nat
  BY <1>1
<1>4. Unforgiving \subseteq Faults
  BY DEF Faults, Unforgiving
<1>5. faults'[f] # faults[f]
  BY <1>2
<1>6. ~ (Spared /\ Spared')
  BY <1>5 DEF Spared
<1>7. \A k \in Unforgiving : faults'[k] \in Nat /\ faults'[k] <= faults[k]
  BY <1>1, <1>2, <1>3, <1>4
<1> QED
  BY <1>6, <1>7

\* Nothing is left to show once a change may have been lost.
LEMMA CoherenceLost ==
  ASSUME CoherenceInv, TypeInv, ~ (Spared /\ Spared'),
         \A k \in Unforgiving : faults'[k] \in Nat /\ faults'[k] <= faults[k],
         \A p \in Pdas : (cursor[p] <= now)'
  PROVE  CoherenceInv'
<1>1. /\ \A k \in Unforgiving : faults'[k] <= Budget[k]
      /\ Spared' => Spared
  BY NeverSparedAgain
<1> QED
  BY <1>1 DEF CoherenceInv

\* A step that spends no fault and leaves the sync service alone.
LEMMA CoherenceCannot ==
  ASSUME CoherenceInv, TypeInv, ~ Spared, faults' = faults,
         UNCHANGED <<chain, cursor>>
  PROVE  CoherenceInv'
<1>1. \A k \in Unforgiving : faults'[k] \in Nat /\ faults'[k] <= faults[k]
  BY DEF TypeInv, TypeOK, Unforgiving, Faults
<1>2. \A p \in Pdas : (cursor[p] <= now)'
  BY DEF CoherenceInv
<1> QED
  BY <1>1, <1>2, CoherenceLost

\* The subscription covers what the fetch may miss: the service replays at
\* least as many slots as the RPC node may lag behind.
LEMMA CoherenceSubscribe ==
  ASSUME CoherenceInv, TypeInv, Rollback <= ReplayWindow,
         NEW t \in Calls, subscribe(t)
  PROVE  CoherenceInv'
<1>0. /\ calls[t] \in Call /\ calls[t].pc = "subscribe" /\ calls[t].pda \in Pdas
      /\ UNCHANGED <<chain, alive, stream, db, clearing, faults>>
      /\ now \in Nat /\ Rollback \in Nat /\ ReplayWindow \in Nat
      /\ cursor \in [Pdas -> Nat]
      /\ \A q \in Pdas : cursor[q] <= now
  BY BoundAssumption
     DEF subscribe, At, updater, TypeInv, TypeOK, LocalsOK, CoherenceInv
<1>1. CASE ~ alive
  <2>1. ~ Spared /\ UNCHANGED cursor
    BY <1>1 DEF subscribe, CoherenceInv, StreamCoherent
  <2> QED
    BY <1>0, <2>1, CoherenceCannot
<1>2. CASE alive
  <2> DEFINE from == checked_sub(now, ReplayWindow)
             min == checked_sub(now, Rollback)
  <2>p. PICK p \in Pdas : p = calls[t].pda
    BY <1>0
  <2>1. from \in Nat /\ min \in Nat /\ from <= min /\ from <= now
    BY <1>0 DEF checked_sub
  <2>2. /\ subs' = subs \cup {p}
        /\ cursor' = [cursor EXCEPT
                        ![p] = IF p \in subs /\ @ < from THEN @ ELSE from]
        /\ calls' = [calls EXCEPT ![t].pc = "claim", ![t].min = min]
    BY <1>2, <2>p DEF subscribe
  <2>c. calls'[t].pc = "claim" /\ calls'[t].min = min /\ calls'[t].pda = p
    BY <1>0, <2>p, <2>2 DEF TypeInv, TypeOK, Call
  <2>d. \A u \in Calls \ {t} : Unmoved(u)
    BY <2>2 DEF TypeInv, TypeOK, Unmoved
  <2> HIDE DEF from, min
  <2>3. /\ \A q \in Pdas : cursor'[q] <= now
        /\ \A q \in subs : q \in Pdas => cursor'[q] <= cursor[q]
        /\ cursor'[p] <= min
    <3>1. \A q \in Pdas \ {p} : cursor'[q] = cursor[q] /\ cursor[q] \in Nat
      BY <1>0, <2>2
    <3>2. /\ cursor'[p] = IF p \in subs /\ cursor[p] < from THEN cursor[p]
                                                             ELSE from
          /\ cursor[p] \in Nat
      BY <1>0, <2>2
    <3> QED
      BY <1>0, <2>1, <3>1, <3>2
  <2>4. ASSUME NEW q \in Pdas, NEW s \in 1 .. now, Undelivered(q, s)
        PROVE  Undelivered(q, s)'
    <3>1. q \in subs /\ alive /\ s > cursor[q]
      BY <2>4 DEF Undelivered
    <3>2. cursor'[q] <= cursor[q] /\ cursor'[q] \in Nat /\ cursor[q] \in Nat
      BY <1>0, <2>1, <2>2, <2>3, <3>1
    <3>3. s > cursor'[q]
      BY <3>1, <3>2
    <3> QED
      BY <1>0, <2>2, <3>1, <3>3 DEF Undelivered
  <2>5. \A q \in Pdas : \A s : /\ Queued(q, s)' <=> Queued(q, s)
                               /\ Dropping(q)' <=> Dropping(q)
                               /\ Changed(q, s)' <=> Changed(q, s)
    BY <1>0 DEF Queued, Dropping, Changed
  <2>6. ASSUME NEW q \in Pdas, NEW k, CoveredFrom(q, k) PROVE CoveredFrom(q, k)'
    BY <1>0, <2>4, <2>5, <2>6 DEF CoveredFrom, Covered
  <2>7. StreamCoherent => StreamCoherent'
    <3> SUFFICES ASSUME StreamCoherent, NEW i \in DOMAIN stream
                 PROVE  MessageCoherent(i)'
      BY <1>0 DEF StreamCoherent
    <3>1. MessageCoherent(i)
      BY DEF StreamCoherent
    <3>2. stream[i].type = "update" => stream[i].pda \in Pdas
      <4>1. stream[i] \in AccountUpdate
        BY DEF TypeInv, TypeOK
      <4> QED
        BY <4>1 DEF AccountUpdate
    <3>3. \A q, s : QueuedBehind(i, q, s)' <=> QueuedBehind(i, q, s)
      BY <1>0 DEF QueuedBehind
    <3> QED
      BY <1>0, <2>2, <2>4, <2>5, <3>1, <3>2, <3>3 DEF MessageCoherent
  <2>8. ASSUME NEW q \in Pdas PROVE Continued(q)
    BY <1>0, <2>6 DEF Continued
  <2>9. CallCoherent(t)'
    <3>1. ASSUME NEW s \in 1 .. now, min < s PROVE Undelivered(p, s)'
      <4>1. cursor'[p] \in Nat
        BY <1>0, <2>1, <2>2
      <4>2. s > cursor'[p]
        BY <2>1, <2>3, <3>1, <4>1
      <4> QED
        BY <1>0, <1>2, <2>2, <4>2 DEF Undelivered
    <3>2. CoveredFrom(calls[t].pda, calls[t].min)'
      BY <1>0, <2>c, <3>1 DEF CoveredFrom, Covered, Undelivered
    <3> QED
      BY <2>2, <2>c, <3>2 DEF CallCoherent, Claiming
  <2>10. \A k \in Unforgiving : faults'[k] \in Nat /\ faults'[k] <= faults[k]
    BY <1>0 DEF TypeInv, TypeOK, Unforgiving, Faults
  <2>11. \A q \in Pdas : (cursor[q] <= now)'
    BY <1>0, <2>3
  <2>12. Spared => StreamCoherent'
    BY <2>7 DEF CoherenceInv
  <2> QED
    BY <2>2, <2>d, <2>8, <2>9, <2>10, <2>11, <2>12, CoherenceFrame
<1> QED
  BY <1>1, <1>2

\* The steps of get_record up to the claim of its placeholder.
LEMMA CoherenceLookup ==
  ASSUME CoherenceInv, TypeInv, NEW t \in Calls,
         \/ \E p \in Pdas : get_record(t, p)
         \/ ReadEntry(t) \/ AwaitFill(t) \/ DiscardCancelled(t)
         \/ InsertPlaceholder(t) \/ UnsubscribeEvicted(t)
         \/ AbandonPlaceholder(t) \/ ClaimPlaceholder(t)
  PROVE  CoherenceInv'
<1> USE DEF At
<1> DEFINE p == calls[t].pda
<1>0. /\ calls[t] \in Call
      /\ calls[t].pc # "idle" => p \in Pdas
      /\ db \in [Pdas -> DelegationEntry \cup {Vacant}]
  BY DEF TypeInv, TypeOK, LocalsOK
<1>1. ASSUME NEW q \in Pdas, get_record(t, q) PROVE CoherenceInv'
  <2> DEFINE c == [Idle EXCEPT !.pc = "read", !.pda = q]
  <2>1. /\ calls' = [calls EXCEPT ![t] = c] /\ c.pc = "read"
        /\ UNCHANGED <<chain, sync, stream, clearing, db, faults>>
    BY <1>1 DEF get_record, Idle, updater
  <2> HIDE DEF c
  <2> QED
    BY <2>1, CoherenceMove DEF Resting
<1>2. ASSUME NEW loc \in {"insert", "discard", "read"}, Goto(t, loc),
             UNCHANGED <<chain, sync, stream, clearing, db, faults>>
      PROVE  CoherenceInv'
  <2> DEFINE c == [calls[t] EXCEPT !.pc = loc]
  <2>1. calls' = [calls EXCEPT ![t] = c] /\ c.pc = loc
    BY <1>0, <1>2 DEF Goto, Call
  <2> HIDE DEF c
  <2> QED
    BY <1>2, <2>1, CoherenceMove DEF Resting
<1>3. ASSUME NEW r, Return(t, r),
             UNCHANGED <<chain, sync, stream, clearing, db, faults>>
      PROVE  CoherenceInv'
  <2> DEFINE c == [Idle EXCEPT !.pda = p, !.got = [slot |-> 0, record |-> r]]
  <2>1. calls' = [calls EXCEPT ![t] = c] /\ c.pc = "idle"
    BY <1>3 DEF Return, Idle
  <2> HIDE DEF c
  <2> QED
    BY <1>3, <2>1, CoherenceMove DEF Resting
<1>4. CASE ReadEntry(t)
  <2>0. /\ p \in Pdas
        /\ UNCHANGED <<chain, sync, stream, clearing, db, faults>>
    BY <1>0, <1>4 DEF ReadEntry, updater
  <2>1. CASE Goto(t, "insert")
    BY <1>2, <2>0, <2>1
  <2>2. CASE Return(t, db[p].record)
    BY <1>3, <2>0, <2>2
  <2>3. CASE calls' = [calls EXCEPT ![t].pc = "await", ![t].fill = db[p].fill]
    <3> DEFINE c == [calls[t] EXCEPT !.pc = "await", !.fill = db[p].fill]
    <3>1. calls' = [calls EXCEPT ![t] = c] /\ c.pc = "await"
      BY <1>0, <2>3 DEF Call
    <3> HIDE DEF c
    <3> QED
      BY <2>0, <3>1, CoherenceMove DEF Resting
  <2>4. CASE db[p] # Vacant /\ db[p].slot = 0 /\ db[p].fill = NoFill
    <3>1. ~ Spared
      BY <2>0, <2>4 DEF CoherenceInv, EntryCoherent, Filled, Pending
    <3> QED
      BY <2>0, <3>1, CoherenceCannot DEF sync
  <2> QED
    BY <1>4, <2>1, <2>2, <2>3, <2>4 DEF ReadEntry
<1>5. CASE AwaitFill(t)
  BY <1>2, <1>3, <1>5 DEF AwaitFill, updater
<1>6. CASE DiscardCancelled(t)
  <2> DEFINE c == [calls[t] EXCEPT !.pc = "read", !.fill = NoFill]
  <2>1. /\ calls' = [calls EXCEPT ![t] = c] /\ c.pc = "read"
        /\ UNCHANGED <<chain, sync, stream, clearing, faults>>
    BY <1>0, <1>6 DEF DiscardCancelled, Call, updater
  <2>2. \A q \in Pdas : db'[q] \in {db[q], Vacant}
    BY <1>0, <1>6 DEF DiscardCancelled
  <2> HIDE DEF c
  <2> QED
    BY <2>1, <2>2, CoherenceMove DEF Resting
<1>7. CASE InsertPlaceholder(t)
  <2>0. UNCHANGED <<chain, sync, stream, clearing>> /\ p \in Pdas
    BY <1>0, <1>7 DEF InsertPlaceholder, updater
  <2>1. CASE db[p] # Vacant
    BY <1>2, <1>7, <2>0, <2>1 DEF InsertPlaceholder
  <2>2. CASE db[p] = Vacant
    <3> DEFINE f == NewFill
    <3>1. f \in Fills /\ f \notin Referenced
      BY <1>7, <2>2 DEF InsertPlaceholder, NewFill
    <3>2. insert_new(t, p, f)
      BY <1>7, <2>2 DEF InsertPlaceholder
    <3> HIDE DEF f
    <3>3. CASE Spend("evict")
      <4>1. \A q \in Pdas : (cursor[q] <= now)'
        BY <2>0 DEF CoherenceInv, sync
      <4>2. "evict" \in Unforgiving
        BY DEF Unforgiving
      <4> QED
        BY <3>3, <4>1, <4>2, SpendUnforgiven, CoherenceLost
    <3>4. CASE /\ db' = [db EXCEPT ![p] = Placeholder(f)]
               /\ calls' = [calls EXCEPT ![t].pc = "subscribe", ![t].fill = f]
               /\ UNCHANGED faults
      <4> DEFINE c == [calls[t] EXCEPT !.pc = "subscribe", !.fill = f]
      <4>1. calls' = [calls EXCEPT ![t] = c] /\ c.pc = "subscribe"
        BY <1>0, <3>4 DEF Call
      <4> HIDE DEF c
      <4>2. Kept(p)
        <5>1. db'[p].slot = 0 /\ db'[p].fill = f
          BY <1>0, <2>0, <3>4 DEF Placeholder
        <5>2. \A u \in Calls : calls[u].fill # f
          BY <3>1 DEF Referenced
        <5> QED
          BY <3>1, <5>1, <5>2 DEF Kept
      <4>3. ASSUME NEW q \in Pdas, q # p PROVE Kept(q)
        <5>1. db'[q] = db[q]
          BY <1>0, <3>4, <4>3
        <5> QED
          BY <5>1 DEF Kept
      <4>4. \A k \in Unforgiving : faults'[k] \in Nat /\ faults'[k] <= faults[k]
        BY <3>4 DEF TypeInv, TypeOK, Unforgiving, Faults
      <4>5. calls'[t].pc = "subscribe"
        BY <4>1 DEF TypeInv, TypeOK
      <4>6. CallCoherent(t)'
        BY <4>5 DEF CallCoherent, Claiming
      <4> QED
        BY <2>0, <4>1, <4>2, <4>3, <4>4, <4>6, CoherenceCall
    <3> QED
      BY <3>2, <3>3, <3>4 DEF insert_new
  <2> QED
    BY <2>1, <2>2
<1>8. CASE UnsubscribeEvicted(t)
  <2>1. ~ Spared
    BY <1>8 DEF UnsubscribeEvicted, CoherenceInv, CallCoherent
  <2> QED
    BY <1>8, <2>1, CoherenceCannot DEF UnsubscribeEvicted
<1>9. CASE AbandonPlaceholder(t)
  <2>1. ~ Spared
    BY <1>9 DEF AbandonPlaceholder, CoherenceInv, CallCoherent
  <2> QED
    BY <1>9, <2>1, CoherenceCannot DEF AbandonPlaceholder, sync
<1>10. CASE ClaimPlaceholder(t)
  <2>0. /\ calls[t].pc = "claim" /\ p \in Pdas
        /\ UNCHANGED <<chain, sync, stream, clearing, faults>>
    BY <1>0, <1>10 DEF ClaimPlaceholder, updater
  <2>1. CASE ~ HoldsPlaceholder(t)
    <3> DEFINE c == [calls[t] EXCEPT !.pc = "read", !.fill = NoFill, !.min = 0]
    <3>1. calls' = [calls EXCEPT ![t] = c] /\ c.pc = "read" /\ db' = db
      BY <1>0, <1>10, <2>1 DEF ClaimPlaceholder, StartOver, Call
    <3> HIDE DEF c
    <3> QED
      BY <2>0, <3>1, CoherenceMove DEF Resting
  <2>2. CASE HoldsPlaceholder(t)
    <3> DEFINE c == [calls[t] EXCEPT !.pc = "select"]
               e == [db[p] EXCEPT !.min = calls[t].min]
    <3>1. /\ calls' = [calls EXCEPT ![t] = c] /\ db' = [db EXCEPT ![p] = e]
          /\ db[p] # Vacant
      BY <1>0, <1>10, <2>2 DEF ClaimPlaceholder, Goto, HoldsPlaceholder
    <3>2. c.pc = "select" /\ c.pda = p /\ c.fill = calls[t].fill
          /\ c.min = calls[t].min
      BY <1>0 DEF Call
    <3>3. e \in DelegationEntry /\ e.fill = db[p].fill /\ e.slot = db[p].slot
      BY <1>0, <2>0, <3>1, EntryType DEF DelegationEntry, Call
    <3> HIDE DEF c, e
    <3>4. calls'[t] = c /\ db'[p] = e /\ \A q \in Pdas \ {p} : db'[q] = db[q]
      BY <1>0, <2>0, <3>1 DEF TypeInv, TypeOK
    <3>5. \A q \in Pdas : Kept(q)
      BY <3>1, <3>3, <3>4 DEF Kept
    <3>6. \A k \in Unforgiving : faults'[k] \in Nat /\ faults'[k] <= faults[k]
      BY <2>0 DEF TypeInv, TypeOK, Unforgiving, Faults
    <3>7. ASSUME Spared PROVE CallCoherent(t)'
      <4>1. CallCoherent(t)
        BY <3>7 DEF CoherenceInv
      <4>2. OwnEntry(t)' => OwnEntry(t)
        BY <3>1, <3>2, <3>3, <3>4 DEF OwnEntry
      <4>3. p \in subs /\ (OwnEntry(t) => CoveredFrom(p, calls[t].min))
        BY <2>0, <4>1 DEF CallCoherent, Claiming
      <4>4. PICK q, k : q = p /\ k = calls[t].min
        OBVIOUS
      <4>5. CoveredFrom(q, k) => CoveredFrom(calls[t].pda, calls[t].min)'
        <5>1. CoveredFrom(q, k) => CoveredFrom(q, k)'
          BY <2>0, SameCover
        <5>2. calls'[t].pda = q /\ calls'[t].min = k
          BY <3>2, <3>4, <4>4
        <5> QED
          BY <2>0, <5>1, <5>2
             DEF CoveredFrom, Covered, Undelivered, Queued, Dropping, Changed
      <4> QED
        BY <2>0, <3>2, <3>4, <4>2, <4>3, <4>4, <4>5
           DEF CallCoherent, Claiming, sync
    <3> QED
      BY <2>0, <3>1, <3>5, <3>6, <3>7, CoherenceCall
  <2> QED
    BY <2>1, <2>2
<1> QED
  BY <1>1, <1>4, <1>5, <1>6, <1>7, <1>8, <1>9, <1>10

\* What covers an older slot covers a later one.
LEMMA CoverLater ==
  ASSUME NEW p, NEW j \in Nat, NEW k \in Nat, j <= k, TypeInv, CoveredFrom(p, j)
  PROVE  CoveredFrom(p, k)
BY DEF CoveredFrom, TypeInv, TypeOK

\* The owner of a fill goes on with its fetch.
LEMMA CoherenceGoOn ==
  ASSUME CoherenceInv, TypeInv, NEW t \in Calls, NEW c,
         calls' = [calls EXCEPT ![t] = c],
         UNCHANGED <<chain, sync, stream, clearing, db, faults>>,
         calls[t].pc = "select", c.pc \in {"select", "merge"},
         c.fill = calls[t].fill, c.pda = calls[t].pda, c.min = calls[t].min,
         c.pc = "merge" => c.got.slot # 0 /\ c.min <= c.got.slot
  PROVE  CoherenceInv'
<1>1. \A p \in Pdas : Kept(p)
  BY DEF Kept
<1>2. \A k \in Unforgiving : faults'[k] \in Nat /\ faults'[k] <= faults[k]
  BY DEF TypeInv, TypeOK, Unforgiving, Faults
<1>3. calls'[t] = c
  BY DEF TypeInv, TypeOK
<1>4. ASSUME Spared PROVE CallCoherent(t)'
  <2>1. CallCoherent(t)
    BY <1>4 DEF CoherenceInv
  <2>2. OwnEntry(t)' => OwnEntry(t)
    BY <1>3 DEF OwnEntry
  <2>3. PICK q, k : q = calls[t].pda /\ k = calls[t].min
    OBVIOUS
  <2>4. q \in subs /\ (OwnEntry(t) => CoveredFrom(q, k))
    BY <2>1, <2>3 DEF CallCoherent, Claiming
  <2>5. CoveredFrom(q, k) => CoveredFrom(calls[t].pda, calls[t].min)'
    <3>1. CoveredFrom(q, k) => CoveredFrom(q, k)'
      BY SameCover
    <3>2. calls'[t].pda = q /\ calls'[t].min = k
      BY <1>3, <2>3
    <3> QED
      BY <3>1, <3>2
         DEF CoveredFrom, Covered, Undelivered, Queued, Dropping, Changed
  <2> QED
    BY <1>3, <2>2, <2>3, <2>4, <2>5 DEF CallCoherent, Claiming, sync
<1> QED
  BY <1>1, <1>2, <1>4, CoherenceCall

\* The owner merges what it fetched: into its own placeholder, or over the
\* record of an older slot.
LEMMA CoherenceMerge ==
  ASSUME CoherenceInv, TypeInv, NEW t \in Calls, MergeOwned(t)
  PROVE  CoherenceInv'
<1> DEFINE new == calls[t].got
           f == calls[t].fill
           r == merge_fetched(db[calls[t].pda], new, f).record
           c == [calls[t] EXCEPT !.pc = "settle", !.got.record = r]
<1>p. PICK p \in Pdas : p = calls[t].pda
  BY DEF MergeOwned, At, TypeInv, LocalsOK
<1>0. /\ calls[t] \in Call /\ calls[t].pc = "merge" /\ f \in Fills
      /\ new \in Fetched /\ new.slot \in Nat /\ calls[t].min \in Nat
      /\ db \in [Pdas -> DelegationEntry \cup {Vacant}]
      /\ UNCHANGED <<chain, sync, stream, clearing, faults>>
  BY DEF MergeOwned, At, TypeInv, TypeOK, LocalsOK, Holding, OwnerLocs, Call,
         Fetched, updater
<1>1. calls' = [calls EXCEPT ![t] = c]
  BY DEF MergeOwned
<1>2. calls'[t].pc = "settle" /\ calls'[t].pda = p /\ calls'[t].fill = f
  BY <1>0, <1>p, <1>1 DEF TypeInv, TypeOK, Call
<1> HIDE DEF c, r
<1>3. PICK e : e = merge_fetched(db[p], new, f).entry
  OBVIOUS
<1>4. db'[p] = e /\ \A q \in Pdas \ {p} : db'[q] = db[q]
  BY <1>0, <1>p, <1>3 DEF MergeOwned
<1>5. \/ e = db[p] /\ (db[p] = Vacant \/ db[p].fill \notin {NoFill, f})
      \/ /\ db[p] # Vacant /\ db[p].fill \in {NoFill, f}
         /\ db[p].slot < new.slot /\ e = Installed(new.slot, new.record)
      \/ /\ db[p] # Vacant /\ ~ (db[p].slot < new.slot) /\ e = db[p]
  BY <1>3 DEF merge_fetched
<1>6. \A k \in Unforgiving : faults'[k] \in Nat /\ faults'[k] <= faults[k]
  BY <1>0 DEF TypeInv, TypeOK, Unforgiving, Faults
<1>7. db[p] # Vacant => db[p].slot \in Nat
  BY EntryType DEF DelegationEntry
<1> HIDE DEF new, f
<1>8. ASSUME Spared PROVE Kept(p) /\ (e = Vacant \/ e.fill # f)
  <2>1. /\ new.slot # 0 /\ calls[t].min <= new.slot /\ p \in subs
        /\ db[p] # Vacant /\ db[p].fill = f => CoveredFrom(p, calls[t].min)
    BY <1>0, <1>p, <1>8
       DEF CoherenceInv, CallCoherent, Claiming, OwnEntry, new, f
  <2>2. /\ db[p] # Vacant => (Filled(p) <=> ~ Pending(p))
        /\ Filled(p) => CoveredFrom(p, db[p].slot)
    BY <1>8 DEF CoherenceInv, EntryCoherent
  <2>3. CASE e = db[p] /\ (db[p] = Vacant \/ db[p].fill \notin {NoFill, f})
    BY <1>4, <2>3 DEF Kept
  <2>4. CASE /\ db[p] # Vacant /\ db[p].fill \in {NoFill, f}
             /\ db[p].slot < new.slot /\ e = Installed(new.slot, new.record)
    <3>1. e.slot = new.slot /\ e.fill = NoFill /\ NoFill # f
      BY <1>0, <2>4, SentinelAssumption DEF Installed
    <3>2. CASE db[p].fill = f
      <4>1. CoveredFrom(p, new.slot)
        BY <1>0, <2>1, <2>4, <3>2, CoverLater
      <4> QED
        BY <1>4, <2>1, <3>1, <4>1 DEF Kept
    <3>3. CASE db[p].fill = NoFill
      <4>1. CoveredFrom(p, db[p].slot)
        BY <2>2, <2>4, <3>3 DEF Pending
      <4>2. db[p].slot <= new.slot /\ db[p].slot \in Nat
        BY <1>0, <1>7, <2>4
      <4>3. CoveredFrom(p, new.slot)
        BY <1>0, <4>1, <4>2, CoverLater
      <4> QED
        BY <1>4, <2>1, <3>1, <4>3 DEF Kept
    <3> QED
      BY <2>4, <3>2, <3>3
  <2>5. CASE db[p] # Vacant /\ ~ (db[p].slot < new.slot) /\ e = db[p]
    <3>1. Filled(p)
      BY <1>0, <1>7, <2>1, <2>5 DEF Filled
    <3>2. db[p].fill = NoFill /\ NoFill # f
      BY <1>0, <2>2, <2>5, <3>1, SentinelAssumption DEF Pending
    <3> QED
      BY <1>4, <2>5, <3>2 DEF Kept
  <2> QED
    BY <1>5, <2>3, <2>4, <2>5
<1>9. ASSUME NEW q \in Pdas, q # p PROVE Kept(q)
  BY <1>4, <1>9 DEF Kept
<1>10. ASSUME Spared PROVE CallCoherent(t)'
  <2>1. ~ OwnEntry(t)'
    BY <1>2, <1>4, <1>8, <1>10 DEF OwnEntry
  <2> QED
    BY <1>2, <2>1 DEF CallCoherent, Claiming
<1> QED
  BY <1>0, <1>1, <1>6, <1>8, <1>9, <1>10, CoherenceCall

\* The steps of get_record from its fetch to its answer.
LEMMA CoherenceFetch ==
  ASSUME CoherenceInv, TypeInv, NEW t \in Calls,
         \/ Fetch(t) \/ ArmNotified(t) \/ ReadInstalled(t)
         \/ MergeRefetched(t) \/ MergeOwned(t)
         \/ SettleEntry(t) \/ ResolveFill(t) \/ Cancel(t)
  PROVE  CoherenceInv'
<1> USE DEF At
<1> DEFINE p == calls[t].pda
<1>0. /\ calls[t] \in Call
      /\ calls[t].pc # "idle" => p \in Pdas
      /\ calls[t].pc \in OwnerLocs => calls[t].fill \in Fills
  BY DEF TypeInv, TypeOK, LocalsOK, Holding
<1>1. ASSUME calls[t].pc \in {"refetch", "detached", "remerge"},
             UNCHANGED <<chain, sync, faults>>
      PROVE  CoherenceInv'
  <2>1. ~ Spared
    BY <1>1 DEF CoherenceInv, CallCoherent
  <2> QED
    BY <1>1, <2>1, CoherenceCannot DEF sync
<1>2. ASSUME NEW s \in 1 .. now, FetchAnswered(t, s) PROVE CoherenceInv'
  <2>0. /\ UNCHANGED <<chain, sync, stream, clearing, db, faults>>
        /\ calls[t].pc \in Fetching
    BY <1>2 DEF FetchAnswered, updater
  <2>1. CASE calls[t].pc = "select"
    <3> DEFINE e == [slot |-> s, record |-> from_bytes(chain[s][p])]
               c == [calls[t] EXCEPT !.pc = "merge", !.got = e, !.attempt = 0,
                                     !.watch = "off"]
    <3>1. AfterFetch[calls[t].pc] = "merge"
      BY <2>1 DEF AfterFetch
    <3>2. calls' = [calls EXCEPT ![t] = c]
      BY <1>2, <3>1 DEF FetchAnswered, GotFetched
    <3>3. /\ c.pc = "merge" /\ c.fill = calls[t].fill /\ c.pda = p
          /\ c.min = calls[t].min /\ c.got = e
      BY <1>0 DEF Call
    <3>4. e.slot = s /\ s # 0 /\ calls[t].min <= s
      BY <1>0, <1>2 DEF FetchAnswered, Call
    <3> HIDE DEF c, e
    <3> QED
      BY <2>0, <2>1, <3>2, <3>3, <3>4, CoherenceGoOn
  <2>2. CASE calls[t].pc # "select"
    BY <1>1, <2>0, <2>2 DEF Fetching
  <2> QED
    BY <2>1, <2>2
<1>3. CASE FetchExhausted(t)
  <2>1. Spend("exhaust") /\ UNCHANGED <<chain, sync>>
    BY <1>3 DEF FetchExhausted
  <2>2. \A q \in Pdas : (cursor[q] <= now)'
    BY <2>1 DEF CoherenceInv, sync
  <2>3. "exhaust" \in Unforgiving
    BY DEF Unforgiving
  <2> QED
    BY <2>1, <2>2, <2>3, SpendUnforgiven, CoherenceLost
<1>4. CASE FetchFailed(t)
  <2>0. /\ UNCHANGED <<chain, sync, stream, clearing, db, faults>>
        /\ calls[t].pc \in Fetching
    BY <1>4 DEF FetchFailed, updater
  <2>1. CASE calls[t].pc = "select"
    <3> DEFINE c == [calls[t] EXCEPT !.attempt = @ + 1]
    <3>1. /\ calls' = [calls EXCEPT ![t] = c] /\ c.pc = "select"
          /\ c.fill = calls[t].fill /\ c.pda = p /\ c.min = calls[t].min
      BY <1>0, <1>4, <2>1 DEF FetchFailed, Call
    <3> HIDE DEF c
    <3> QED
      BY <2>0, <2>1, <3>1, CoherenceGoOn
  <2>2. CASE calls[t].pc # "select"
    BY <1>1, <2>0, <2>2 DEF Fetching
  <2> QED
    BY <2>1, <2>2
<1>5. CASE ArmNotified(t)
  <2> DEFINE c == [calls[t] EXCEPT !.watch = "armed"]
  <2>1. /\ calls' = [calls EXCEPT ![t] = c] /\ c.pc = "select"
        /\ c.fill = calls[t].fill /\ c.pda = p /\ c.min = calls[t].min
        /\ UNCHANGED <<chain, sync, stream, clearing, db, faults>>
        /\ calls[t].pc = "select"
    BY <1>0, <1>5 DEF ArmNotified, Call, updater
  <2> HIDE DEF c
  <2> QED
    BY <2>1, CoherenceGoOn
<1>6. CASE ReadInstalled(t)
  <2>0. /\ UNCHANGED <<chain, sync, stream, clearing, db, faults>>
        /\ calls[t].pc = "select" /\ p \in Pdas /\ calls[t].fill \in Fills
    BY <1>0, <1>6 DEF ReadInstalled, updater, OwnerLocs
  <2>1. CASE db[p] # Vacant /\ db[p].slot # 0
    <3> DEFINE c == [calls[t] EXCEPT !.pc = "settle", !.attempt = 0,
                       !.got = [slot |-> 0, record |-> db[p].record],
                       !.watch = "off"]
    <3>1. /\ calls' = [calls EXCEPT ![t] = c] /\ c.pc = "settle"
          /\ c.fill = calls[t].fill /\ c.pda = p
      BY <1>0, <1>6, <2>1 DEF ReadInstalled, Call
    <3> HIDE DEF c
    <3>2. calls'[t] = c
      BY <3>1 DEF TypeInv, TypeOK
    <3>3. \A q \in Pdas : Kept(q)
      BY <2>0 DEF Kept
    <3>4. \A k \in Unforgiving : faults'[k] \in Nat /\ faults'[k] <= faults[k]
      BY <2>0 DEF TypeInv, TypeOK, Unforgiving, Faults
    <3>5. ASSUME Spared PROVE CallCoherent(t)'
      <4>1. db[p].fill = NoFill
        BY <2>0, <2>1, <3>5 DEF CoherenceInv, EntryCoherent, Filled, Pending
      <4>2. ~ OwnEntry(t)'
        BY <2>0, <3>1, <3>2, <4>1, SentinelAssumption DEF OwnEntry
      <4> QED
        BY <3>1, <3>2, <4>2 DEF CallCoherent, Claiming
    <3> QED
      BY <2>0, <3>1, <3>3, <3>4, <3>5, CoherenceCall
  <2>2. CASE ~ (db[p] # Vacant /\ db[p].slot # 0)
    <3> DEFINE c == [calls[t] EXCEPT !.watch =
                       IF @ = "signalled" THEN "off" ELSE "waiting"]
    <3>1. /\ calls' = [calls EXCEPT ![t] = c] /\ c.pc = "select"
          /\ c.fill = calls[t].fill /\ c.pda = p /\ c.min = calls[t].min
      BY <1>0, <1>6, <2>0, <2>2 DEF ReadInstalled, Call
    <3> HIDE DEF c
    <3> QED
      BY <2>0, <3>1, CoherenceGoOn
  <2> QED
    BY <2>1, <2>2
<1>7. CASE MergeRefetched(t)
  BY <1>1, <1>7 DEF MergeRefetched
<1>8. CASE SettleEntry(t)
  <2>1. calls[t].pc = "settle"
        /\ UNCHANGED <<chain, sync, stream, clearing, faults>>
    BY <1>8 DEF SettleEntry, updater
  <2>2. CASE ~ Spared
    BY <2>1, <2>2, CoherenceCannot DEF sync
  <2>3. CASE Spared
    <3> DEFINE c == [calls[t] EXCEPT !.pc = "send"]
    <3>1. calls' = [calls EXCEPT ![t] = c] /\ c.pc = "send"
      BY <1>0, <1>8 DEF SettleEntry, Goto, Call
    <3> HIDE DEF c
    <3>2. ~ OwnEntry(t)
      BY <2>1, <2>3 DEF CoherenceInv, CallCoherent
    <3>3. db' = db
      BY <1>8, <3>2 DEF SettleEntry, OwnEntry
    <3> QED
      BY <2>1, <3>1, <3>3, CoherenceMove DEF Resting
  <2> QED
    BY <2>2, <2>3
<1>9. CASE ResolveFill(t)
  <2> DEFINE c == [Idle EXCEPT !.pda = p,
                     !.got = [slot |-> 0, record |-> calls[t].got.record]]
  <2>1. /\ calls' = [calls EXCEPT ![t] = c] /\ c.pc = "idle"
        /\ UNCHANGED <<chain, sync, stream, clearing, db, faults>>
    BY <1>9 DEF ResolveFill, Return, Idle, updater
  <2> HIDE DEF c
  <2> QED
    BY <2>1, CoherenceMove DEF Resting
<1>10. CASE Cancel(t)
  <2>1. /\ calls' = [calls EXCEPT ![t] = Idle] /\ Idle.pc = "idle"
        /\ UNCHANGED <<chain, sync, stream, clearing, db>>
    BY <1>10 DEF Cancel, Idle, updater
  <2>2. \A k \in Unforgiving : faults'[k] = faults[k]
    BY <1>10, SpendForgiven DEF Cancel, Faults, Unforgiving
  <2> QED
    BY <2>1, <2>2, CoherenceMove DEF Resting
<1> QED
  BY <1>2, <1>3, <1>4, <1>5, <1>6, <1>7, <1>8, <1>9, <1>10, CoherenceMerge
     DEF Fetch

\* Steps that touch neither entries nor calls.
LEMMA CoherenceAround ==
  ASSUME CoherenceInv, TypeInv, UNCHANGED <<db, calls, subs>>,
         \A k \in Unforgiving : faults'[k] = faults[k],
         \A p \in Pdas : (cursor[p] <= now)',
         Spared => /\ StreamCoherent'
                   /\ \A p \in subs, k \in Nat :
                        p \in Pdas /\ CoveredFrom(p, k) => CoveredFrom(p, k)'
  PROVE  CoherenceInv'
<1>1. \A k \in Unforgiving : faults'[k] \in Nat /\ faults'[k] <= faults[k]
  BY DEF TypeInv, TypeOK, Unforgiving, Faults
<1>2. \A t \in Calls : Unmoved(t)
  BY DEF Unmoved
<1>3. Spared => \A p \in Pdas : Continued(p)
  BY DEF Continued
<1> QED
  BY <1>1, <1>2, <1>3, CoherenceFrame

\* A new slot is one more change to send.
LEMMA CoherenceSlot ==
  ASSUME CoherenceInv, TypeInv, NEW p \in Pdas, NEW d \in Data, ChainSlot(p, d)
  PROVE  CoherenceInv'
<1>0. /\ chain \in Seq([Pdas -> Data]) /\ now \in Nat
      /\ cursor \in [Pdas -> Nat] /\ \A q \in Pdas : cursor[q] <= now
      /\ UNCHANGED <<subs, cursor, alive, stream, db, calls, clearing, faults>>
  BY DEF TypeInv, TypeOK, CoherenceInv, ChainSlot, sync, updater
<1>1. PICK c : chain' = Append(chain, c)
  BY DEF ChainSlot
<1>2. now' = now + 1 /\ \A s \in 1 .. now : chain'[s] = chain[s]
  BY <1>0, <1>1
<1>3. \A q \in Pdas : (cursor[q] <= now)'
  BY <1>0, <1>2
<1>4. ASSUME NEW q \in Pdas, NEW s \in 1 .. now, Changed(q, s)'
      PROVE  Changed(q, s)
  <2>1. s > 1 /\ chain'[s][q] # chain'[s - 1][q] /\ s - 1 \in 1 .. now
    BY <1>0, <1>4 DEF Changed
  <2> QED
    BY <1>2, <2>1 DEF Changed
<1>5. ASSUME NEW q \in Pdas, q \in subs, alive, NEW s, s = now'
      PROVE  Undelivered(q, s)'
  <2>1. s > cursor'[q]
    BY <1>0, <1>2, <1>5
  <2> QED
    BY <1>0, <1>5, <2>1 DEF Undelivered
<1>6. \A q, s : Undelivered(q, s)' <=> Undelivered(q, s)
  BY <1>0 DEF Undelivered
<1>7. \A s \in 1 .. now' : s \in 1 .. now \/ s = now'
  BY <1>0, <1>2
<1>8. ASSUME Spared PROVE alive /\ StreamCoherent
  BY <1>8 DEF CoherenceInv, StreamCoherent
<1>9. ASSUME Spared, NEW q \in subs, NEW k \in Nat, q \in Pdas, CoveredFrom(q, k)
      PROVE  CoveredFrom(q, k)'
  <2> SUFFICES ASSUME NEW s \in 1 .. now', k < s, Changed(q, s)'
               PROVE  Covered(q, s)'
    BY DEF CoveredFrom
  <2>1. CASE s \in 1 .. now
    <3>1. Covered(q, s)
      BY <1>4, <1>9, <2>1 DEF CoveredFrom
    <3> QED
      BY <1>0, <1>6, <3>1 DEF Covered, Queued, Dropping
  <2>2. CASE s = now'
    <3>1. Undelivered(q, s)'
      BY <1>5, <1>8, <1>9, <2>2
    <3> QED
      BY <3>1 DEF Covered
  <2> QED
    BY <1>7, <2>1, <2>2
<1>10. ASSUME Spared PROVE StreamCoherent'
  <2> SUFFICES ASSUME NEW i \in DOMAIN stream PROVE MessageCoherent(i)'
    BY <1>0, <1>8, <1>10 DEF StreamCoherent
  <2>1. MessageCoherent(i) /\ stream[i] \in AccountUpdate
    BY <1>8, <1>10 DEF StreamCoherent, TypeInv, TypeOK
  <2>2. CASE stream[i].type # "update"
    BY <1>0, <2>1, <2>2 DEF MessageCoherent
  <2>3. CASE stream[i].type = "update"
    <3>1. PICK q \in Pdas : q = stream[i].pda
      BY <2>1, <2>3 DEF AccountUpdate
    <3>2. q \in subs /\ stream[i].type # "terminated"
      BY <2>1, <2>3, <3>1 DEF MessageCoherent
    <3>3. ASSUME NEW s \in 1 .. now', stream[i].slot < s, Changed(q, s)'
          PROVE  Undelivered(q, s)' \/ QueuedBehind(i, q, s)'
      <4>1. CASE s \in 1 .. now
        <5>1. Undelivered(q, s) \/ QueuedBehind(i, q, s)
          BY <1>4, <2>1, <2>3, <3>1, <3>3, <4>1 DEF MessageCoherent
        <5> QED
          BY <1>0, <1>6, <5>1 DEF QueuedBehind
      <4>2. CASE s = now'
        BY <1>5, <1>8, <1>10, <3>2, <4>2
      <4> QED
        BY <1>7, <4>1, <4>2
    <3> QED
      BY <1>0, <2>3, <3>1, <3>2, <3>3
         DEF MessageCoherent, Changed, Undelivered, QueuedBehind
  <2> QED
    BY <2>2, <2>3
<1> QED
  BY <1>0, <1>3, <1>9, <1>10, CoherenceAround

\* What is in the channel stays in it when a message is added.
LEMMA AppendQueued ==
  ASSUME TypeInv, NEW m \in AccountUpdate, stream' = Append(stream, m)
  PROVE  /\ \A i \in DOMAIN stream : i \in DOMAIN stream' /\ stream'[i] = stream[i]
         /\ \A i \in DOMAIN stream' : i \in DOMAIN stream \/ i = Len(stream) + 1
         /\ Len(stream) + 1 \in DOMAIN stream' /\ stream'[Len(stream) + 1] = m
         /\ \A i \in DOMAIN stream : i < Len(stream) + 1
BY DEF TypeInv, TypeOK

\* The service sends its changes in their order.
LEMMA CoherenceDeliver ==
  ASSUME CoherenceInv, TypeInv, NEW p \in Pdas, NEW s \in 1 .. now,
         SyncDeliver(p, s)
  PROVE  CoherenceInv'
<1> DEFINE m == [type |-> "update", pda |-> p, slot |-> s, data |-> chain[s][p]]
           n == Len(stream) + 1
<1>0. /\ alive /\ p \in subs /\ cursor \in [Pdas -> Nat] /\ now \in Nat
      /\ s > cursor[p]
      /\ \A r \in 1 .. now : cursor[p] < r /\ r < s => ~ Changed(p, r)
      /\ cursor' = [cursor EXCEPT ![p] = s] /\ stream' = Append(stream, m)
      /\ UNCHANGED <<chain, subs, alive, db, calls, clearing, faults>>
      /\ \A q \in Pdas : cursor[q] <= now
  BY DEF SyncDeliver, TypeInv, TypeOK, updater, CoherenceInv
<1>1. m \in AccountUpdate
  BY DEF AccountUpdate, TypeInv, TypeOK
<1>2. m.type = "update" /\ m.pda = p /\ m.slot = s
  OBVIOUS
<1> HIDE DEF m
<1>3. /\ \A i \in DOMAIN stream : /\ i \in DOMAIN stream' /\ i < n
                                  /\ stream'[i] = stream[i]
      /\ \A i \in DOMAIN stream' : i \in DOMAIN stream \/ i = n
      /\ n \in DOMAIN stream' /\ stream'[n] = m
  BY <1>0, <1>1, AppendQueued
<1> HIDE DEF n
<1>4. /\ \A q \in Pdas : (cursor[q] <= now)'
      /\ cursor'[p] = s /\ \A q \in Pdas \ {p} : cursor'[q] = cursor[q]
  BY <1>0
<1>5. \A q, r : Changed(q, r)' <=> Changed(q, r)
  BY <1>0 DEF Changed
<1>6. ASSUME NEW q \in Pdas, NEW r \in 1 .. now, Changed(q, r), Undelivered(q, r)
      PROVE  Undelivered(q, r)' \/ (q = p /\ r = s)
  <2>1. CASE q # p
    BY <1>0, <1>4, <1>6, <2>1 DEF Undelivered
  <2>2. CASE q = p /\ r # s
    <3>1. cursor[p] < r /\ cursor[p] \in Nat
      BY <1>0, <1>6, <2>2 DEF Undelivered
    <3>2. ~ (r < s)
      BY <1>0, <1>6, <2>2, <3>1
    <3>3. r > s
      BY <2>2, <3>2
    <3> QED
      BY <1>0, <1>4, <2>2, <3>3 DEF Undelivered
  <2> QED
    BY <2>1, <2>2
<1>7. Queued(p, s)'
  BY <1>2, <1>3 DEF Queued
<1>8. ASSUME NEW q \in Pdas, NEW k \in Nat, CoveredFrom(q, k)
      PROVE  CoveredFrom(q, k)'
  <2> SUFFICES ASSUME NEW r \in 1 .. now, k < r, Changed(q, r)
               PROVE  Covered(q, r)'
    BY <1>0, <1>5 DEF CoveredFrom
  <2>1. Covered(q, r)
    BY <1>8 DEF CoveredFrom
  <2>2. Queued(q, r) => Queued(q, r)'
    BY <1>3 DEF Queued
  <2>3. Dropping(q) => Dropping(q)'
    BY <1>0, <1>3 DEF Dropping
  <2> QED
    BY <1>6, <1>7, <2>1, <2>2, <2>3 DEF Covered
<1>9. ASSUME StreamCoherent PROVE StreamCoherent'
  <2> SUFFICES ASSUME NEW i \in DOMAIN stream' PROVE MessageCoherent(i)'
    BY <1>0 DEF StreamCoherent
  <2>1. CASE i = n
    <3>1. ASSUME NEW r \in 1 .. now, s < r PROVE Undelivered(p, r)'
      BY <1>0, <1>4, <3>1 DEF Undelivered
    <3> QED
      BY <1>0, <1>2, <1>3, <2>1, <3>1 DEF MessageCoherent
  <2>2. CASE i \in DOMAIN stream
    <3>1. MessageCoherent(i) /\ stream[i] \in AccountUpdate
          /\ stream'[i] = stream[i]
      BY <1>3, <1>9, <2>2 DEF StreamCoherent, TypeInv, TypeOK
    <3>2. CASE stream[i].type # "update"
      BY <3>1, <3>2 DEF MessageCoherent
    <3>3. CASE stream[i].type = "update"
      <4>1. PICK q \in Pdas : q = stream[i].pda
        BY <3>1, <3>3 DEF AccountUpdate
      <4>2. ASSUME NEW r \in 1 .. now, stream[i].slot < r, Changed(q, r)
            PROVE  Undelivered(q, r)' \/ QueuedBehind(i, q, r)'
        <5>1. Undelivered(q, r) \/ QueuedBehind(i, q, r)
          BY <3>1, <3>3, <4>1, <4>2 DEF MessageCoherent
        <5>2. QueuedBehind(i, q, r) => QueuedBehind(i, q, r)'
          BY <1>3 DEF QueuedBehind
        <5>3. q = p /\ r = s => QueuedBehind(i, q, r)'
          BY <1>2, <1>3, <2>2 DEF QueuedBehind
        <5> QED
          BY <1>6, <4>2, <5>1, <5>2, <5>3
      <4> QED
        BY <1>0, <1>5, <3>1, <3>3, <4>1, <4>2
           DEF MessageCoherent, Undelivered, QueuedBehind
    <3> QED
      BY <3>2, <3>3
  <2> QED
    BY <1>3, <2>1, <2>2
<1>10. Spared => StreamCoherent'
  BY <1>9 DEF CoherenceInv
<1> QED
  BY <1>0, <1>4, <1>8, <1>10, CoherenceAround

\* An interruption is announced behind what was sent before it.
LEMMA CoherenceInterrupt ==
  ASSUME CoherenceInv, TypeInv, SyncInterrupt
  PROVE  CoherenceInv'
<1> DEFINE m == [type |-> "interrupted"]
           n == Len(stream) + 1
<1>0. /\ alive /\ cursor \in [Pdas -> Nat] /\ now \in Nat
      /\ cursor' = [p \in Pdas |-> IF p \in subs THEN now ELSE cursor[p]]
      /\ stream' = Append(stream, m)
      /\ UNCHANGED <<chain, subs, alive, db, calls, clearing>>
      /\ Spend("interrupt")
      /\ \A q \in Pdas : cursor[q] <= now
  BY DEF SyncInterrupt, TypeInv, TypeOK, updater, CoherenceInv
<1>1. m \in AccountUpdate /\ m.type = "interrupted"
  BY DEF AccountUpdate
<1> HIDE DEF m
<1>2. /\ \A i \in DOMAIN stream : /\ i \in DOMAIN stream' /\ i < n
                                  /\ stream'[i] = stream[i]
      /\ \A i \in DOMAIN stream' : i \in DOMAIN stream \/ i = n
      /\ n \in DOMAIN stream' /\ stream'[n] = m
  BY <1>0, <1>1, AppendQueued
<1> HIDE DEF n
<1>3. \A k \in Unforgiving : faults'[k] = faults[k]
  BY <1>0, SpendForgiven DEF Faults, Unforgiving
<1>4. \A q \in Pdas : (cursor[q] <= now)'
  BY <1>0
<1>5. \A q, k : CoveredFrom(q, k)'
  <2>1. \A q : Dropping(q)'
    BY <1>1, <1>2 DEF Dropping
  <2> QED
    BY <2>1 DEF CoveredFrom, Covered
<1>6. ASSUME StreamCoherent PROVE StreamCoherent'
  <2> SUFFICES ASSUME NEW i \in DOMAIN stream' PROVE MessageCoherent(i)'
    BY <1>0 DEF StreamCoherent
  <2>1. CASE i = n
    BY <1>1, <1>2, <2>1 DEF MessageCoherent
  <2>2. CASE i \in DOMAIN stream
    <3>1. \A q, r : QueuedBehind(i, q, r)'
      BY <1>1, <1>2, <2>2 DEF QueuedBehind
    <3>2. MessageCoherent(i) /\ stream'[i] = stream[i]
      BY <1>2, <1>6, <2>2 DEF StreamCoherent
    <3>3. CASE stream[i].type # "update"
      BY <3>2, <3>3 DEF MessageCoherent
    <3>4. CASE stream[i].type = "update"
      <4>1. stream[i].pda \in subs /\ stream[i].type # "terminated"
        BY <3>2, <3>4 DEF MessageCoherent
      <4>2. PICK q : q = stream[i].pda
        OBVIOUS
      <4>3. \A r : QueuedBehind(i, q, r)'
        BY <3>1
      <4>4. \A r : QueuedBehind(i, stream[i].pda, r)'
        BY <3>2, <4>2, <4>3 DEF QueuedBehind
      <4> QED
        BY <1>0, <3>2, <4>1, <4>4 DEF MessageCoherent
    <3> QED
      BY <3>3, <3>4
  <2> QED
    BY <1>2, <2>1, <2>2
<1>7. Spared => StreamCoherent'
  BY <1>6 DEF CoherenceInv
<1> QED
  BY <1>0, <1>3, <1>4, <1>5, <1>7, CoherenceAround


\* What is in the channel moves up when its head is received.
LEMMA TailQueued ==
  ASSUME TypeInv, stream # <<>>, stream' = Tail(stream)
  PROVE  /\ 1 \in DOMAIN stream /\ Head(stream) = stream[1]
         /\ \A i \in DOMAIN stream : i = 1 \/ 1 < i
         /\ \A i \in DOMAIN stream : 1 < i =>
              i - 1 \in DOMAIN stream' /\ stream'[i - 1] = stream[i]
         /\ \A j \in DOMAIN stream' :
              j \in Nat /\ j + 1 \in DOMAIN stream /\ stream'[j] = stream[j + 1]
<1>1. /\ stream \in Seq(AccountUpdate) /\ Len(stream) \in Nat \ {0}
      /\ DOMAIN stream = 1 .. Len(stream)
  BY DEF TypeInv, TypeOK
<1>2. /\ Tail(stream) \in Seq(AccountUpdate) /\ Len(Tail(stream)) = Len(stream) - 1
      /\ \A i \in 1 .. Len(stream) - 1 : Tail(stream)[i] = stream[i + 1]
  BY <1>1
<1>3. DOMAIN stream' = 1 .. Len(stream) - 1
  BY <1>2
<1>4. ASSUME NEW i \in DOMAIN stream, 1 < i
      PROVE  i - 1 \in DOMAIN stream' /\ stream'[i - 1] = stream[i]
  <2>1. i - 1 \in 1 .. Len(stream) - 1 /\ (i - 1) + 1 = i
    BY <1>1, <1>4
  <2> QED
    BY <1>2, <1>3, <2>1
<1>5. ASSUME NEW j \in DOMAIN stream'
      PROVE  j \in Nat /\ j + 1 \in DOMAIN stream /\ stream'[j] = stream[j + 1]
  BY <1>1, <1>2, <1>3
<1>6. 1 \in DOMAIN stream /\ Head(stream) = stream[1]
  BY <1>1
<1>7. \A i \in DOMAIN stream : i = 1 \/ 1 < i
  BY <1>1
<1> QED
  BY <1>4, <1>5, <1>6, <1>7

\* The coherence of the channel outlives its head.
LEMMA TailCoherent ==
  ASSUME TypeInv, StreamCoherent, stream # <<>>, stream' = Tail(stream),
         UNCHANGED <<chain, sync>>
  PROVE  StreamCoherent'
<1>0. UNCHANGED <<chain, subs, cursor, alive>>
  BY DEF sync
<1> SUFFICES ASSUME NEW j \in DOMAIN stream' PROVE MessageCoherent(j)'
  BY <1>0 DEF StreamCoherent
<1>1. PICK i \in DOMAIN stream : i = j + 1 /\ j \in Nat
  BY TailQueued
<1>2. stream'[j] = stream[i] /\ MessageCoherent(i)
  BY <1>1, TailQueued DEF StreamCoherent
<1>3. CASE stream[i].type # "update"
  BY <1>2, <1>3 DEF MessageCoherent
<1>4. CASE stream[i].type = "update"
  <2>1. PICK q : q = stream[i].pda
    OBVIOUS
  <2>2. ASSUME NEW r, QueuedBehind(i, q, r) PROVE QueuedBehind(j, q, r)'
    <3>1. PICK k \in DOMAIN stream :
            /\ i < k
            /\ \/ stream[k].type = "interrupted"
               \/ stream[k].type = "update" /\ stream[k].pda = q
                    /\ stream[k].slot = r
      BY <2>2 DEF QueuedBehind
    <3>2. i \in Nat /\ k \in Nat
      BY DEF TypeInv, TypeOK
    <3>3. 1 < k /\ j < k - 1
      BY <1>1, <3>1, <3>2
    <3>4. k - 1 \in DOMAIN stream' /\ stream'[k - 1] = stream[k]
      BY <3>3, TailQueued
    <3> QED
      BY <3>1, <3>3, <3>4 DEF QueuedBehind
  <2>3. ASSUME NEW r \in 1 .. now, stream[i].slot < r, Changed(q, r)
        PROVE  Undelivered(q, r)' \/ QueuedBehind(j, q, r)'
    <3>1. Undelivered(q, r) \/ QueuedBehind(i, q, r)
      BY <1>2, <1>4, <2>1, <2>3 DEF MessageCoherent
    <3> QED
      BY <1>0, <2>2, <3>1 DEF Undelivered
  <2>4. stream[i].pda \in subs /\ stream[i].type # "terminated"
    BY <1>2, <1>4 DEF MessageCoherent
  <2> QED
    BY <1>0, <1>2, <2>1, <2>3, <2>4
       DEF MessageCoherent, Changed, Undelivered, QueuedBehind
<1> QED
  BY <1>3, <1>4

\* The updater installs an update, whose later changes are behind it, or skips
\* one that its entry already knows.
LEMMA CoherenceUpdate ==
  ASSUME CoherenceInv, SourceInv, TypeInv, update_cached_entry
  PROVE  CoherenceInv'
<1>0. /\ stream # <<>> /\ stream' = Tail(stream)
      /\ UNCHANGED <<chain, subs, cursor, alive, calls, clearing, faults>>
      /\ UNCHANGED <<chain, sync>>
  BY DEF update_cached_entry, Receive, sync
<1>1. PICK p, s : p = Head(stream).pda /\ s = Head(stream).slot
  OBVIOUS
<1>2. /\ 1 \in DOMAIN stream /\ Head(stream) = stream[1]
      /\ stream[1].type = "update" /\ stream[1] \in AccountUpdate
  BY <1>0, TailQueued DEF update_cached_entry, Receive, TypeInv, TypeOK
<1>3. /\ p \in Pdas /\ p = stream[1].pda /\ s = stream[1].slot
      /\ s \in 1 .. now /\ s \in Nat /\ s # 0
  <2>1. s \in 1 .. now /\ now \in Nat
    BY <1>1, <1>2 DEF SourceInv, StreamFaithful, TypeInv, TypeOK
  <2> QED
    BY <1>1, <1>2, <2>1 DEF AccountUpdate
<1>4. /\ Applicable(db[p], s) =>
           \E r : db' = [db EXCEPT ![p] = Installed(s, r)]
      /\ ~ Applicable(db[p], s) => db' = db
  BY <1>1 DEF update_cached_entry
<1>5. \A k \in Unforgiving : faults'[k] \in Nat /\ faults'[k] <= faults[k]
  BY <1>0 DEF TypeInv, TypeOK, Unforgiving, Faults
<1>6. \A q \in Pdas : (cursor[q] <= now)'
  BY <1>0 DEF CoherenceInv
<1>7. \A t \in Calls : Unmoved(t)
  BY <1>0 DEF Unmoved
<1>8. Spared => StreamCoherent'
  BY <1>0, TailCoherent DEF CoherenceInv
<1>9. ASSUME NEW q \in Pdas, NEW r, Covered(q, r), q # p \/ r # s
      PROVE  Covered(q, r)'
  <2>1. Undelivered(q, r) => Undelivered(q, r)'
    BY <1>0 DEF Undelivered
  <2>2. ASSUME Queued(q, r) PROVE Queued(q, r)'
    <3>1. PICK i \in DOMAIN stream : stream[i].type = "update"
                                       /\ stream[i].pda = q /\ stream[i].slot = r
      BY <2>2 DEF Queued
    <3>2. 1 < i
      BY <1>0, <1>3, <1>9, <3>1, TailQueued
    <3>3. i - 1 \in DOMAIN stream' /\ stream'[i - 1] = stream[i]
      BY <1>0, <3>2, TailQueued
    <3> QED
      BY <3>1, <3>3 DEF Queued
  <2>3. ASSUME Dropping(q) PROVE Dropping(q)'
    <3>1. CASE q \in clearing
      BY <1>0, <3>1 DEF Dropping
    <3>2. CASE \E i \in DOMAIN stream :
                 stream[i].type \in {"interrupted", "terminated"}
      <4>1. PICK i \in DOMAIN stream :
              stream[i].type \in {"interrupted", "terminated"}
        BY <3>2
      <4>2. 1 < i
        BY <1>0, <1>2, <4>1, TailQueued
      <4>3. i - 1 \in DOMAIN stream' /\ stream'[i - 1] = stream[i]
        BY <1>0, <4>2, TailQueued
      <4> QED
        BY <4>1, <4>3 DEF Dropping
    <3> QED
      BY <2>3, <3>1, <3>2 DEF Dropping
  <2> QED
    BY <1>9, <2>1, <2>2, <2>3 DEF Covered
<1>10. ASSUME NEW q \in Pdas, NEW k \in Nat, CoveredFrom(q, k), q # p \/ k >= s
       PROVE  CoveredFrom(q, k)'
  <2> SUFFICES ASSUME NEW r \in 1 .. now, k < r, Changed(q, r)
               PROVE  Covered(q, r)'
    BY <1>0 DEF CoveredFrom, Changed
  <2>1. Covered(q, r)
    BY <1>10 DEF CoveredFrom
  <2>2. q # p \/ r # s
    BY <1>3, <1>10
  <2> QED
    BY <1>9, <2>1, <2>2
<1>11. ASSUME Spared PROVE p \in subs /\ CoveredFrom(p, s)'
  <2>1. MessageCoherent(1)
    BY <1>2, <1>11 DEF CoherenceInv, StreamCoherent
  <2>2. p \in subs
    BY <1>2, <1>3, <2>1 DEF MessageCoherent
  <2> SUFFICES ASSUME NEW r \in 1 .. now, s < r, Changed(p, r)
               PROVE  Covered(p, r)'
    BY <1>0, <2>2 DEF CoveredFrom, Changed
  <2>3. Undelivered(p, r) \/ QueuedBehind(1, p, r)
    BY <1>2, <1>3, <2>1 DEF MessageCoherent
  <2>4. QueuedBehind(1, p, r) => Queued(p, r) \/ Dropping(p)
    BY DEF QueuedBehind, Queued, Dropping
  <2>5. Covered(p, r) /\ r # s
    BY <1>3, <2>3, <2>4 DEF Covered
  <2> QED
    BY <1>3, <1>9, <2>5
<1>12. ASSUME Spared, NEW q \in Pdas PROVE Continued(q)
  <2>1. CASE q # p
    <3>1. db'[q] = db[q]
      BY <1>3, <1>4, <2>1 DEF TypeInv, TypeOK
    <3> QED
      BY <1>10, <2>1, <3>1 DEF Continued
  <2>2. CASE q = p /\ db[p] = Vacant
    BY <1>4, <2>2 DEF Continued, Applicable
  <2>3. CASE q = p /\ Applicable(db[p], s)
    <3>0. PICK r : db' = [db EXCEPT ![p] = Installed(s, r)]
      BY <1>4, <2>3
    <3>1. db'[p].slot = s /\ db'[p].fill = NoFill
      BY <1>3, <3>0 DEF Installed, TypeInv, TypeOK
    <3>2. CoveredFrom(p, s)'
      BY <1>11, <1>12
    <3>3. CoveredFrom(p, db[p].slot)'
      BY <3>1, <3>2 DEF CoveredFrom
    <3> QED
      BY <1>0, <1>3, <1>11, <1>12, <2>3, <3>1, <3>3 DEF Continued
  <2>4. CASE q = p /\ db[p] # Vacant /\ ~ Applicable(db[p], s)
    <3>1. db[p].slot \in Nat /\ ~ (db[p].slot < s)
      BY <1>3, <2>4, EntryType DEF Applicable, DelegationEntry
    <3>2. db[p].slot >= s /\ db[p].slot # 0
      BY <1>3, <3>1
    <3>3. ~ Pending(p)
      BY <1>3, <1>12, <2>4, <3>2 DEF CoherenceInv, EntryCoherent, Filled
    <3>4. db' = db
      BY <1>4, <2>4
    <3> QED
      BY <1>10, <2>4, <3>2, <3>3, <3>4 DEF Continued
  <2> QED
    BY <2>1, <2>2, <2>3, <2>4
<1> QED
  BY <1>0, <1>5, <1>6, <1>7, <1>8, <1>12, CoherenceFrame

\* Steps of the updater.
LEMMA CoherenceUpdater ==
  ASSUME CoherenceInv, SourceInv, TypeInv, Updater
  PROVE  CoherenceInv'
<1>1. CASE notify_filled
  <2>0. UNCHANGED <<chain, sync, stream, db, clearing, faults>>
        /\ UNCHANGED <<subs, cursor>>
    BY <1>1 DEF notify_filled, sync
  <2>1. ASSUME NEW t \in Calls PROVE Unmoved(t)
    <3>1. calls[t] \in Call /\ calls' = [u \in Calls |->
            IF At(u, "select") /\ calls[u].fill = waking
              THEN [calls[u] EXCEPT !.watch =
                      CASE @ = "armed"   -> "signalled"
                        [] @ = "waiting" -> "off"
                        [] OTHER         -> @]
              ELSE calls[u]]
      BY <1>1 DEF notify_filled, TypeInv, TypeOK
    <3>2. calls'[t] = calls[t] \/ \E w : calls'[t] = [calls[t] EXCEPT !.watch = w]
      BY <3>1
    <3> QED
      BY <3>1, <3>2 DEF Unmoved, Call
  <2>2. \A p, k : CoveredFrom(p, k)' <=> CoveredFrom(p, k)
    BY <2>0, SameCover
  <2>3. Spared => StreamCoherent'
    BY <2>0, SameCover DEF CoherenceInv
  <2>4. \A p \in Pdas : Continued(p)
    BY <2>0, <2>2 DEF Continued
  <2>5. \A k \in Unforgiving : faults'[k] \in Nat /\ faults'[k] <= faults[k]
    BY <2>0 DEF TypeInv, TypeOK, Unforgiving, Faults
  <2>6. \A p \in Pdas : (cursor[p] <= now)'
    BY <2>0 DEF CoherenceInv
  <2> QED
    BY <2>0, <2>1, <2>3, <2>4, <2>5, <2>6, CoherenceFrame
<1>2. CASE SyncInterrupted
  <2>0. /\ stream # <<>> /\ stream' = Tail(stream) /\ clearing' = Pdas
        /\ UNCHANGED <<chain, sync, db, calls, faults>>
        /\ UNCHANGED <<subs, cursor>>
    BY <1>2 DEF SyncInterrupted, Receive, sync
  <2>1. \A p \in Pdas : Dropping(p)'
    BY <2>0 DEF Dropping
  <2>2. \A p \in Pdas, k \in Nat : CoveredFrom(p, k)'
    BY <2>1 DEF CoveredFrom, Covered
  <2>3. Spared => StreamCoherent'
    BY <2>0, TailCoherent DEF CoherenceInv
  <2>4. \A p \in Pdas : (cursor[p] <= now)'
    BY <2>0 DEF CoherenceInv
  <2> QED
    BY <2>0, <2>2, <2>3, <2>4, CoherenceAround
<1>3. ASSUME NEW p \in Pdas, ClearEntry(p) PROVE CoherenceInv'
  <2>0. /\ clearing' = clearing \ {p} /\ db' = [db EXCEPT ![p] = Vacant]
        /\ UNCHANGED <<chain, sync, stream, calls, faults>>
        /\ UNCHANGED <<subs, cursor, alive>>
    BY <1>3 DEF ClearEntry, sync
  <2>1. ASSUME NEW q \in Pdas, q # p, NEW k \in Nat, CoveredFrom(q, k)
        PROVE  CoveredFrom(q, k)'
    <3>1. \A s : Covered(q, s) => Covered(q, s)'
      BY <2>0, <2>1 DEF Covered, Undelivered, Queued, Dropping
    <3> QED
      BY <2>0, <2>1, <3>1 DEF CoveredFrom, Changed
  <2>2. ASSUME NEW q \in Pdas PROVE Continued(q)
    <3>1. CASE q = p
      BY <2>0, <3>1 DEF Continued, TypeInv, TypeOK
    <3>2. CASE q # p
      <4>1. db'[q] = db[q]
        BY <2>0, <3>2 DEF TypeInv, TypeOK
      <4> QED
        BY <2>1, <3>2, <4>1 DEF Continued
    <3> QED
      BY <3>1, <3>2
  <2>3. StreamCoherent' <=> StreamCoherent
    BY <2>0 DEF StreamCoherent, MessageCoherent, QueuedBehind, Changed,
                Undelivered
  <2>4. \A k \in Unforgiving : faults'[k] \in Nat /\ faults'[k] <= faults[k]
    BY <2>0 DEF TypeInv, TypeOK, Unforgiving, Faults
  <2>5. \A q \in Pdas : (cursor[q] <= now)'
    BY <2>0 DEF CoherenceInv
  <2>6. \A t \in Calls : Unmoved(t)
    BY <2>0 DEF Unmoved
  <2>7. Spared => StreamCoherent'
    BY <2>3 DEF CoherenceInv
  <2> QED
    BY <2>0, <2>2, <2>4, <2>5, <2>6, <2>7, CoherenceFrame
<1>4. CASE SyncTerminated
  <2>0. /\ stream # <<>> /\ stream' = Tail(stream)
        /\ Head(stream).type = "terminated"
        /\ UNCHANGED <<chain, sync, db, calls, faults>>
        /\ UNCHANGED <<chain, subs, cursor>>
    BY <1>4 DEF SyncTerminated, Receive, sync
  <2>1. 1 \in DOMAIN stream /\ stream[1].type = "terminated"
    BY <2>0, TailQueued
  <2>2. ~ Spared
    BY <2>1 DEF CoherenceInv, StreamCoherent, MessageCoherent
  <2>3. \A p \in Pdas : (cursor[p] <= now)'
    BY <2>0 DEF CoherenceInv
  <2> QED
    BY <2>0, <2>2, <2>3, CoherenceAround
<1> QED
  BY <1>1, <1>2, <1>3, <1>4, CoherenceUpdate DEF Updater

\* The end of the sync service spends a fault that is not forgiven.
LEMMA CoherenceTerminate ==
  ASSUME CoherenceInv, TypeInv, SyncTerminate
  PROVE  CoherenceInv'
<1>1. Spend("terminate") /\ UNCHANGED <<chain, cursor>>
  BY DEF SyncTerminate
<1>2. \A p \in Pdas : (cursor[p] <= now)'
  BY <1>1 DEF CoherenceInv
<1> QED
  BY <1>1, <1>2, SpendUnforgiven, CoherenceLost DEF Unforgiving

\* Every step keeps the coherence, if the service replays at least the slots by
\* which get_record rolls the slot of its subscription back.
LEMMA CoherenceStep ==
  ASSUME Rollback <= ReplayWindow
  PROVE  CoherenceInv /\ SourceInv /\ TypeInv /\ [Next]_vars => CoherenceInv'
<1> SUFFICES ASSUME CoherenceInv, SourceInv, TypeInv, [Next]_vars
             PROVE  CoherenceInv'
  OBVIOUS
<1>1. CASE UNCHANGED vars
  <2>1. /\ UNCHANGED <<db, calls, subs, cursor, chain, faults>>
        /\ UNCHANGED <<chain, sync, stream, clearing>>
    BY <1>1 DEF vars, sync, updater
  <2>2. \A p \in Pdas : (cursor[p] <= now)'
    BY <2>1 DEF CoherenceInv
  <2>3. Spared => StreamCoherent'
    BY <2>1, SameCover DEF CoherenceInv
  <2>4. \A p, k : CoveredFrom(p, k) => CoveredFrom(p, k)'
    BY <2>1, SameCover
  <2> QED
    BY <2>1, <2>2, <2>3, <2>4, CoherenceAround
<1>2. CASE \E p \in Pdas, d \in Data : ChainSlot(p, d)
  BY <1>2, CoherenceSlot
<1>3. CASE Deliver
  BY <1>3, CoherenceDeliver DEF Deliver
<1>4. ASSUME NEW t \in Calls, (\E p \in Pdas : get_record(t, p)) \/ Advance(t)
                                \/ Fetch(t) \/ Cancel(t)
      PROVE  CoherenceInv'
  BY <1>4, CoherenceLookup, CoherenceSubscribe, CoherenceFetch DEF Advance
<1> QED
  BY <1>1, <1>2, <1>3, <1>4, CoherenceInterrupt, CoherenceTerminate,
     CoherenceUpdater DEF Next

\* The cache is coherent, whatever interruptions and cancellations there are,
\* until an entry is evicted, a fetch gives up or the sync service ends: no
\* change after the slot of a filled entry is lost.  The service must replay at
\* least the MIN_CONTEXT_SLOT_ROLLBACK slots of history that a fetch is allowed
\* to be behind the subscription.
THEOREM CoherenceKept ==
  ASSUME Rollback <= ReplayWindow
  PROVE  Spec => [](Spared => Coherent)
<1>1. Spec => []TypeInv
  BY TypeInit, TypeStep, PTL DEF Spec
<1>2. Spec => []SourceInv
  BY <1>1, SourceInit, SourceStep, PTL DEF Spec
<1>3. CoherenceInv /\ SourceInv /\ TypeInv /\ [Next]_vars => CoherenceInv'
  BY CoherenceStep
<1>4. Spec => []CoherenceInv
  BY <1>1, <1>2, <1>3, CoherenceInit, PTL DEF Spec
<1>5. CoherenceInv /\ TypeInv => (Spared => Coherent)
  <2> SUFFICES ASSUME CoherenceInv, TypeInv, Spared,
                      NEW p \in Pdas, Filled(p),
                      NEW s \in db[p].slot + 1 .. now, Changed(p, s)
               PROVE  Covered(p, s)
    BY DEF Coherent, Covered
  <2>1. CoveredFrom(p, db[p].slot)
    BY DEF CoherenceInv, EntryCoherent
  <2>2. db[p].slot \in Nat /\ now \in Nat
    BY EntryType DEF Filled, DelegationEntry, TypeInv, TypeOK
  <2>3. s \in 1 .. now /\ db[p].slot < s
    BY <2>2
  <2> QED
    BY <2>1, <2>3 DEF CoveredFrom
<1> QED
  BY <1>1, <1>4, <1>5, PTL
=============================================================================
