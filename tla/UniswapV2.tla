----------------------------- MODULE UniswapV2 -----------------------------
(***************************************************************************)
(* The Uniswap v2 substreams (ethereum-uniswap-v2): map_pools_created      *)
(* turns PairCreated events into transaction changes, store_pools keeps    *)
(* the pools, map_pool_events reduces the Sync events of each transaction  *)
(* to the last one of each pool and merges both by transaction.            *)
(*                                                                         *)
(* merge_block hands its HashMap over in no particular order ("a set of    *)
(* transaction changes", says common.proto): the consumer, external here,  *)
(* applies the changes in the order of the transaction indices they carry. *)
(* The two reserves of a pool always change together and are one value.    *)
(***************************************************************************)
EXTENDS Naturals, FiniteSets, Sequences

CONSTANTS
    Pool,           \* pair contracts
    Reserves,       \* pairs of reserves
    NoReserves,     \* the reserves of a new pair: <<0, 0>>
    Absent,         \* the consumer knows nothing
    MaxEvents,      \* bound: events per block
    MaxTxs          \* bound: transactions per block

ASSUME UniswapV2Assumption ==
    /\ NoReserves \in Reserves /\ Absent \notin Reserves
    /\ MaxEvents \in Nat /\ MaxTxs \in Nat \ {0}

Txs == 1..MaxTxs

VARIABLES
    created,        \* the chain: pairs created so far
    reserves,       \* the chain: reserves of the pairs
    events,         \* events of the current block, in order
    tx,             \* index of the transaction being executed
    txEnd,          \* the reserves at the end of each transaction
    phase,          \* which module runs next
    store,          \* store_pools
    changes,        \* output of the map modules: transaction changes
    applied,        \* transactions of the block that the consumer has applied
    indexer         \* components, attributes and balances at the consumer

chainVars == <<created, reserves, events, tx, txEnd>>
vars == <<chainVars, phase, store, changes, applied, indexer>>

(* The parts of a transaction's changes that concern pairs: new components,*)
(* and functions from pairs to reserve attributes and to balances.         *)
NoTx == [components |-> {}, attributes |-> [p \in {} |-> NoReserves],
         balances |-> [p \in {} |-> NoReserves]]
Part(ps) == [ps -> Reserves]
Change == [components : SUBSET Pool, attributes : UNION {Part(ps) : ps \in SUBSET Pool},
           balances : UNION {Part(ps) : ps \in SUBSET Pool}]
Books == [components : SUBSET Pool, attributes : [Pool -> Reserves \cup {Absent}],
          balances : [Pool -> Reserves \cup {Absent}]]
Event == [type : {"PairCreated", "Sync"}, pool : Pool, tx : Txs, reserves : Reserves]

TypeOK ==
    /\ created \subseteq Pool /\ store \subseteq Pool
    /\ reserves \in [Pool -> Reserves]
    /\ events \in Seq(Event) /\ Len(events) <= MaxEvents
    /\ tx \in Txs /\ applied \in 0..MaxTxs
    /\ phase \in {"mine", "store", "events", "apply"}
    /\ txEnd \in [Txs -> [Pool -> Reserves]]
    /\ changes \in [Txs -> Change]
    /\ indexer \in Books

-----------------------------------------------------------------------------
(* The chain                                                               *)

Emit(type, p) ==
    /\ phase = "mine" /\ Len(events) < MaxEvents
    /\ events' = Append(events, [type |-> type, pool |-> p, tx |-> tx,
                                 reserves |-> reserves'[p]])
    /\ txEnd' = [t \in Txs |-> IF t < tx THEN txEnd[t] ELSE reserves']
    /\ UNCHANGED <<tx, phase, store, changes, applied, indexer>>

CreatePair(p) ==
    /\ p \notin created
    /\ created' = created \cup {p}
    /\ UNCHANGED reserves
    /\ Emit("PairCreated", p)

ChangeReserves(p, r) ==
    /\ p \in created
    /\ reserves' = [reserves EXCEPT ![p] = r]
    /\ UNCHANGED created
    /\ Emit("Sync", p)

NextTx ==
    /\ phase = "mine" /\ tx < MaxTxs
    /\ tx' = tx + 1
    /\ UNCHANGED <<created, reserves, events, txEnd, phase, store, changes, applied, indexer>>

-----------------------------------------------------------------------------
(* The substreams modules                                                  *)

Created(t) == {i \in DOMAIN events : events[i].tx = t /\ events[i].type = "PairCreated"}
PairsCreated(t) == {events[i].pool : i \in Created(t)}
FirstCreated(t) == {events[i].pool : i \in {i \in Created(t) : \A j \in Created(t) : i <= j}}

(* map_pools_created gives one change per event.  merge_block puts those   *)
(* of one transaction together: components and attributes of all of them,  *)
(* balances of the first one.                                              *)
MapPoolsCreated ==
    /\ phase = "mine"
    /\ changes' = [t \in Txs |->
           [components |-> PairsCreated(t),
            attributes |-> [p \in PairsCreated(t) |-> NoReserves],
            balances   |-> [p \in FirstCreated(t) |-> NoReserves]]]
    /\ phase' = "store"
    /\ UNCHANGED <<chainVars, store, applied, indexer>>

StorePools ==
    /\ phase = "store"
    /\ store' = store \cup UNION {changes[t].components : t \in Txs}
    /\ phase' = "events"
    /\ UNCHANGED <<chainVars, changes, applied, indexer>>

Syncs(t) ==
    {i \in DOMAIN events : /\ events[i].tx = t /\ events[i].type = "Sync"
                           /\ events[i].pool \in store}

(* Mutant: a reserve attribute already there is kept.                      *)
SyncedFirst(t) ==
    [p \in {events[i].pool : i \in Syncs(t)} |->
        LET is == {i \in Syncs(t) : events[i].pool = p}
        IN  events[CHOOSE i \in is : \A j \in is : i <= j].reserves]

(* handle_sync: a later event of a pool in a transaction replaces the      *)
(* earlier one, for the attributes and for the balances.                   *)
Synced(t) ==
    [p \in {events[i].pool : i \in Syncs(t)} |->
        LET is == {i \in Syncs(t) : events[i].pool = p}
        IN  events[CHOOSE i \in is : \A j \in is : j <= i].reserves]

(* Mutant: get for remove, so that the final loop overwrites the change of *)
(* a transaction that created pools.                                       *)
MergedOverwritten(t) ==
    IF Syncs(t) = {} THEN changes[t]
    ELSE [components |-> {}, attributes |-> Synced(t), balances |-> Synced(t)]

(* Mutant: unchanged reserves are written as unknown attributes.           *)
MergedTyped(t) ==
    IF Syncs(t) = {} THEN changes[t]
    ELSE [changes[t] EXCEPT !.attributes = [p \in Pool |-> Absent], !.balances = Synced(t)]

(* merge_block: the Sync events of a transaction replace the attributes    *)
(* and balances that came with the creation of pools.                      *)
MergedTx(t) ==
    IF Syncs(t) = {} THEN changes[t]
    ELSE [changes[t] EXCEPT !.attributes = Synced(t), !.balances = Synced(t)]

MapPoolEvents ==
    /\ phase = "events"
    /\ changes' = [t \in Txs |-> MergedTx(t)]
    /\ phase' = "apply"
    /\ UNCHANGED <<chainVars, store, applied, indexer>>

-----------------------------------------------------------------------------
(* The consumer                                                            *)

Overridden(known, part) == [p \in Pool |-> IF p \in DOMAIN part THEN part[p] ELSE known[p]]

ApplyTx ==
    /\ phase = "apply" /\ applied < MaxTxs
    /\ applied' = applied + 1
    /\ indexer' = LET c == changes[applied + 1] IN
           [components |-> indexer.components \cup c.components,
            attributes |-> Overridden(indexer.attributes, c.attributes),
            balances   |-> Overridden(indexer.balances, c.balances)]
    /\ UNCHANGED <<chainVars, phase, store, changes>>

NextBlock ==
    /\ phase = "apply" /\ applied = MaxTxs
    /\ phase' = "mine"
    /\ applied' = 0
    /\ events' = <<>>
    /\ tx' = 1
    /\ txEnd' = [t \in Txs |-> reserves]
    /\ changes' = [t \in Txs |-> NoTx]
    /\ UNCHANGED <<created, reserves, store, indexer>>

Init ==
    /\ created = {}
    /\ reserves = [p \in Pool |-> NoReserves]
    /\ events = <<>>
    /\ tx = 1
    /\ txEnd = [t \in Txs |-> reserves]
    /\ phase = "mine"
    /\ store = {}
    /\ changes = [t \in Txs |-> NoTx]
    /\ applied = 0
    /\ indexer = [components |-> {}, attributes |-> [p \in Pool |-> Absent],
                  balances |-> [p \in Pool |-> Absent]]

Next ==
    \/ \E p \in Pool : CreatePair(p) \/ \E r \in Reserves : ChangeReserves(p, r)
    \/ NextTx
    \/ MapPoolsCreated \/ StorePools \/ MapPoolEvents
    \/ ApplyTx \/ NextBlock

Spec == Init /\ [][Next]_vars

-----------------------------------------------------------------------------
(* Properties                                                              *)

UpToDate == \/ phase = "apply" /\ applied > 0
            \/ phase = "mine" /\ events = <<>>

Reached == IF phase = "apply" THEN txEnd[applied] ELSE txEnd[1]

Read(known) == IF known = Absent THEN NoReserves ELSE known

(* PartialChanges, "the final state of the pool after the transaction":    *)
(* after the changes of each transaction the consumer reads the reserves   *)
(* the pool had then, as attributes and as balances, of pools it knows as  *)
(* components once anything but zero is to be read.                        *)
MirroredPerTransaction ==
    UpToDate => \A p \in Pool :
        /\ Read(indexer.attributes[p]) = Reached[p]
        /\ Read(indexer.balances[p]) = Reached[p]
        /\ Reached[p] # NoReserves => p \in indexer.components

(* No change refers to a pool that the consumer has not been told of, in   *)
(* the same or an earlier transaction, although the Sync events are        *)
(* filtered with the pools known at the end of the block.                  *)
KnownPoolsOnly ==
    phase = "apply" /\ applied < MaxTxs =>
        LET c == changes[applied + 1] IN
        DOMAIN c.attributes \cup DOMAIN c.balances \subseteq indexer.components \cup c.components
=============================================================================
