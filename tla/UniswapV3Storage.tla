--------------------------- MODULE UniswapV3Storage --------------------------
(***************************************************************************)
(* Uniswap v3 from traces (src/substreams/ethereum-uniswap-v3): unlike the *)
(* logs-only package, which computes liquidities from the events, this one *)
(* takes an event only as a sign to look at the storage changes of the     *)
(* call that emitted it, and reads from them the attributes that changed.  *)
(* Balances are added up from the events and read from their store.        *)
(*                                                                         *)
(* External are the pools (their lock admits one call at a time, so that   *)
(* one pool shows all orders there are), the store and the consumer.  The  *)
(* two tokens of a pool are one, and the price stands with the tick.       *)
(***************************************************************************)
EXTENDS DeltaStores

CONSTANTS
    MaxAmount,      \* bound: liquidity, fees and balances
    MaxTxs,         \* bound: transactions per block
    MaxEvents,      \* bound: events of the pool per block
    Absent          \* no value known

StorageBounds ==
    MaxAmount \in Nat /\ MaxTxs \in Nat \ {0} /\ MaxEvents \in Nat /\ Absent \notin Int

Tx == 1..MaxTxs
Tick == {0, 1}                  \* one position range holds tick 0 and not tick 1

TrackedSlots == {"tick", "liquidity", "protocol_fees", "fee_protocol"}
TickSlots == {"lower", "upper"}     \* net liquidities at the ends of the range
Attr == TrackedSlots \cup TickSlots
Pools == {"pool"}

VARIABLES
    chain,          \* the pool's storage, balance, and what burns have left to collect
    block,          \* the events of the block, the state after each transaction
    phase,          \* which module runs next
    stores,         \* store_pools, store_pools_balances
    deltas,         \* map_balance_changes
    message,        \* map_pool_events: the changes of each transaction
    indexer         \* what the consumer knows

vars == <<chain, block, phase, stores, deltas, message, indexer>>

TypeOK ==
    /\ chain.pools \subseteq Pools /\ chain.initialized \in BOOLEAN
    /\ chain.storage \in [Attr -> -MaxAmount..MaxAmount]
    /\ chain.balance \in 0..(2 * MaxAmount)
    /\ block.tx \in Tx /\ Len(block.events) <= MaxEvents
    /\ phase \in {"mine", "store", "map", "apply"}
    /\ stores.pools \subseteq Pools /\ stores.balance \in Int
    /\ indexer.attributes \in [Attr -> Int \cup {Absent}]

-----------------------------------------------------------------------------
(* The chain                                                               *)

(* An event with the storage before and after the call that emitted it,    *)
(* and between two writes of the call.                                     *)
EmitVia(between, type, amount) ==
    /\ phase = "mine" /\ Len(block.events) < MaxEvents
    /\ block' = [block EXCEPT
           !.events = Append(@, [type |-> type, tx |-> block.tx, amount |-> amount,
                                 before |-> chain.storage, between |-> between,
                                 after |-> chain'.storage]),
           !.txEnd[block.tx] = chain']
    /\ UNCHANGED <<phase, stores, deltas, message, indexer>>

Emit(type, amount) == EmitVia(chain.storage, type, amount)

CreatePool ==
    /\ chain.pools = {}
    /\ chain' = [chain EXCEPT !.pools = Pools]
    /\ Emit("PoolCreated", 0)

Initialize(tick) ==
    /\ chain.pools # {} /\ ~chain.initialized
    /\ chain' = [chain EXCEPT !.initialized = TRUE, !.storage["tick"] = tick]
    /\ Emit("Initialize", 0)

ActiveAt(tick, storage) == IF tick = 0 THEN storage["lower"] ELSE 0

(* The tick may be written twice, with another value first.                *)
Swap(between, tick, delta, fee) ==
    /\ between = tick => tick = chain.storage["tick"]
    /\ chain.initialized /\ chain.balance + delta >= 0
    /\ chain.balance + delta <= 2 * MaxAmount
    /\ chain.storage["protocol_fees"] + fee <= MaxAmount
    /\ chain' = [chain EXCEPT
           !.balance = @ + delta,
           !.storage["tick"] = tick,
           !.storage["protocol_fees"] = @ + fee,
           !.storage["liquidity"] = ActiveAt(tick, chain.storage)]
    /\ EmitVia([chain.storage EXCEPT !["tick"] = between], "Swap", delta)

(* The storage once the range has some more liquidity, or less.            *)
Positioned(amount) ==
    [chain.storage EXCEPT
        !["lower"] = @ + amount, !["upper"] = @ - amount,
        !["liquidity"] = IF chain.storage["tick"] = 0 THEN @ + amount ELSE @]

Mint ==
    /\ chain.initialized /\ chain.storage["lower"] < MaxAmount /\ chain.balance < 2 * MaxAmount
    /\ chain' = [chain EXCEPT !.storage = Positioned(1), !.balance = @ + 1]
    /\ Emit("Mint", 1)

(* What is burned stays in the pool until it is collected.                 *)
Burn ==
    /\ chain.storage["lower"] > 0 /\ chain.owed < MaxAmount
    /\ chain' = [chain EXCEPT !.storage = Positioned(-1), !.owed = @ + 1]
    /\ Emit("Burn", 1)

Collect ==
    /\ chain.owed > 0 /\ chain.balance > 0
    /\ chain' = [chain EXCEPT !.owed = @ - 1, !.balance = @ - 1]
    /\ Emit("Collect", 1)

Flash ==
    /\ chain.initialized /\ chain.balance < 2 * MaxAmount
    /\ chain.storage["protocol_fees"] < MaxAmount
    /\ chain' = [chain EXCEPT !.storage["protocol_fees"] = @ + 1, !.balance = @ + 1]
    /\ Emit("Flash", 1)

CollectProtocol ==
    /\ chain.storage["protocol_fees"] > 0 /\ chain.balance > 0
    /\ chain' = [chain EXCEPT !.storage["protocol_fees"] = @ - 1, !.balance = @ - 1]
    /\ Emit("CollectProtocol", 1)

SetFeeProtocol ==
    /\ chain.initialized
    /\ chain' = [chain EXCEPT !.storage["fee_protocol"] = 1 - @]
    /\ Emit("SetFeeProtocol", 0)

NextTx ==
    /\ phase = "mine" /\ block.tx < MaxTxs
    /\ block' = [block EXCEPT !.tx = @ + 1, !.txEnd[block.tx + 1] = chain]
    /\ UNCHANGED <<chain, phase, stores, deltas, message, indexer>>

-----------------------------------------------------------------------------
(* map_pools_created, store_pools, map_balance_changes                     *)

Created(t) ==
    IF \E i \in DOMAIN block.events : block.events[i].type = "PoolCreated" /\ block.events[i].tx = t
    THEN Pools ELSE {}

(* The events of the pool itself, if it is known.                          *)
PoolEvents(known) ==
    {i \in DOMAIN block.events : known # {} /\ block.events[i].type # "PoolCreated"}

(* get_balance_delta.  Swaps come with a sign, the other events without;   *)
(* a burn moves nothing, since its tokens leave when they are collected.   *)
PaidIn(e) == {e.amount}
PaidOut(e) == {-e.amount}

(* Mutant: what is burned leaves the pool at once.                         *)
DeltasAtBurn(e) ==
    CASE e.type \in {"Swap", "Mint", "Flash"} -> PaidIn(e)
      [] e.type \in {"Burn", "Collect", "CollectProtocol"} -> PaidOut(e)
      [] OTHER -> {}

BalanceDeltas(e) ==
    CASE e.type \in {"Swap", "Mint", "Flash"} -> PaidIn(e)
      [] e.type \in {"Collect", "CollectProtocol"} -> PaidOut(e)
      [] OTHER -> {}

(* At most one delta for an event, in the order of the events.             *)
MapBalanceChanges ==
    /\ phase = "mine"
    /\ LET pools == stores.pools \cup UNION {Created(t) : t \in Tx}
       IN  /\ stores' = [stores EXCEPT !.pools = pools]
           /\ deltas' = [i \in DOMAIN block.events |->
                            IF i \in PoolEvents(pools) THEN BalanceDeltas(block.events[i]) ELSE {}]
    /\ phase' = "store"
    /\ UNCHANGED <<chain, block, message, indexer>>

StorePoolsBalances ==
    /\ phase = "store"
    /\ LET balance[i \in 0..Len(block.events)] ==
               IF i = 0 THEN stores.balance
               ELSE IF deltas[i] = {} THEN balance[i - 1]
               ELSE balance[i - 1] + CHOOSE d \in deltas[i] : TRUE
       IN  stores' = [stores EXCEPT !.balance = balance[Len(block.events)]]
    /\ phase' = "map"
    /\ UNCHANGED <<chain, block, deltas, message, indexer>>

-----------------------------------------------------------------------------
(* map_pool_events                                                         *)

(* Mutant: a burn is not looked up among the ticks.                        *)
LocationsOfMint(e) == TrackedSlots \cup IF e.type = "Mint" THEN TickSlots ELSE {}

(* The storage locations that an event makes the module look for.          *)
Locations(e) ==
    TrackedSlots \cup IF e.type \in {"Mint", "Burn", "Collect"} THEN TickSlots ELSE {}

(* get_changed_attributes: those in whose data a write made a difference,  *)
(* though a later write may have taken it back.                            *)
ChangedAttributes(e) ==
    {a \in Locations(e) : e.before[a] # e.between[a] \/ e.between[a] # e.after[a]}

(* merge_entity_changes: a later value of an attribute replaces one, of    *)
(* the same call or of an earlier one.                                     *)
Attributes(t) ==
    LET changing(a) == {i \in PoolEvents(stores.pools) :
                           block.events[i].tx = t /\ a \in ChangedAttributes(block.events[i])}
        initial == IF Created(t) # {} THEN {"tick", "liquidity"} ELSE {}
    IN  [a \in initial \cup {a \in Attr : changing(a) # {}} |->
            IF changing(a) = {} THEN 0 ELSE block.events[Max(changing(a))].after[a]]

Magnitude(n) == IF n < 0 THEN -n ELSE n

(* get_last: under every transaction that moves tokens stands the balance  *)
(* at the end of the block.                                                *)
Balance(t) ==
    IF \E i \in PoolEvents(stores.pools) :
           block.events[i].tx = t /\ BalanceDeltas(block.events[i]) # {}
    THEN {Magnitude(stores.balance)} ELSE {}

MapPoolEvents ==
    /\ phase = "map"
    /\ message' = [t \in 1..block.tx |->
           [components |-> Created(t), attributes |-> Attributes(t), balance |-> Balance(t)]]
    /\ phase' = "apply"
    /\ UNCHANGED <<chain, block, stores, deltas, indexer>>

-----------------------------------------------------------------------------
(* The consumer applies the transactions by their index.                   *)

ApplyTx(known, changes) ==
    [components |-> known.components \cup changes.components,
     attributes |-> Updated(known.attributes, changes.attributes),
     balance |-> IF changes.balance = {} THEN known.balance
                 ELSE CHOOSE b \in changes.balance : TRUE]

KnownAfter(t) ==
    LET known[n \in 0..Len(message)] ==
            IF n = 0 THEN indexer ELSE ApplyTx(known[n - 1], message[n])
    IN  known[t]

NewBlock(state) == [tx |-> 1, events |-> <<>>, txEnd |-> [t \in Tx |-> state]]

Apply ==
    /\ phase = "apply"
    /\ indexer' = KnownAfter(Len(message))
    /\ block' = NewBlock(chain)
    /\ deltas' = <<>>
    /\ message' = <<>>
    /\ phase' = "mine"
    /\ UNCHANGED <<chain, stores>>

Init ==
    /\ chain = [pools |-> {}, initialized |-> FALSE, storage |-> [a \in Attr |-> 0],
                balance |-> 0, owed |-> 0]
    /\ block = NewBlock(chain)
    /\ phase = "mine"
    /\ stores = [pools |-> {}, balance |-> 0]
    /\ deltas = <<>>
    /\ message = <<>>
    /\ indexer = [components |-> {}, attributes |-> [a \in Attr |-> Absent], balance |-> 0]

Next ==
    \/ CreatePool
    \/ \E tick \in Tick :
          \/ Initialize(tick)
          \/ \E between \in Tick, delta \in {-1, 1}, fee \in {0, 1} :
                Swap(between, tick, delta, fee)
    \/ Mint \/ Burn \/ Collect \/ Flash \/ CollectProtocol \/ SetFeeProtocol
    \/ NextTx
    \/ MapBalanceChanges
    \/ StorePoolsBalances
    \/ MapPoolEvents
    \/ Apply

Spec == Init /\ [][Next]_vars

-----------------------------------------------------------------------------
(* Properties                                                              *)

Read(value) == IF value = Absent THEN 0 ELSE value

(* events/mod.rs 24, "only the last state will be returned": after every   *)
(* transaction the consumer reads the whole tracked storage of the pool,   *)
(* although each event points at a part of it only.                        *)
StorageMirrored ==
    phase = "apply" => \A t \in 1..block.tx :
        /\ KnownAfter(t).components = block.txEnd[t].pools
        /\ \A a \in Attr : Read(KnownAfter(t).attributes[a]) = block.txEnd[t].storage[a]

(* Between blocks the consumer has the pool's balance; inside a block each *)
(* transaction that moved tokens has reported the one at the block's end.  *)
BalanceMirroredPerBlock ==
    /\ phase = "mine" /\ block.events = <<>> => indexer.balance = chain.balance
    /\ phase = "apply" => \A t \in 1..block.tx : message[t].balance \subseteq {chain.balance}
=============================================================================
