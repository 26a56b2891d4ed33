------------------------- MODULE LiquidityPipeline -------------------------
(***************************************************************************)
(* Ticks and active liquidity of Uniswap v3 pools, reconstructed from logs *)
(* (ethereum-uniswap-v3-logs-only).  For every block substreams modules    *)
(* feed four stores from the pools' events; map_protocol_changes zips the  *)
(* stores' deltas with the changes they come from and collects attributes  *)
(* with one TransactionChangesBuilder per transaction.  The consumer then  *)
(* applies the messages in the order of the transactions.                  *)
(*                                                                         *)
(* The pools on chain and the substreams stores are external: the pool is  *)
(* its positions and its current tick, a store is its values and the list  *)
(* of deltas of the block, one per operation in the order of the calls.    *)
(* The tick stands for the price too: both are set by the same events.     *)
(***************************************************************************)
EXTENDS Integers, FiniteSets, FiniteSetsExt, SequencesExt

CONSTANTS
    Pool,           \* pools of the factory
    TickRange,      \* tick ranges of positions: pairs <<lower, upper>>
    Tick,           \* ticks that prices may have
    Fee,            \* protocol fees
    MaxPosition,    \* bound: largest liquidity of a position
    MaxEvents,      \* bound: events per block
    MaxTxs,         \* bound: transactions per block
    Absent, Unset, NoEntity,
    NoTick,         \* the pool has no tick: not initialised, or no store entry
    NoLiquidity     \* no value in the store of net liquidities

ASSUME LiquidityBounds ==
    /\ TickRange \subseteq {r \in Int \X Int : r[1] < r[2]} /\ IsFiniteSet(TickRange)
    /\ Tick \subseteq Int /\ 0 \in Tick /\ Fee \subseteq Nat
    /\ MaxPosition \in Nat /\ MaxEvents \in Nat /\ MaxTxs \in Nat \ {0}
    /\ NoTick \notin Int /\ NoLiquidity \notin Int

Boundary == {r[1] : r \in TickRange} \cup {r[2] : r \in TickRange}
TickName(t) == <<"ticks", t, "net-liquidity">>
Name == {<<"liquidity">>, <<"tick">>, <<"protocol_fees">>} \cup {TickName(t) : t \in Boundary}
Txs == 1..MaxTxs

VARIABLES
    created,        \* the chain: pools created so far
    current,        \* the chain: the current tick of each pool
    position,       \* the chain: liquidity of each position
    fee,            \* the chain: the protocol fee of each pool
    events,         \* the pools' events of the current block, by log ordinal
    tx,             \* index of the transaction being executed
    txEnd,          \* the pools' states at the end of each transaction
    phase,          \* which module runs next
    pools,          \* store_pools
    currentTick,    \* store_pool_current_tick, its value at each ordinal
    liquidity,      \* store_liquidity
    liquidityDeltas,
    ticks,          \* store_ticks_liquidity
    ticksDeltas,
    builders,       \* the builders' entity changes, by transaction index
    applied,        \* transactions of the block that the consumer has applied
    indexer         \* the pools' attributes as the consumer knows them

chainVars == <<created, current, position, fee, events, tx, txEnd>>
storeVars == <<pools, currentTick, liquidity, liquidityDeltas, ticks, ticksDeltas>>
vars == <<chainVars, storeVars, phase, builders, applied, indexer>>

Netting == INSTANCE InterimEntityChanges WITH Value <- Int

ASSUME NettingAssumption ==
    Absent \notin Int /\ Unset \notin Netting!Attribute /\ NoEntity \notin Netting!Interim

-----------------------------------------------------------------------------
(* The pools on chain                                                      *)

(* The ranges whose liquidity is active at the tick.                       *)
Covers(r, tick) == r[1] <= tick /\ tick < r[2]

LiquidityOf(pos, p, ranges) == MapThenSumSet(LAMBDA r : pos[<<p, r>>], ranges)

NetLiquidity(pos, p, t) ==
    LiquidityOf(pos, p, {r \in TickRange : r[1] = t})
        - LiquidityOf(pos, p, {r \in TickRange : r[2] = t})

Active(pos, p, tick) ==
    IF tick = NoTick THEN 0 ELSE LiquidityOf(pos, p, {r \in TickRange : Covers(r, tick)})

(* The state of a pool under the names of the attributes.                  *)
State(cur, pos, fees, p) ==
    [n \in Name |->
        CASE n = <<"liquidity">>     -> Active(pos, p, cur[p])
          [] n = <<"tick">>          -> IF cur[p] = NoTick THEN 0 ELSE cur[p]
          [] n = <<"protocol_fees">> -> fees[p]
          [] OTHER                   -> NetLiquidity(pos, p, n[2])]

Emit(event) ==
    /\ phase = "mine" /\ Len(events) < MaxEvents
    /\ events' = Append(events, event)
    /\ txEnd' = [t \in Txs |-> IF t < tx THEN txEnd[t]
                               ELSE [q \in Pool |-> State(current', position', fee', q)]]
    /\ UNCHANGED <<tx, phase, storeVars, builders, applied, indexer>>

CreatePool(p) ==
    /\ p \notin created
    /\ created' = created \cup {p}
    /\ UNCHANGED <<current, position, fee>>
    /\ Emit([type |-> "PoolCreated", pool |-> p, tx |-> tx])

Initialize(p, tick) ==
    /\ p \in created /\ current[p] = NoTick
    /\ current' = [current EXCEPT ![p] = tick]
    /\ UNCHANGED <<created, position, fee>>
    /\ Emit([type |-> "Initialize", pool |-> p, tx |-> tx, tick |-> tick])

Mint(p, r, amount) ==
    /\ current[p] # NoTick
    /\ position[<<p, r>>] + amount <= MaxPosition
    /\ position' = [position EXCEPT ![<<p, r>>] = @ + amount]
    /\ UNCHANGED <<created, current, fee>>
    /\ Emit([type |-> "Mint", pool |-> p, tx |-> tx, range |-> r, amount |-> amount])

(* A burn of zero collects fees; the pool allows it on live positions only.*)
Burn(p, r, amount) ==
    /\ position[<<p, r>>] > 0 /\ amount <= position[<<p, r>>]
    /\ position' = [position EXCEPT ![<<p, r>>] = @ - amount]
    /\ UNCHANGED <<created, current, fee>>
    /\ Emit([type |-> "Burn", pool |-> p, tx |-> tx, range |-> r, amount |-> amount])

Swap(p, tick) ==
    /\ current[p] # NoTick
    /\ current' = [current EXCEPT ![p] = tick]
    /\ UNCHANGED <<created, position, fee>>
    /\ Emit([type |-> "Swap", pool |-> p, tx |-> tx, tick |-> tick, liquidity |-> Active(position, p, tick)])

SetFeeProtocol(p, f) ==
    /\ current[p] # NoTick
    /\ fee' = [fee EXCEPT ![p] = f]
    /\ UNCHANGED <<created, current, position>>
    /\ Emit([type |-> "SetFeeProtocol", pool |-> p, tx |-> tx, fee |-> f])

NextTx ==
    /\ phase = "mine" /\ tx < MaxTxs
    /\ tx' = tx + 1
    /\ UNCHANGED <<created, current, position, fee, events, txEnd, phase, storeVars,
                   builders, applied, indexer>>

-----------------------------------------------------------------------------
(* Stores                                                                  *)

(* map_events: the ordinals of the events of the given types, of the pools *)
(* that store_pools knows by the end of the block.                         *)
PoolEvents(types) == {i \in DOMAIN events : events[i].type \in types /\ events[i].pool \in pools}

(* Lists of changes and of a store's deltas are in the order of ordinals.  *)
InOrder(ordinals) == FlattenSeq([o \in DOMAIN events |-> IF o \in ordinals THEN <<o>> ELSE <<>>])

StorePools ==
    /\ phase = "mine"
    /\ pools' = pools \cup {events[i].pool : i \in {i \in DOMAIN events :
                                                       events[i].type = "PoolCreated"}}
    /\ phase' = "current_tick"
    /\ UNCHANGED <<chainVars, currentTick, liquidity, liquidityDeltas, ticks, ticksDeltas,
                   builders, applied, indexer>>

(* The value of the store once the operations up to an ordinal are done.   *)
TicksAt(p) ==
    LET tick[o \in 0..MaxEvents] ==
            IF o = 0 THEN currentTick[p][0]
            ELSE IF o \in PoolEvents({"Initialize", "Swap"}) /\ events[o].pool = p
                 THEN events[o].tick
                 ELSE tick[o - 1]
    IN  tick

StorePoolCurrentTick ==
    /\ phase = "current_tick"
    /\ currentTick' = [p \in Pool |-> TicksAt(p)]
    /\ phase' = "liquidity"
    /\ UNCHANGED <<chainVars, pools, liquidity, liquidityDeltas, ticks, ticksDeltas,
                   builders, applied, indexer>>

(* Mutant: the tick at the end of the block is used for every event.       *)
GetLast(p, ordinal) ==
    IF currentTick[p][MaxEvents] = NoTick THEN 0 ELSE currentTick[p][MaxEvents]

(* get_at(ordinal).unwrap_or(0)                                            *)
GetAt(p, ordinal) ==
    IF currentTick[p][ordinal] = NoTick THEN 0 ELSE currentTick[p][ordinal]

(* Mutant: the upper tick counts as in range.                              *)
LiquidityChangesInclusive ==
    {i \in PoolEvents({"Mint", "Burn", "Swap"}) :
        \/ events[i].type = "Swap"
        \/ GetAt(events[i].pool, i) \in events[i].range[1]..events[i].range[2]}

(* map_liquidity_changes: positions out of range change nothing.           *)
LiquidityChanges ==
    {i \in PoolEvents({"Mint", "Burn", "Swap"}) :
        events[i].type = "Swap" \/ Covers(events[i].range, GetAt(events[i].pool, i))}

SignedAmount(event) == IF event.type = "Burn" THEN -event.amount ELSE event.amount

(* The value for a pool at each ordinal: sum for a Delta, set for an       *)
(* Absolute change.                                                        *)
LiquidityAt(p) ==
    LET value[o \in 0..Len(events)] ==
            IF o = 0 THEN liquidity[p]
            ELSE IF o \notin LiquidityChanges \/ events[o].pool # p THEN value[o - 1]
            ELSE IF events[o].type = "Swap" THEN events[o].liquidity
            ELSE value[o - 1] + SignedAmount(events[o])
    IN  value

StoreLiquidity ==
    /\ phase = "liquidity"
    /\ liquidity' = [p \in Pool |-> LiquidityAt(p)[Len(events)]]
    /\ liquidityDeltas' = LET os == InOrder(LiquidityChanges)
                          IN  [k \in DOMAIN os |-> LiquidityAt(events[os[k]].pool)[os[k]]]
    /\ phase' = "ticks"
    /\ UNCHANGED <<chainVars, pools, currentTick, ticks, ticksDeltas, builders, applied, indexer>>

(* event_to_ticks_deltas: what an event adds at a boundary of its range.   *)
DeltaAt(event, t) == IF t = event.range[1] THEN SignedAmount(event) ELSE -SignedAmount(event)

TickDeltasOf(o) ==
    LET Delta(t) == [ordinal |-> o, pool |-> events[o].pool, tx |-> events[o].tx, tick |-> t]
    IN  <<Delta(events[o].range[1]), Delta(events[o].range[2])>>

(* map_ticks_changes                                                       *)
TickDeltas ==
    FlattenSeq([o \in DOMAIN events |->
                   IF o \in PoolEvents({"Mint", "Burn"}) THEN TickDeltasOf(o) ELSE <<>>])

(* The value for a pool's tick at each ordinal.                            *)
NetAt(p, t) ==
    LET net[o \in 0..Len(events)] ==
            IF o = 0 THEN ticks[<<p, t>>]
            ELSE IF /\ o \in PoolEvents({"Mint", "Burn"}) /\ events[o].pool = p
                    /\ t \in {events[o].range[1], events[o].range[2]}
                 THEN (IF net[o - 1] = NoLiquidity THEN 0 ELSE net[o - 1]) + DeltaAt(events[o], t)
                 ELSE net[o - 1]
    IN  net

(* The deltas come sorted by ordinal, so sorting them again, even with an  *)
(* unstable sort, keeps the lower tick of an event before its upper one.   *)
StoreTicksLiquidity ==
    /\ phase = "ticks"
    /\ ticks' = [pt \in Pool \X Boundary |-> NetAt(pt[1], pt[2])[Len(events)]]
    /\ ticksDeltas' = [k \in DOMAIN TickDeltas |->
           LET d == TickDeltas[k]
           IN  [old |-> NetAt(d.pool, d.tick)[d.ordinal - 1],
                new |-> NetAt(d.pool, d.tick)[d.ordinal]]]
    /\ phase' = "changes"
    /\ UNCHANGED <<chainVars, pools, currentTick, liquidity, liquidityDeltas,
                   builders, applied, indexer>>

-----------------------------------------------------------------------------
(* map_protocol_changes                                                    *)

Message(t, p, n, value, change) ==
    [tx |-> t, pool |-> p, attributes |-> [name \in {n} |-> <<[value |-> value, change |-> change]>>]]

CreationMessages ==
    LET os == InOrder({i \in DOMAIN events : events[i].type = "PoolCreated"})
    IN  [k \in DOMAIN os |->
            [tx |-> events[os[k]].tx, pool |-> events[os[k]].pool,
             attributes |-> [n \in {<<"liquidity">>, <<"tick">>} |->
                                <<[value |-> 0, change |-> "Creation"]>>]]]

(* Mutant: the net liquidity is tested for zero before the old value.      *)
TickChangeZeroFirst(delta) ==
    IF delta.new = 0 THEN "Deletion"
    ELSE IF delta.old \in {NoLiquidity, 0} THEN "Creation"
    ELSE "Update"

TickChange(delta) ==
    IF delta.old \in {NoLiquidity, 0} THEN "Creation"
    ELSE IF delta.new = 0 THEN "Deletion"
    ELSE "Update"

TickMessages ==
    [k \in DOMAIN TickDeltas |->
        LET d == TickDeltas[k]
        IN  Message(d.tx, d.pool, TickName(d.tick), ticksDeltas[k].new, TickChange(ticksDeltas[k]))]

LiquidityMessages ==
    LET os == InOrder(LiquidityChanges)
    IN  [k \in DOMAIN os |->
            Message(events[os[k]].tx, events[os[k]].pool, <<"liquidity">>, liquidityDeltas[k],
                    "Update")]

OtherMessages ==
    LET os == InOrder(PoolEvents({"Initialize", "Swap", "SetFeeProtocol"}))
    IN  [k \in DOMAIN os |->
            LET e == events[os[k]]
            IN  IF e.type = "SetFeeProtocol"
                THEN Message(e.tx, e.pool, <<"protocol_fees">>, e.fee, "Update")
                ELSE Message(e.tx, e.pool, <<"tick">>, e.tick, "Update")]

(* TransactionChangesBuilder::add_entity_change                            *)
Received(entry, msg) ==
    IF entry = NoEntity THEN Netting!First(msg) ELSE Netting!Merged(entry, msg)

(* A loop over messages: each goes to the builder of its transaction.      *)
Collected(bs, messages) ==
    LET after[k \in 0..Len(messages)] ==
            IF k = 0 THEN bs
            ELSE [after[k - 1] EXCEPT ![messages[k].tx][messages[k].pool] =
                      Received(@, messages[k].attributes)]
    IN  after[Len(messages)]

MapProtocolChanges ==
    /\ phase = "changes"
    /\ builders' = LET creations == Collected(builders, CreationMessages)
                       netted    == Collected(creations, TickMessages)
                       active    == Collected(netted, LiquidityMessages)
                   IN  Collected(active, OtherMessages)
    /\ phase' = "apply"
    /\ UNCHANGED <<chainVars, storeVars, applied, indexer>>

-----------------------------------------------------------------------------
(* The consumer                                                            *)

ApplyTx ==
    /\ phase = "apply" /\ applied < MaxTxs
    /\ applied' = applied + 1
    /\ indexer' = [p \in Pool |-> Netting!Applied(indexer[p], builders[applied + 1][p])]
    /\ UNCHANGED <<chainVars, storeVars, phase, builders>>

NoBuilders == [t \in Txs |-> [p \in Pool |-> NoEntity]]

NextBlock ==
    /\ phase = "apply" /\ applied = MaxTxs
    /\ phase' = "mine"
    /\ applied' = 0
    /\ events' = <<>>
    /\ tx' = 1
    /\ txEnd' = [t \in Txs |-> txEnd[MaxTxs]]
    /\ currentTick' = [p \in Pool |-> [ordinal \in 0..MaxEvents |-> currentTick[p][MaxEvents]]]
    /\ liquidityDeltas' = <<>>
    /\ ticksDeltas' = <<>>
    /\ builders' = NoBuilders
    /\ UNCHANGED <<created, current, position, fee, pools, liquidity, ticks, indexer>>

Init ==
    /\ created = {}
    /\ current = [p \in Pool |-> NoTick]
    /\ position = [pr \in Pool \X TickRange |-> 0]
    /\ fee = [p \in Pool |-> 0]
    /\ events = <<>>
    /\ tx = 1
    /\ txEnd = [t \in Txs |-> [p \in Pool |-> State(current, position, fee, p)]]
    /\ phase = "mine"
    /\ pools = {}
    /\ currentTick = [p \in Pool |-> [ordinal \in 0..MaxEvents |-> NoTick]]
    /\ liquidity = [p \in Pool |-> 0]
    /\ liquidityDeltas = <<>>
    /\ ticks = [pt \in Pool \X Boundary |-> NoLiquidity]
    /\ ticksDeltas = <<>>
    /\ builders = NoBuilders
    /\ applied = 0
    /\ indexer = [p \in Pool |-> [n \in Name |-> Absent]]

Next ==
    \/ \E p \in Pool :
          \/ CreatePool(p)
          \/ \E t \in Tick : Initialize(p, t) \/ Swap(p, t)
          \/ \E r \in TickRange :
                \/ \E amount \in 1..MaxPosition : Mint(p, r, amount)
                \/ \E amount \in 0..MaxPosition : Burn(p, r, amount)
          \/ \E f \in Fee : SetFeeProtocol(p, f)
    \/ NextTx
    \/ StorePools \/ StorePoolCurrentTick \/ StoreLiquidity \/ StoreTicksLiquidity
    \/ MapProtocolChanges
    \/ ApplyTx \/ NextBlock

Spec == Init /\ [][Next]_vars

-----------------------------------------------------------------------------
(* Properties                                                              *)

TypeOK ==
    /\ created \subseteq Pool /\ pools \subseteq created
    /\ current \in [Pool -> Tick \cup {NoTick}]
    /\ position \in [Pool \X TickRange -> 0..MaxPosition]
    /\ fee \in [Pool -> Fee \cup {0}]
    /\ Len(events) <= MaxEvents /\ tx \in Txs /\ applied \in 0..MaxTxs
    /\ currentTick \in [Pool -> [0..MaxEvents -> Tick \cup {NoTick}]]
    /\ liquidity \in [Pool -> Nat]
    /\ ticks \in [Pool \X Boundary -> Int \cup {NoLiquidity}]
    /\ builders \in [Txs -> [Pool -> Netting!Interim \cup {NoEntity}]]
    /\ indexer \in [Pool -> Netting!AttributeState]

Read(p, n) == IF indexer[p][n] = Absent THEN 0 ELSE indexer[p][n]

(* The consumer has applied everything the chain did up to a transaction.  *)
UpToDate == \/ phase = "apply" /\ applied > 0
            \/ phase = "mine" /\ events = <<>>

Reached == IF phase = "apply" THEN txEnd[applied] ELSE txEnd[1]

(* map_protocol_changes: after the messages of each transaction, not only  *)
(* of each block, the consumer reads the liquidity, tick, fees and net     *)
(* liquidities that the pool had at the end of that transaction.           *)
MirroredPerTransaction ==
    UpToDate => \A p \in Pool, n \in Name : Read(p, n) = Reached[p][n]

(* "If old value is empty or the int value is 0, it's considered as a      *)
(* creation": no message deletes a tick that the consumer does not hold,   *)
(* whatever the netting inside the transaction made of it.                 *)
DeletesHeldTicksOnly ==
    phase = "apply" /\ applied < MaxTxs => \A p \in Pool :
        LET entry == builders[applied + 1][p] IN
        entry # NoEntity => \A t \in Boundary :
            LET attr == entry.attributes[TickName(t)] IN
            attr # Unset /\ attr.change = "Deletion" => indexer[p][TickName(t)] # Absent

(* Between blocks the stores hold the pools' state: the additive and the   *)
(* set-or-sum store agree with the positions although the first one sees   *)
(* every position and the second only those in range.                      *)
StoresExact ==
    phase = "mine" /\ events = <<>> => \A p \in Pool :
        /\ liquidity[p] = Active(position, p, current[p])
        /\ currentTick[p][0] = current[p]
        /\ pools = created
        /\ \A t \in Boundary :
              (IF ticks[<<p, t>>] = NoLiquidity THEN 0 ELSE ticks[<<p, t>>]) = NetLiquidity(position, p, t)
=============================================================================
