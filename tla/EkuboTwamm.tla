----------------------------- MODULE EkuboTwamm -----------------------------
(***************************************************************************)
(* Ekubo v2 (src/substreams/ethereum-ekubo-v2): a TWAMM pool, whose orders *)
(* sell at a rate between two points in time.  map_events lists the logs   *)
(* of core and of the extension; four map modules make changes of tick     *)
(* liquidities, order sale rates, active liquidity and active sale rates   *)
(* of them, each of which goes through a store and is zipped with the      *)
(* store's deltas in map_protocol_changes.                                 *)
(*                                                                         *)
(* External are the chain, the substreams stores and the consumer, which   *)
(* executes virtual orders by itself from the rates and orders it knows.   *)
(***************************************************************************)
EXTENDS SequenceFolds, Functions, FiniteSetsExt, TLC

CONSTANTS
    Tick,           \* ticks at which the pool can stand
    TickRange,          \* tick ranges <<lower, upper>> of positions
    Order,          \* orders <<token sold, start, end>>, the tokens being 0 and 1
    MaxRate,        \* bound: largest sale rate of an order, liquidity of a position
    MaxTime,        \* bound: last timestamp
    MaxTxs,         \* bound: transactions per block
    MaxCalls,       \* bound: calls of the pool per block
    CallOrder,      \* do the logs of an outer call come before those of inner ones?
    Absent, Unset, NoEntity

EkuboBounds ==
    /\ Tick \subseteq Nat /\ Tick # {} /\ TickRange \subseteq Nat \X Nat
    /\ Order \subseteq {0, 1} \X (0..MaxTime) \X (1..MaxTime)
    /\ \A o \in Order : o[2] < o[3]
    /\ MaxRate \in Nat /\ MaxTime \in Nat /\ MaxTxs \in Nat \ {0} /\ MaxCalls \in Nat
    /\ CallOrder \in BOOLEAN

Tx == 1..MaxTxs
Boundary == UNION {{r[1], r[2]} : r \in TickRange}
OrderTime == UNION {{o[2], o[3]} : o \in Order}

TickName(i) == <<"ticks", i>>
OrderName(token, time) == <<"orders", token, time>>
RateName(token) == <<"sale_rate", token>>
Stored == {TickName(i) : i \in Boundary} \cup {<<"liquidity">>}
          \cup {OrderName(token, time) : token \in {0, 1}, time \in OrderTime}
          \cup {RateName(token) : token \in {0, 1}}
Name == Stored \cup {<<"tick">>, <<"last_execution_time">>}

Netting == INSTANCE InterimEntityChanges WITH Value <- Int

VARIABLES
    chain,          \* time, whether the pool exists, tick, positions, orders
    block,          \* the logs of the block and the state after each transaction
    phase,          \* which module runs next
    stores,         \* the four stores' values, by attribute, and store_active_ticks
    deltas,         \* the changes of the four map modules with their store deltas
    message,        \* map_protocol_changes
    indexer         \* the attributes that the consumer holds

vars == <<chain, block, phase, stores, deltas, message, indexer>>

TypeOK ==
    /\ chain.now \in 0..MaxTime /\ chain.executed \in 0..chain.now /\ chain.tick \in Tick
    /\ chain.position \in [TickRange -> 0..MaxRate] /\ chain.order \in [Order -> 0..MaxRate]
    /\ block.tx \in Tx /\ block.calls <= MaxCalls
    /\ phase \in {"mine", "map", "apply"}
    /\ stores.value \in [Stored -> Int]
    /\ message \in [Tx -> Netting!Interim]
    /\ indexer \in Netting!AttributeState

-----------------------------------------------------------------------------
(* The chain                                                               *)

NetLiquidity(state, i) ==
    MapThenSumSet(LAMBDA r : state.position[r], {r \in TickRange : r[1] = i})
    - MapThenSumSet(LAMBDA r : state.position[r], {r \in TickRange : r[2] = i})

Liquidity(state) ==
    MapThenSumSet(LAMBDA r : state.position[r],
                  {r \in TickRange : r[1] <= state.tick /\ state.tick < r[2]})

(* The rate at which a token is sold at a time.                            *)
SaleRate(state, token, time) ==
    MapThenSumSet(LAMBDA o : state.order[o],
                  {o \in Order : o[1] = token /\ o[2] <= time /\ time < o[3]})

Swapped(state) == [type |-> "Swapped", tick |-> state.tick, liquidity |-> Liquidity(state)]

(* Before anything else a call executes the virtual orders since the last  *)
(* execution; what they sell may move the tick.                            *)
Due == chain.executed < chain.now
Executed(moved) == [chain EXCEPT !.executed = chain.now, !.tick = moved]
ExecutionLogs(moved) ==
    IF ~Due THEN <<>>
    ELSE (IF moved = chain.tick THEN <<>> ELSE <<Swapped(Executed(moved))>>)
         \o <<[type |-> "VirtualOrdersExecuted",
               rates |-> [token \in {0, 1} |-> SaleRate(chain, token, chain.now)]]>>

(* The execution happens in calls that are nested in the call that emits   *)
(* the last log, but before that log, as the ordinals tell.                *)
Emit(inner, last) ==
    /\ phase = "mine" /\ block.calls < MaxCalls
    /\ LET n == Len(block.logs)
           logs == [i \in 1..Len(inner) |-> [ord |-> n + i, tx |-> block.tx] @@ inner[i]]
           outer == <<[ord |-> n + Len(inner) + 1, tx |-> block.tx] @@ last>>
       IN  block' = [block EXCEPT
               !.calls = @ + 1,
               !.logs = IF CallOrder THEN @ \o outer \o logs ELSE @ \o logs \o outer,
               !.txEnd = [@ EXCEPT ![block.tx] = chain']]
    /\ UNCHANGED <<phase, stores, deltas, message, indexer>>

Movable(moved) ==
    /\ chain.exists
    /\ moved # chain.tick => Due /\ \E o \in Order : chain.order[o] > 0 /\ o[2] < chain.now

InitializePool(tick) ==
    /\ ~chain.exists
    /\ chain' = [chain EXCEPT !.exists = TRUE, !.tick = tick, !.executed = chain.now]
    /\ Emit(<<>>, [type |-> "PoolInitialized", tick |-> tick])

Swap(moved, tick) ==
    /\ Movable(moved)
    /\ chain' = [Executed(moved) EXCEPT !.tick = tick]
    /\ Emit(ExecutionLogs(moved), Swapped(chain'))

UpdatePosition(moved, r, delta) ==
    /\ Movable(moved) /\ chain.position[r] + delta \in 0..MaxRate
    /\ chain' = [Executed(moved) EXCEPT !.position[r] = @ + delta]
    /\ Emit(ExecutionLogs(moved), [type |-> "PositionUpdated", range |-> r, delta |-> delta])

(* An order that has ended cannot be updated.                              *)
UpdateOrder(moved, o, delta) ==
    /\ Movable(moved) /\ chain.now < o[3] /\ chain.order[o] + delta \in 0..MaxRate
    /\ chain' = [Executed(moved) EXCEPT !.order[o] = @ + delta]
    /\ Emit(ExecutionLogs(moved), [type |-> "OrderUpdated", key |-> o, delta |-> delta])

NextTx ==
    /\ phase = "mine" /\ block.tx < MaxTxs
    /\ block' = [block EXCEPT !.tx = @ + 1, !.txEnd = [@ EXCEPT ![block.tx + 1] = chain]]
    /\ UNCHANGED <<chain, phase, stores, deltas, message, indexer>>

-----------------------------------------------------------------------------
(* The map modules.  A change sets a key of its store or adds to it.       *)

Change(log, name, set, value) ==
    [ord |-> log.ord, tx |-> log.tx, name |-> name, set |-> set, value |-> value]

ChangesOf(Of(_)) == FlattenSeq([i \in DOMAIN block.logs |-> Of(block.logs[i])])

TickDeltas(log) ==
    IF log.type # "PositionUpdated" THEN <<>>
    ELSE <<Change(log, TickName(log.range[1]), FALSE, log.delta),
           Change(log, TickName(log.range[2]), FALSE, -log.delta)>>

OrderSaleRateDeltas(log) ==
    IF log.type # "OrderUpdated" THEN <<>>
    ELSE <<Change(log, OrderName(log.key[1], log.key[2]), FALSE, log.delta),
           Change(log, OrderName(log.key[1], log.key[3]), FALSE, -log.delta)>>

(* store_active_ticks, read at an ordinal.                                 *)
GetAt(ord) ==
    LET logs == {log \in Range(block.logs) :
                    log.type \in {"PoolInitialized", "Swapped"} /\ log.ord <= ord}
    IN  IF logs = {} THEN stores.tick
        ELSE (CHOOSE log \in logs : \A other \in logs : other.ord <= log.ord).tick

(* map_liquidity_changes *)
LiquidityChanges(log) ==
    CASE log.type = "Swapped" -> <<Change(log, <<"liquidity">>, TRUE, log.liquidity)>>
      [] log.type = "PositionUpdated" /\ log.range[1] <= GetAt(log.ord)
                                      /\ GetAt(log.ord) < log.range[2] ->
             <<Change(log, <<"liquidity">>, FALSE, log.delta)>>
      [] OTHER -> <<>>

(* Mutant: an order counts as active only after the time of its start.     *)
StartedBefore(key) == chain.now > key[2] /\ chain.now < key[3]

Active(key) == chain.now >= key[2] /\ chain.now < key[3]

(* map_sale_rate_changes.  The timestamp of the block is the time of the   *)
(* last execution, as orders are executed before one is updated.           *)
SaleRateChanges(log) ==
    CASE log.type = "VirtualOrdersExecuted" ->
             [i \in 1..2 |-> Change(log, RateName(i - 1), TRUE, log.rates[i - 1])]
      [] log.type = "OrderUpdated" /\ Active(log.key) ->
             [i \in 1..2 |-> Change(log, RateName(i - 1), FALSE,
                                    IF log.key[1] = i - 1 THEN log.delta ELSE 0)]
      [] OTHER -> <<>>

-----------------------------------------------------------------------------
(* The stores apply their operations in the order of the ordinals.         *)

InOrdinalOrder(changes) ==
    FlattenSeq([o \in DOMAIN block.logs |-> SelectSeq(changes, LAMBDA c : c.ord = o)])

(* The value of a key once the first n operations are done.                *)
ValueAfter(ops, name, n) ==
    FoldLeft(LAMBDA v, op : IF op.set THEN op.value ELSE v + op.value, stores.value[name],
             SelectSeq(SubSeq(ops, 1, n), LAMBDA op : op.name = name))

(* The changes of a map module zipped with the deltas of its store.        *)
Zipped(changes) ==
    LET ops == InOrdinalOrder(changes)
    IN  [k \in DOMAIN changes |->
            [tx |-> changes[k].tx, name |-> changes[k].name,
             old |-> ValueAfter(ops, ops[k].name, k - 1),
             new |-> ValueAfter(ops, ops[k].name, k)]]

StoreChanges ==
    /\ phase = "mine"
    /\ LET ticks == ChangesOf(TickDeltas)
           orders == ChangesOf(OrderSaleRateDeltas)
           liquidity == ChangesOf(LiquidityChanges)
           rates == ChangesOf(SaleRateChanges)
           all == InOrdinalOrder(ticks \o orders \o liquidity \o rates)
       IN  /\ deltas' = [ticks |-> Zipped(ticks), orders |-> Zipped(orders),
                         liquidity |-> Zipped(liquidity), rates |-> Zipped(rates)]
           /\ stores' = [value |-> [n \in Stored |-> ValueAfter(all, n, Len(all))],
                         tick |-> GetAt(Len(block.logs))]
    /\ phase' = "map"
    /\ UNCHANGED <<chain, block, message, indexer>>

-----------------------------------------------------------------------------
(* map_protocol_changes                                                    *)

(* Mutant: what becomes zero is updated like anything else.                *)
NeverDeleted(delta) == IF delta.old = 0 THEN "Creation" ELSE "Update"

ChangeTypeFromDelta(delta) ==
    IF delta.old = 0 THEN "Creation" ELSE IF delta.new = 0 THEN "Deletion" ELSE "Update"

Attribute(tx, name, value, change) ==
    [tx |-> tx, name |-> name, attr |-> [value |-> value, change |-> change]]

Created(log) ==
    IF log.type # "PoolInitialized" THEN <<>>
    ELSE <<Attribute(log.tx, RateName(0), 0, "Creation"),
           Attribute(log.tx, RateName(1), 0, "Creation"),
           Attribute(log.tx, <<"last_execution_time">>, chain.now, "Creation"),
           Attribute(log.tx, <<"liquidity">>, 0, "Creation"),
           Attribute(log.tx, <<"tick">>, log.tick, "Creation")>>

FromDelta(d) == Attribute(d.tx, d.name, d.new, ChangeTypeFromDelta(d))
Updated(d) == Attribute(d.tx, d.name, d.new, "Update")

(* maybe_attribute_updates; the price stands with the tick.                *)
Remaining(log) ==
    CASE log.type = "Swapped" -> <<Attribute(log.tx, <<"tick">>, log.tick, "Update")>>
      [] log.type = "VirtualOrdersExecuted" ->
             <<Attribute(log.tx, <<"last_execution_time">>, chain.now, "Update")>>
      [] OTHER -> <<>>

MapProtocolChanges ==
    /\ phase = "map"
    /\ LET each(ds, Of(_)) == [k \in DOMAIN ds |-> Of(ds[k])]
           all == ChangesOf(Created) \o each(deltas.ticks, FromDelta)
                  \o each(deltas.orders, FromDelta) \o each(deltas.liquidity, Updated)
                  \o each(deltas.rates, Updated) \o ChangesOf(Remaining)
       IN  message' = FoldLeft(LAMBDA m, a :
               [m EXCEPT ![a.tx] = Netting!SetAttribute(@, a.name, a.attr)], message, all)
    /\ phase' = "apply"
    /\ UNCHANGED <<chain, block, stores, deltas, indexer>>

-----------------------------------------------------------------------------
(* The consumer applies the transactions in order; time goes on.           *)

KnownAfter(t) ==
    FoldLeft(LAMBDA known, i : Netting!Applied(known, message[i]), indexer, [i \in 1..t |-> i])

NoLogs(state) == [tx |-> 1, calls |-> 0, logs |-> <<>>, txEnd |-> [t \in Tx |-> state]]
NoDeltas == [ticks |-> <<>>, orders |-> <<>>, liquidity |-> <<>>, rates |-> <<>>]

Apply ==
    /\ phase = "apply"
    /\ indexer' = KnownAfter(MaxTxs)
    /\ chain' = [chain EXCEPT !.now = IF @ < MaxTime THEN @ + 1 ELSE @]
    /\ block' = NoLogs(chain')
    /\ deltas' = NoDeltas
    /\ message' = [t \in Tx |-> Netting!EmptyInterim]
    /\ phase' = "mine"
    /\ UNCHANGED stores

Init ==
    /\ chain = [now |-> 0, exists |-> FALSE, tick |-> CHOOSE t \in Tick : TRUE, executed |-> 0,
                position |-> [r \in TickRange |-> 0], order |-> [o \in Order |-> 0]]
    /\ block = NoLogs(chain)
    /\ phase = "mine"
    /\ stores = [value |-> [n \in Stored |-> 0], tick |-> Absent]
    /\ deltas = NoDeltas
    /\ message = [t \in Tx |-> Netting!EmptyInterim]
    /\ indexer = [n \in Name |-> Absent]

Next ==
    \/ \E tick \in Tick : InitializePool(tick)
    \/ \E moved \in Tick :
          \/ \E tick \in Tick : Swap(moved, tick)
          \/ \E r \in TickRange, delta \in {-1, 1} : UpdatePosition(moved, r, delta)
          \/ \E o \in Order, delta \in {-1, 1} : UpdateOrder(moved, o, delta)
    \/ NextTx
    \/ StoreChanges
    \/ MapProtocolChanges
    \/ Apply

Spec == Init /\ [][Next]_vars

-----------------------------------------------------------------------------
(* Properties                                                              *)

Read(known, n) == IF known[n] = Absent THEN 0 ELSE known[n]

(* "Aggregates ... changes by transaction" (6_map_protocol_changes 20):    *)
(* after every transaction the consumer has the pool's tick, liquidity,    *)
(* net liquidities and time of the last execution; and whatever later time *)
(* it executes virtual orders up to, the rate it knows plus the changes at *)
(* the times since then is the rate at which the pool's orders sell.       *)
ExecutesLikeThePool ==
    phase = "apply" => \A t \in 1..block.tx :
        LET state == block.txEnd[t]
            known == KnownAfter(t)
        IN  state.exists =>
              /\ Read(known, <<"tick">>) = state.tick
              /\ Read(known, <<"liquidity">>) = Liquidity(state)
              /\ \A i \in Boundary : Read(known, TickName(i)) = NetLiquidity(state, i)
              /\ Read(known, <<"last_execution_time">>) = state.executed
              /\ \A token \in {0, 1} : \A time \in state.executed..MaxTime :
                    Read(known, RateName(token))
                    + MapThenSumSet(LAMBDA at : Read(known, OrderName(token, at)),
                                    {at \in OrderTime : state.executed < at /\ at <= time})
                    = SaleRate(state, token, time)

(* change_type_from_delta: no message deletes a tick or an order's change  *)
(* that the consumer does not hold, and none with the value zero is left   *)
(* with it, whatever the builder netted.                                   *)
HoldsNoZeros ==
    phase = "apply" => \A t \in Tx : \A n \in Stored :
        n[1] \in {"ticks", "orders"} =>
            LET attr == message[t].attributes[n]
            IN  /\ attr # Unset /\ attr.change = "Deletion" => KnownAfter(t - 1)[n] # Absent
                /\ KnownAfter(t)[n] # 0
=============================================================================
