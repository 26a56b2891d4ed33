----------------------------- MODULE BalancerV3 -----------------------------
(***************************************************************************)
(* Balancer v3 (src/substreams/ethereum-balancer-v3): pools are contracts  *)
(* of their own, but the vault holds their tokens.  map_components finds   *)
(* new pools, store_components and store_token_set keep them and their     *)
(* tokens, map_relative_balances reads the vault's events, store_balances  *)
(* adds them up, and map_protocol_changes joins pause states, components,  *)
(* balances, changed contracts, the vault's reserves and update markers.   *)
(*                                                                         *)
(* External are the chain, the substreams stores and the consumer.         *)
(***************************************************************************)
EXTENDS DeltaStores, Functions

CONSTANTS
    Pool,           \* pool contracts, which are also the component ids
    Token,          \* ERC20 tokens
    TokensOf,       \* the two tokens of each pool
    MaxBalance,     \* bound: largest balance of a pool
    MaxReserve,     \* bound: largest reserve of the vault
    MaxTxs,         \* bound: transactions per block
    MaxEvents,      \* bound: events and calls of interest per block
    NoValue         \* no balance of the vault known

BalancerBounds ==
    /\ TokensOf \in [Pool -> Token \X Token]
    /\ \A p \in Pool : TokensOf[p][1] # TokensOf[p][2]
    /\ MaxBalance \in Nat /\ MaxReserve \in Nat /\ MaxTxs \in Nat \ {0} /\ MaxEvents \in Nat
    /\ NoValue \notin Nat

Key == {<<p, TokensOf[p][i]>> : p \in Pool, i \in {1, 2}}
Tx == 1..MaxTxs
Trades == {"Swap", "LiquidityAdded", "LiquidityRemoved"}

VARIABLES
    chain,          \* pools, paused pools, balances, a word of each pool, reservesOf,
                    \* and the tokens whose reserve a wrap changed last
    block,          \* the events and calls of the block, the state after each transaction
    phase,          \* which module runs next
    stores,         \* store_components, store_token_set, store_balances
    deltas,         \* map_relative_balances; with the store's values once they are known
    message,        \* map_protocol_changes
    indexer         \* what the consumer knows

vars == <<chain, block, phase, stores, deltas, message, indexer>>

TypeOK ==
    /\ chain.paused \subseteq chain.pools /\ chain.pools \subseteq Pool
    /\ chain.balance \in [Key -> 0..MaxBalance]
    /\ chain.reserve \in [Token -> 0..MaxReserve] /\ chain.wrapped \subseteq Token
    /\ block.tx \in Tx /\ Len(block.events) <= MaxEvents
    /\ phase \in {"mine", "store", "map", "apply"}
    /\ stores.pools \subseteq Pool /\ stores.tokens \subseteq Token
    /\ stores.balance \in [Key -> Int]

-----------------------------------------------------------------------------
(* The chain                                                               *)

Emit(event) ==
    /\ phase = "mine" /\ Len(block.events) < MaxEvents
    /\ block' = [block EXCEPT !.events = Append(@, event), !.txEnd = [@ EXCEPT ![block.tx] = chain']]
    /\ UNCHANGED <<phase, stores, deltas, message, indexer>>

CreatePool(p) ==
    /\ p \notin chain.pools
    /\ chain' = [chain EXCEPT !.pools = @ \cup {p}]
    /\ Emit([kind |-> "PoolCreated", tx |-> block.tx, pool |-> p])

(* The amount by which the vault credits the event's pool with the token.  *)
AmountOf(e, token) == IF token = TokensOf[e.pool][1] THEN e.amounts[1] ELSE e.amounts[2]

Move(p, kind, amounts) ==
    LET e == [kind |-> kind, tx |-> block.tx, pool |-> p, amounts |-> amounts] IN
    /\ p \in chain.pools
    /\ chain' = [chain EXCEPT !.balance =
           [k \in Key |-> IF k[1] = p THEN @[k] + AmountOf(e, k[2]) ELSE @[k]]]
    /\ \A k \in Key : chain'.balance[k] \in 0..MaxBalance
    /\ Emit(e)

Trade(p) ==
    \/ Move(p, "Swap", <<1, -1>>) \/ Move(p, "Swap", <<-1, 1>>)
    \/ Move(p, "LiquidityAdded", <<1, 1>>) \/ Move(p, "LiquidityRemoved", <<-1, -1>>)

SetPaused(p, paused) ==
    /\ p \in chain.pools /\ paused # (p \in chain.paused)
    /\ chain' = [chain EXCEPT !.paused = IF paused THEN @ \cup {p} ELSE @ \ {p}]
    /\ Emit([kind |-> "PoolPausedStateChanged", tx |-> block.tx, pool |-> p, paused |-> paused])

(* A write to the storage of the pool's own contract.                      *)
WritePool(p) ==
    /\ p \in chain.pools
    /\ chain' = [chain EXCEPT !.word[p] = 1 - @]
    /\ Emit([kind |-> "write", tx |-> block.tx, pool |-> p])

(* Calls of the vault that change reservesOf: tokens that are paid in are  *)
(* settled, others sent out; a wrap takes one token and gives another.     *)
Pay(kind, token, reserve) ==
    /\ reserve \in 0..MaxReserve
    /\ chain' = [chain EXCEPT !.reserve[token] = reserve, !.wrapped = @ \ {token}]
    /\ Emit([kind |-> kind, tx |-> block.tx, token |-> token, value |-> reserve])

Settle(token) == Pay("Settle", token, chain.reserve[token] + 1)
SendTo(token) == Pay("SendTo", token, chain.reserve[token] - 1)

Wrap(wrapped, underlying) ==
    /\ wrapped # underlying
    /\ chain.reserve[wrapped] < MaxReserve /\ chain.reserve[underlying] > 0
    /\ chain' = [chain EXCEPT !.reserve[wrapped] = @ + 1, !.reserve[underlying] = @ - 1,
                              !.wrapped = @ \cup {wrapped, underlying}]
    /\ Emit([kind |-> "Erc4626BufferWrapOrUnwrap", tx |-> block.tx,
             wrapped |-> wrapped, underlying |-> underlying])

NextTx ==
    /\ phase = "mine" /\ block.tx < MaxTxs
    /\ block' = [block EXCEPT !.tx = @ + 1, !.txEnd = [@ EXCEPT ![block.tx + 1] = chain]]
    /\ UNCHANGED <<chain, phase, stores, deltas, message, indexer>>

EventsOf(t, kinds) ==
    {i \in DOMAIN block.events : block.events[i].tx = t /\ block.events[i].kind \in kinds}

-----------------------------------------------------------------------------
(* map_components, store_components and store_token_set, and then          *)
(* map_relative_balances, which reads the components at the block's end    *)

NewPools(t) == {block.events[i].pool : i \in EventsOf(t, {"PoolCreated"})}

(* Mutant: tokens given out of a swap are not subtracted.                  *)
DeltasOfInputs(e) ==
    [pool |-> e.pool, tx |-> e.tx,
     amounts |-> [token \in {TokensOf[e.pool][1], TokensOf[e.pool][2]} |->
                     IF AmountOf(e, token) < 0 THEN 0 ELSE AmountOf(e, token)]]

(* Every trade has two deltas of one ordinal, one for each token.          *)
DeltasOf(e) ==
    [pool |-> e.pool, tx |-> e.tx,
     amounts |-> [token \in {TokensOf[e.pool][1], TokensOf[e.pool][2]} |-> AmountOf(e, token)]]

Counted(pools) ==
    {i \in DOMAIN block.events : block.events[i].kind \in Trades /\ block.events[i].pool \in pools}

MapRelativeBalances ==
    /\ phase = "mine"
    /\ LET new == UNION {NewPools(t) : t \in Tx}
           pools == stores.pools \cup new
       IN  /\ stores' = [stores EXCEPT !.pools = pools,
                  !.tokens = @ \cup UNION {{TokensOf[p][1], TokensOf[p][2]} : p \in new}]
           /\ deltas' = [i \in Counted(pools) |-> DeltasOf(block.events[i])]
    /\ phase' = "store"
    /\ UNCHANGED <<chain, block, message, indexer>>

(* The store once the deltas of the first n events have been added.        *)
Stored(key, n) ==
    LET sum[i \in 0..Len(block.events)] ==
            IF i = 0 THEN stores.balance[key]
            ELSE IF i \in DOMAIN deltas /\ deltas[i].pool = key[1]
            THEN sum[i - 1] + deltas[i].amounts[key[2]] ELSE sum[i - 1]
    IN  sum[n]

StoreBalances ==
    /\ phase = "store"
    /\ stores' = [stores EXCEPT !.balance = [k \in Key |-> Stored(k, Len(block.events))]]
    /\ deltas' = [i \in DOMAIN deltas |->
           [pool |-> deltas[i].pool, tx |-> deltas[i].tx,
            new_value |-> [token \in DOMAIN deltas[i].amounts |->
                              Stored(<<deltas[i].pool, token>>, i)]]]
    /\ phase' = "map"
    /\ UNCHANGED <<chain, block, message, indexer>>

-----------------------------------------------------------------------------
(* map_protocol_changes                                                    *)

(* aggregate_balances_changes: the value of the last delta of each pool    *)
(* and token, at least zero.                                               *)
Balances(t) ==
    LET of(p) == {i \in DOMAIN deltas : deltas[i].tx = t /\ deltas[i].pool = p}
    IN  [k \in {k \in Key : of(k[1]) # {}} |->
            Clipped(deltas[Max(of(k[1]))].new_value[k[2]])]

(* The pause attribute of each pool: created, deleted, or neither when it  *)
(* is created and deleted in one transaction.  InterimEntityChanges keeps  *)
(* the last change, and drops a deletion of what the transaction created.  *)
PauseStates(t) ==
    LET es(p) == {i \in EventsOf(t, {"PoolPausedStateChanged"}) : block.events[i].pool = p}
        first(p) == block.events[Min(es(p))].paused
        last(p) == block.events[Max(es(p))].paused
    IN  [p \in {p \in stores.pools : es(p) # {} /\ ~(first(p) /\ ~last(p))} |-> last(p)]

(* The calls of settle and sendTo in the transaction with the token.       *)
Payments(t, token) ==
    {i \in EventsOf(t, {"Settle", "SendTo"}) : block.events[i].token = token}

(* Mutant: the first write of a transaction to a reserve is kept.          *)
FirstReserves(t) ==
    [token \in {token \in stores.tokens : Payments(t, token) # {}} |->
        block.events[Min(Payments(t, token))].value]

(* get_vault_reserves: the last write to reservesOf of a known token in a  *)
(* call of settle or sendTo.  The writes of a wrap are looked up under a   *)
(* key that store_components never sets, and so are never accounted.       *)
VaultReserves(t) ==
    [token \in {token \in stores.tokens : Payments(t, token) # {}} |->
        block.events[Max(Payments(t, token))].value]

(* The pools whose contract was created or changed in the transaction: the *)
(* words they end with, if not the ones they began with.                   *)
ChangedContracts(t) ==
    LET before == IF t = 1 THEN block.begin ELSE block.txEnd[t - 1]
        after == block.txEnd[t]
    IN  [p \in {p \in stores.pools : EventsOf(t, {"write", "PoolCreated"}) # {} /\
                    (before.word[p] # after.word[p] \/ p \in after.pools \ before.pools)} |->
            after.word[p]]

TxChanges(t) ==
    [components |-> NewPools(t),
     paused |-> PauseStates(t),
     balances |-> Balances(t),
     contracts |-> ChangedContracts(t),
     reserves |-> VaultReserves(t),
     updated |-> DOMAIN ChangedContracts(t)]

MapProtocolChanges ==
    /\ phase = "map"
    /\ message' = [t \in 1..block.tx |-> TxChanges(t)]
    /\ phase' = "apply"
    /\ UNCHANGED <<chain, block, stores, deltas, indexer>>

-----------------------------------------------------------------------------
(* The consumer applies the transactions in order; the next block starts.  *)

NewBlock(state) ==
    [tx |-> 1, events |-> <<>>, begin |-> state, txEnd |-> [t \in Tx |-> state]]

ApplyTx(known, changes) ==
    [pools |-> known.pools \cup changes.components,
     paused |-> (known.paused \ DOMAIN changes.paused)
                \cup {p \in DOMAIN changes.paused : changes.paused[p]},
     balance |-> Updated(known.balance, changes.balances),
     word |-> Updated(known.word, changes.contracts),
     reserve |-> Updated(known.reserve, changes.reserves)]

KnownAfter(t) ==
    LET known[n \in 0..Len(message)] ==
            IF n = 0 THEN indexer ELSE ApplyTx(known[n - 1], message[n])
    IN  known[t]

Apply ==
    /\ phase = "apply"
    /\ indexer' = KnownAfter(Len(message))
    /\ block' = NewBlock(chain)
    /\ deltas' = <<>>
    /\ message' = <<>>
    /\ phase' = "mine"
    /\ UNCHANGED <<chain, stores>>

Init ==
    /\ chain = [pools |-> {}, paused |-> {}, balance |-> [k \in Key |-> 0],
                word |-> [p \in Pool |-> 0], reserve |-> [t \in Token |-> 0],
                wrapped |-> {}]
    /\ block = NewBlock(chain)
    /\ phase = "mine"
    /\ stores = [pools |-> {}, tokens |-> {}, balance |-> [k \in Key |-> 0]]
    /\ deltas = <<>>
    /\ message = <<>>
    /\ indexer = [pools |-> {}, paused |-> {}, balance |-> chain.balance, word |-> chain.word,
                  reserve |-> [t \in Token |-> NoValue]]

Next ==
    \/ \E p \in Pool : \/ CreatePool(p) \/ Trade(p) \/ WritePool(p)
                       \/ \E paused \in BOOLEAN : SetPaused(p, paused)
    \/ \E token \in Token : Settle(token) \/ SendTo(token)
    \/ \E wrapped, underlying \in Token : Wrap(wrapped, underlying)
    \/ NextTx
    \/ MapRelativeBalances
    \/ StoreBalances
    \/ MapProtocolChanges
    \/ Apply

Spec == Init /\ [][Next]_vars

-----------------------------------------------------------------------------
(* Properties                                                              *)

Between == phase = "mine" /\ block.events = <<>>

(* Between blocks the consumer has every pool, its balances, its pause     *)
(* state and its contract as they are on chain, whatever the order of      *)
(* creations, trades and pauses in a block and its transactions.           *)
PoolsMirrored ==
    Between => \A f \in {"pools", "paused", "balance", "word"} : indexer[f] = chain[f]

(* modules.rs 443: "function needed to match reservesOf in vault storage". *)
(* The vault's balance of a token, once known, is its reserve, until a     *)
(* wrap changes it, and again after the next payment in or out.            *)
ReservesMatchVault ==
    Between => \A t \in Token \ chain.wrapped :
                  indexer.reserve[t] \in {NoValue, chain.reserve[t]}

(* Every transaction that changes the contract of a pool marks that pool   *)
(* as updated, and no transaction marks, pauses or moves a pool that the   *)
(* consumer has not heard of by then.                                      *)
MarkedWhenChanged ==
    phase = "apply" => \A t \in DOMAIN message :
        LET before == IF t = 1 THEN block.begin ELSE block.txEnd[t - 1]
            told == indexer.pools \cup UNION {message[i].components : i \in 1..t}
        IN  /\ \A p \in Pool : before.word[p] # block.txEnd[t].word[p] => p \in message[t].updated
            /\ message[t].updated \cup DOMAIN message[t].paused \subseteq told
            /\ \A k \in DOMAIN message[t].balances : k[1] \in told
=============================================================================
