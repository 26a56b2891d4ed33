--------------------------- MODULE AmbientPipeline --------------------------
(***************************************************************************)
(* Ambient (src/substreams/ethereum-ambient): one contract holds all pools.*)
(* map_pool_changes decodes pool initialisations and the base and quote    *)
(* flows from the inputs and outputs of calls, store_pools and             *)
(* store_pool_balances keep them, and map_changes joins the absolute       *)
(* balances with the changes of the contract: its storage, native balance  *)
(* and code, merged call by call.                                          *)
(*                                                                         *)
(* The additive store, the chain (calls, their index within the            *)
(* transaction, flows, traces) and the consumer are external.  The native  *)
(* token is the base token of every pool, so that the contract's balance   *)
(* of it moves with the base flows.                                        *)
(***************************************************************************)
EXTENDS Integers, Sequences, Functions, FiniteSetsExt

CONSTANTS
    Pool,           \* pool hashes
    MaxBalance,     \* bound: largest base or quote balance of a pool
    MaxTxs,         \* bound: transactions per block
    MaxIndex,       \* bound: largest index of a call in its transaction
    MaxCalls        \* bound: calls to Ambient per block

AmbientBounds ==
    /\ MaxBalance \in Nat /\ MaxIndex \in Nat /\ MaxCalls \in Nat
    /\ MaxTxs \in Nat \ {0}

Side == {"base", "quote"}
Key == Pool \X Side
Tx == 1..MaxTxs
Flow == [Side -> {-1, 1}]

VARIABLES
    chain,          \* is the contract there, its native balance, the pools, their
                    \* balances, and one storage word of each
    block,          \* the calls of the block and the state after each transaction
    phase,          \* which module runs next
    stores,         \* store_pools and store_pool_balances
    deltas,         \* map_pool_changes, by call; with the store's values once they are known
    message,        \* map_changes
    indexer         \* what the consumer knows

vars == <<chain, block, phase, stores, deltas, message, indexer>>

TypeOK ==
    /\ chain.pools \subseteq Pool
    /\ chain.balance \in [Key -> 0..MaxBalance]
    /\ chain.code \in BOOLEAN /\ chain.native \in Nat
    /\ block.tx \in Tx /\ Len(block.calls) <= MaxCalls
    /\ phase \in {"mine", "store", "map", "apply"}
    /\ stores.balance \in [Key -> Int]

-----------------------------------------------------------------------------
(* The chain.  A call has its index in its transaction; the calls between  *)
(* go to other contracts.  Its trace has the word that it wrote, before    *)
(* and after, and the native balance that it left; a balance of zero is no *)
(* value at all in the block model.                                        *)

NextIndex(index) ==
    \A i \in DOMAIN block.calls : block.calls[i].tx = block.tx => block.calls[i].index < index

CallAmbient(call) ==
    /\ phase = "mine" /\ Len(block.calls) < MaxCalls
    /\ NextIndex(call.index)
    /\ block' = [block EXCEPT !.calls = Append(@, call),
                              !.txEnd = [@ EXCEPT ![block.tx] = chain']]
    /\ UNCHANGED <<phase, stores, deltas, message, indexer>>

Deploy(index) ==
    /\ ~chain.code
    /\ chain' = [chain EXCEPT !.code = TRUE]
    /\ CallAmbient([kind |-> "create", index |-> index, tx |-> block.tx])

InitPool(pool, index) ==
    /\ chain.code /\ pool \notin chain.pools
    /\ chain' = [chain EXCEPT !.pools = @ \cup {pool}, !.word[pool] = 1]
    /\ CallAmbient([kind |-> "init", pool |-> pool, index |-> index, tx |-> block.tx,
                    old |-> chain.word[pool], new |-> 1, native |-> 0])

(* Every call with a flow writes to the storage of the contract.           *)
MoveTokens(pool, index, flow) ==
    /\ pool \in chain.pools
    /\ chain' = [chain EXCEPT
           !.balance = [k \in Key |-> IF k[1] = pool THEN @[k] + flow[k[2]] ELSE @[k]],
           !.native = @ + flow["base"],
           !.word[pool] = 1 - @]
    /\ \A k \in Key : chain'.balance[k] \in 0..MaxBalance
    /\ CallAmbient([kind |-> "flow", pool |-> pool, index |-> index, tx |-> block.tx,
                    flow |-> flow, old |-> chain.word[pool], new |-> 1 - chain.word[pool],
                    native |-> chain.native + flow["base"]])

(* A call whose state was reverted moves nothing, but its trace is there.  *)
Revert(pool, index) ==
    /\ pool \in chain.pools /\ UNCHANGED chain
    /\ CallAmbient([kind |-> "reverted", pool |-> pool, index |-> index, tx |-> block.tx,
                    flow |-> [side \in Side |-> 1], old |-> chain.word[pool],
                    new |-> 1 - chain.word[pool], native |-> chain.native + 1])

NextTx ==
    /\ phase = "mine" /\ block.tx < MaxTxs
    /\ block' = [block EXCEPT !.tx = @ + 1, !.txEnd = [@ EXCEPT ![block.tx + 1] = chain]]
    /\ UNCHANGED <<chain, phase, stores, deltas, message, indexer>>

-----------------------------------------------------------------------------
(* map_pool_changes                                                        *)

Counted == {i \in DOMAIN block.calls : block.calls[i].kind = "flow"}

NewPools(t) == {c.pool : c \in {c \in Range(block.calls) : c.kind = "init" /\ c.tx = t}}

(* Each call with a flow has two deltas, base and quote, of the same       *)
(* ordinal: the index of the call in its transaction.                      *)
MapPoolChanges ==
    /\ phase = "mine"
    /\ deltas' = [i \in Counted |->
           [pool |-> block.calls[i].pool, tx |-> block.calls[i].tx,
            ordinal |-> block.calls[i].index, flow |-> block.calls[i].flow]]
    /\ phase' = "store"
    /\ UNCHANGED <<chain, block, stores, message, indexer>>

-----------------------------------------------------------------------------
(* store_pools and store_pool_balances                                     *)

(* The deltas of all transactions are sorted by their ordinals, so that    *)
(* these are the ones that the store adds up to the i-th call's.           *)
UpTo(i) ==
    {j \in DOMAIN deltas : \/ deltas[j].ordinal < deltas[i].ordinal
                           \/ deltas[j].ordinal = deltas[i].ordinal /\ j <= i}

SumOf(key, is) ==
    LET sum[n \in 0..Len(block.calls)] ==
            IF n = 0 THEN stores.balance[key]
            ELSE IF n \in is /\ deltas[n].pool = key[1] THEN sum[n - 1] + deltas[n].flow[key[2]]
            ELSE sum[n - 1]
    IN  sum[Len(block.calls)]

StorePoolsAndBalances ==
    /\ phase = "store"
    /\ stores' = [pools |-> stores.pools \cup UNION {NewPools(t) : t \in Tx},
                  balance |-> [k \in Key |-> SumOf(k, DOMAIN deltas)]]
    /\ deltas' = [i \in DOMAIN deltas |->
           [pool |-> deltas[i].pool, tx |-> deltas[i].tx,
            new_value |-> [side \in Side |-> SumOf(<<deltas[i].pool, side>>, UpTo(i))]]]
    /\ phase' = "map"
    /\ UNCHANGED <<chain, block, message, indexer>>

-----------------------------------------------------------------------------
(* map_changes                                                             *)

Magnitude(n) == IF n < 0 THEN -n ELSE n

DeltasOf(t, pool) == {i \in DOMAIN deltas : deltas[i].tx = t /\ deltas[i].pool = pool}

(* Mutant: the first balance of a transaction is kept.                     *)
FirstBalances(t) ==
    [k \in {k \in Key : DeltasOf(t, k[1]) # {}} |->
        Magnitude(deltas[Min(DeltasOf(t, k[1]))].new_value[k[2]])]

(* The balances pushed under a transaction, of which the last one of each  *)
(* pool and token counts.  An unknown pool is a panic.                     *)
Balances(t) ==
    [k \in {k \in Key : DeltasOf(t, k[1]) # {}} |->
        Magnitude(deltas[Max(DeltasOf(t, k[1]))].new_value[k[2]])]

(* The calls of a transaction that were not reverted, those that wrote the *)
(* word of a pool, and those that left a native balance.                   *)
Kept(t) == {i \in DOMAIN block.calls : block.calls[i].tx = t /\ block.calls[i].kind # "reverted"}
WritesTo(t, pool) ==
    {i \in Kept(t) : block.calls[i].kind # "create" /\ block.calls[i].pool = pool}
Paid(t) == {i \in Kept(t) : block.calls[i].kind # "create" /\ block.calls[i].native # 0}

(* Mutant: the interim changes are not drained between transactions.       *)
UndrainedSlots(t) ==
    LET writes(p) == UNION {WritesTo(u, p) : u \in 1..t}
        old(p) == block.calls[Min(writes(p))].old
        new(p) == block.calls[Max(writes(p))].new
    IN  [p \in {p \in Pool : writes(p) # {} /\ old(p) # new(p)} |-> new(p)]

(* A slot keeps the old value of its first write and the new one of its    *)
(* last, and is left out if they are equal.                                *)
Slots(t) ==
    LET old(p) == block.calls[Min(WritesTo(t, p))].old
        new(p) == block.calls[Max(WritesTo(t, p))].new
    IN  [p \in {p \in Pool : WritesTo(t, p) # {} /\ old(p) # new(p)} |-> new(p)]

(* The last balance that there is; none (0) if there is none.              *)
NativeBalance(t) == IF Paid(t) = {} THEN 0 ELSE block.calls[Max(Paid(t))].native

Deployed(t) == \E i \in Kept(t) : block.calls[i].kind = "create"

(* Creations are collected from the whole block.                           *)
Change == IF \E t \in Tx : Deployed(t) THEN "Creation" ELSE "Update"

(* The contract changes of a transaction come first.  Components and       *)
(* balances are added to a transaction found among them, else dropped.     *)
TxChanges(t) ==
    IF Kept(t) # {}
    THEN [components |-> NewPools(t), balances |-> Balances(t), change |-> Change,
          slots |-> Slots(t), native |-> NativeBalance(t), code |-> Deployed(t)]
    ELSE [components |-> {}, balances |-> <<>>, change |-> "Update",
          slots |-> <<>>, native |-> 0, code |-> FALSE]

MapChanges ==
    /\ phase = "map"
    /\ \A i \in DOMAIN deltas : deltas[i].pool \in stores.pools
    /\ message' = [t \in 1..block.tx |-> TxChanges(t)]
    /\ phase' = "apply"
    /\ UNCHANGED <<chain, block, stores, deltas, indexer>>

-----------------------------------------------------------------------------
(* The consumer applies the transactions in order; the next block starts.  *)

NewBlock(state) == [tx |-> 1, calls |-> <<>>, begin |-> state, txEnd |-> [t \in Tx |-> state]]

(* What was known, but for what a transaction says of some keys.           *)
Updated(known, changed) ==
    [k \in DOMAIN known |-> IF k \in DOMAIN changed THEN changed[k] ELSE known[k]]

(* The code of a contract that is not known comes with its creation.       *)
ApplyTx(known, changes) ==
    [code |-> known.code \/ (changes.change = "Creation" /\ changes.code),
     native |-> IF changes.native = 0 THEN known.native ELSE changes.native,
     pools |-> known.pools \cup changes.components,
     balance |-> Updated(known.balance, changes.balances),
     word |-> Updated(known.word, changes.slots)]

KnownAfter(t) ==
    LET known[n \in 0..Len(message)] ==
            IF n = 0 THEN indexer ELSE ApplyTx(known[n - 1], message[n])
    IN  known[t]

Apply ==
    /\ phase = "apply"
    /\ indexer' = KnownAfter(Len(message))
    /\ block' = NewBlock(chain)
    /\ deltas' = <<>>
    /\ message' = <<>>
    /\ phase' = "mine"
    /\ UNCHANGED <<chain, stores>>

Init ==
    /\ chain = [code |-> FALSE, native |-> 0, pools |-> {}, balance |-> [k \in Key |-> 0],
                word |-> [p \in Pool |-> 0]]
    /\ block = NewBlock(chain)
    /\ phase = "mine"
    /\ stores = [pools |-> {}, balance |-> [k \in Key |-> 0]]
    /\ deltas = <<>>
    /\ message = <<>>
    /\ indexer = chain

Next ==
    \/ \E index \in 1..MaxIndex : Deploy(index)
    \/ \E pool \in Pool, index \in 1..MaxIndex :
          \/ InitPool(pool, index)
          \/ \E flow \in Flow : MoveTokens(pool, index, flow)
          \/ Revert(pool, index)
    \/ NextTx
    \/ MapPoolChanges
    \/ StorePoolsAndBalances
    \/ MapChanges
    \/ Apply

Spec == Init /\ [][Next]_vars

-----------------------------------------------------------------------------
(* Properties                                                              *)

(* ambient.proto 13, the ordinal is "used to determine the order of the    *)
(* balance changes": between blocks the consumer has the balances of the   *)
(* pools on chain.                                                         *)
BalancesMirrored ==
    phase = "mine" /\ block.calls = <<>> => indexer.balance = chain.balance

(* Do the calls that moved the tokens of a pool have indices that do not   *)
(* fall from one transaction of the block to the next?                     *)
InOrder(pool) ==
    \A i, j \in Counted :
        /\ block.calls[i].pool = pool /\ block.calls[j].pool = pool /\ i < j
        => block.calls[i].index <= block.calls[j].index

(* A transaction reports, for each pool and token that it moved, the       *)
(* balance at its end, if the calls to that pool are in order: whatever    *)
(* the calls to others, the reverted ones and those of earlier blocks,     *)
(* after which the consumer may have been left with an old balance.        *)
BalancesPerTransaction ==
    phase = "apply" => \A i \in DOMAIN deltas, side \in Side :
        LET t == deltas[i].tx
            k == <<deltas[i].pool, side>>
        IN  InOrder(deltas[i].pool) =>
                k \in DOMAIN message[t].balances /\ message[t].balances[k] = block.txEnd[t].balance[k]

(* What the consumer has of the contract is what the chain has: its code,  *)
(* its storage, and its native balance but for a balance of zero.          *)
SameContract(known, state) ==
    /\ known.code = state.code /\ known.pools = state.pools /\ known.word = state.word
    /\ state.native # 0 => known.native = state.native

(* In whatever order the calls come, the consumer has the pools and the    *)
(* contract of the chain after every transaction, though a slot that is    *)
(* written back within a transaction is left out; and each balance is of a *)
(* pool that is known by then.                                             *)
ContractMirrored ==
    phase = "apply" => \A t \in 1..block.tx :
        /\ SameContract(KnownAfter(t), block.txEnd[t])
        /\ \A k \in DOMAIN message[t].balances : k[1] \in KnownAfter(t).pools
=============================================================================
