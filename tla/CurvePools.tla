----------------------------- MODULE CurvePools -----------------------------
(***************************************************************************)
(* Curve (src/substreams/ethereum-curve): pools hold ERC20 tokens, whose   *)
(* balances are taken from logs, and ETH, whose balances are taken from    *)
(* the balance changes of calls.  Both kinds of deltas of a block go       *)
(* through one store, in the order of ordinals that are the log's for one  *)
(* kind and the end of the call for the other.  Oracles that are set on a  *)
(* pool become entry points, if the pool was made to take one.             *)
(*                                                                         *)
(* External are the chain (calls, nested and reverted, with the values     *)
(* they transfer, and logs), the substreams stores and the consumer.       *)
(***************************************************************************)
EXTENDS DeltaStores, SequenceFolds, Functions, TLC

CONSTANTS
    Pool,           \* pool contracts, which are also the component ids
    TokensOf,       \* the tokens of each pool, of "ETH", "sUSD" and others
    Oracle,         \* the oracles that may be set, but for the zero address
    NoOracle,       \* the zero address
    MaxBalance,     \* bound: largest balance of a pool
    MaxTxs,         \* bound: transactions per block
    MaxSteps        \* bound: calls and logs per block

CurveBounds ==
    /\ DOMAIN TokensOf = Pool /\ NoOracle \notin Oracle
    /\ MaxBalance \in Nat /\ MaxTxs \in Nat \ {0} /\ MaxSteps \in Nat

Key == {<<p, token>> : p \in Pool, token \in UNION {TokensOf[p] : p \in Pool}}
Held == {k \in Key : k[2] \in TokensOf[k[1]]}
Tx == 1..MaxTxs
Outside == "outside"        \* everybody who is not a pool

(* The contracts of a token: sUSD has an old one besides, which moves the  *)
(* same balances; protocol_params.old_susd.                                *)
Contracts == {[token |-> k[2], old |-> FALSE] : k \in {k \in Held : k[2] # "ETH"}}
             \cup {[token |-> "sUSD", old |-> TRUE]}

VARIABLES
    chain,          \* pools, those that take an oracle, balances and oracles
    block,          \* calls and logs of the block, the state after each transaction
    phase,          \* which module runs next
    stores,         \* component tokens, set_oracle components, balances
    deltas,         \* map_relative_balances; with the store's values once they are known
    message,        \* map_protocol_changes
    indexer         \* what the consumer knows

vars == <<chain, block, phase, stores, deltas, message, indexer>>

Steps == Len(block.calls) + Len(block.logs)

TypeOK ==
    /\ chain.pools \subseteq Pool /\ chain.balance \in [Held -> 0..MaxBalance]
    /\ chain.oracle \in [Pool -> Oracle \cup {NoOracle}]
    /\ chain.oraclePools \subseteq chain.pools
    /\ block.tx \in Tx /\ Steps <= MaxSteps
    /\ phase \in {"mine", "store", "map", "apply"}
    /\ stores.pools \subseteq Pool /\ stores.balance \in [Held -> Int]
    /\ stores.oraclePools \subseteq stores.pools
    /\ indexer.pools \subseteq Pool /\ indexer.balance \in [Held -> Int]

-----------------------------------------------------------------------------
(* The chain.  Ordinals count the logs and the ends of calls.              *)

MineOnly == UNCHANGED <<phase, stores, deltas, message, indexer>>
Running == block.open # <<>>
Top == Last(block.open).call
Context == IF Running THEN block.calls[Top].to ELSE Outside

(* What pools get and give, of one token.                                  *)
Moved(from, to, token) ==
    [k \in Held |-> chain.balance[k] + (IF k = <<to, token>> THEN 1 ELSE 0)
                                     - (IF k = <<from, token>> THEN 1 ELSE 0)]
InBounds(balance) == \A k \in Held : balance[k] \in 0..MaxBalance

(* A transaction is one call and the calls inside it.  The balance changes *)
(* of a value transfer are listed in the call that receives the value.     *)
Begin(call) ==
    /\ phase = "mine" /\ Steps < MaxSteps
    /\ ~Running => \A i \in DOMAIN block.calls : block.calls[i].tx # block.tx
    /\ block' = [block EXCEPT
           !.calls = Append(@, [tx |-> block.tx, end |-> 0, reverted |-> FALSE] @@ call),
           !.open = Append(@, [call |-> Len(block.calls) + 1, before |-> chain])]
    /\ MineOnly

Call(to, value) ==
    /\ to \in Pool => to \in chain.pools
    /\ value => Context # to
    /\ Begin([to |-> to, oracle |-> NoOracle, wrote |-> FALSE,
              moves |-> IF value THEN <<[of |-> Context, delta |-> -1], [of |-> to, delta |-> 1]>>
                        ELSE <<>>])
    /\ chain' = [chain EXCEPT !.balance = IF value THEN Moved(Context, to, "ETH") ELSE @]
    /\ InBounds(chain'.balance)

(* A pool that takes no oracle answers the call and does nothing.          *)
SetOracle(p, oracle) ==
    /\ p \in chain.pools
    /\ chain' = IF p \in chain.oraclePools THEN [chain EXCEPT !.oracle[p] = oracle] ELSE chain
    /\ Begin([to |-> p, oracle |-> oracle, wrote |-> chain' # chain, moves |-> <<>>])

(* A call that fails takes back what it and the calls inside it did; the   *)
(* block lists only transactions whose first call succeeds.                *)
Return(reverted) ==
    /\ phase = "mine" /\ Running
    /\ reverted => Len(block.open) > 1
    /\ chain' = IF reverted THEN Last(block.open).before ELSE chain
    /\ block' = [block EXCEPT
           !.ord = @ + 1,
           !.open = Front(@),
           !.calls = [i \in DOMAIN @ |->
               [@[i] EXCEPT !.end = IF i = Top THEN block.ord + 1 ELSE @,
                            !.reverted = @ \/ (reverted /\ i >= Top)]],
           !.txEnd = [@ EXCEPT ![block.tx] = chain']]
    /\ MineOnly

Log(log) ==
    /\ phase = "mine" /\ Running /\ Steps < MaxSteps
    /\ block' = [block EXCEPT
           !.ord = @ + 1,
           !.logs = Append(@, [tx |-> block.tx, call |-> Top, ord |-> block.ord + 1] @@ log)]
    /\ MineOnly

CreatePool(p, takesOracle) ==
    /\ p \notin chain.pools
    /\ chain' = [chain EXCEPT !.pools = @ \cup {p},
                              !.oraclePools = IF takesOracle THEN @ \cup {p} ELSE @]
    /\ Log([kind |-> "created", pool |-> p, set_oracle |-> takesOracle])

Transfer(contract, from, to) ==
    /\ from # to /\ {from, to} \subseteq chain.pools \cup {Outside}
    /\ chain' = [chain EXCEPT !.balance = Moved(from, to, contract.token)]
    /\ InBounds(chain'.balance)
    /\ Log([kind |-> "Transfer", contract |-> contract, from |-> from, to |-> to])

NextTx ==
    /\ phase = "mine" /\ ~Running /\ block.tx < MaxTxs
    /\ \E i \in DOMAIN block.calls : block.calls[i].tx = block.tx
    /\ block' = [block EXCEPT !.tx = @ + 1, !.txEnd = [@ EXCEPT ![block.tx + 1] = chain]]
    /\ UNCHANGED chain /\ MineOnly

-----------------------------------------------------------------------------
(* map_components, the stores it feeds, and map_relative_balances          *)

Kept(log) == ~block.calls[log.call].reverted
Creations(t) == {log \in Range(block.logs) : log.kind = "created" /\ log.tx = t /\ Kept(log)}
NewPools(t) == {log.pool : log \in Creations(t)}
NewOraclePools(t) == {log.pool : log \in {log \in Creations(t) : log.set_oracle}}
Delta(ord, t, p, token, amount) ==
    [ord |-> ord, tx |-> t, key |-> <<p, token>>, delta |-> amount]

(* Mutant: calls that were reverted move ETH.                              *)
EthDeltasReverted(pools) ==
    LET of(call) == [i \in DOMAIN call.moves |->
            Delta(call.end, call.tx, call.moves[i].of, "ETH", call.moves[i].delta)]
    IN  SelectSeq(FlattenSeq([i \in DOMAIN block.calls |-> of(block.calls[i])]),
                  LAMBDA d : d.key[1] \in pools /\ d.key \in Held)

(* emit_eth_deltas: every one of them has the ordinal of the call's end.   *)
EthDeltas(pools) ==
    LET of(call) == [i \in DOMAIN call.moves |->
            Delta(call.end, call.tx, call.moves[i].of, "ETH", call.moves[i].delta)]
        calls == SelectSeq(block.calls, LAMBDA call : ~call.reverted)
    IN  SelectSeq(FlattenSeq([i \in DOMAIN calls |-> of(calls[i])]),
                  LAMBDA d : d.key[1] \in pools /\ d.key \in Held)

(* extract_balance_deltas_from_tx with its filter; the old sUSD counts as  *)
(* the new one.                                                            *)
Erc20Deltas(pools) ==
    LET logs == SelectSeq(block.logs, LAMBDA log : log.kind = "Transfer" /\ Kept(log))
        of(log) == <<Delta(log.ord, log.tx, log.from, log.contract.token, -1),
                     Delta(log.ord, log.tx, log.to, log.contract.token, 1)>>
    IN  SelectSeq(FlattenSeq([i \in DOMAIN logs |-> of(logs[i])]),
                  LAMBDA d : d.key[1] \in pools /\ d.key \in Held)

(* Mutant: the deltas stay as they were collected.                         *)
AsCollected(ds) == ds

SortedByOrdinal(ds) ==
    FlattenSeq([ord \in 1..block.ord |-> SelectSeq(ds, LAMBDA d : d.ord = ord)])

MapRelativeBalances ==
    /\ phase = "mine" /\ ~Running
    /\ LET pools == stores.pools \cup UNION {NewPools(t) : t \in Tx}
       IN  /\ stores' = [stores EXCEPT !.pools = pools,
                              !.oraclePools = @ \cup UNION {NewOraclePools(t) : t \in Tx}]
           /\ deltas' = SortedByOrdinal(EthDeltas(pools) \o Erc20Deltas(pools))
    /\ phase' = "store"
    /\ UNCHANGED <<chain, block, message, indexer>>

(* store_balance_changes panics on ordinals of a key that do not grow.     *)
OrdinalsGrow ==
    \A i, j \in DOMAIN deltas :
        i < j /\ deltas[i].key = deltas[j].key => deltas[i].ord < deltas[j].ord

StoreBalances ==
    /\ phase = "store" /\ OrdinalsGrow
    /\ stores' = [stores EXCEPT !.balance = StoreBalanceChanges(@, deltas)]
    /\ deltas' = WithNewValues(stores.balance, deltas)
    /\ phase' = "map"
    /\ UNCHANGED <<chain, block, message, indexer>>

-----------------------------------------------------------------------------
(* map_protocol_changes                                                    *)

(* Calls of components whose set_oracle attribute is 1.                    *)
OracleCalls(t) ==
    {call \in Range(block.calls) : /\ call.tx = t /\ ~call.reverted /\ call.oracle # NoOracle
                                   /\ call.to \in stores.oraclePools}

(* extract_contract_changes gives something for the transaction.           *)
ContractsChanged(t) ==
    \/ NewPools(t) # {}
    \/ \E i \in DOMAIN block.calls :
          LET call == block.calls[i] IN
          call.tx = t /\ ~call.reverted /\ call.to \in stores.pools /\ call.wrote

(* Every balance is listed, and the last of a pool and token counts.       *)
Balances(t) ==
    LET of(k) == {i \in DOMAIN deltas : deltas[i].tx = t /\ deltas[i].key = k}
    IN  [k \in {k \in Held : of(k) # {}} |-> deltas[Max(of(k))].new_value]

NoChanges == [components |-> {}, balances |-> <<>>, entrypoints |-> {}]

(* Mutant: a call that sets an oracle does not count as a contract change. *)
TxChangesDropped(t) ==
    IF NewPools(t) = {} /\ Balances(t) = <<>> THEN NoChanges
    ELSE [components |-> NewPools(t), balances |-> Balances(t),
          entrypoints |-> {<<call.to, call.oracle>> : call \in OracleCalls(t)}]

(* A transaction with nothing but entry points is dropped.                 *)
TxChanges(t) ==
    IF NewPools(t) = {} /\ Balances(t) = <<>> /\ ~ContractsChanged(t) THEN NoChanges
    ELSE [components |-> NewPools(t), balances |-> Balances(t),
          entrypoints |-> {<<call.to, call.oracle>> : call \in OracleCalls(t)}]

MapProtocolChanges ==
    /\ phase = "map"
    /\ message' = [t \in 1..block.tx |-> TxChanges(t)]
    /\ phase' = "apply"
    /\ UNCHANGED <<chain, block, stores, deltas, indexer>>

-----------------------------------------------------------------------------
(* The consumer applies the transactions in order; the next block starts.  *)

ApplyTx(known, changes) ==
    [pools |-> known.pools \cup changes.components,
     balance |-> changes.balances @@ known.balance,
     entrypoints |-> known.entrypoints \cup changes.entrypoints]

KnownAfter(t) == FoldLeft(ApplyTx, indexer, SubSeq(message, 1, t))

NewBlock(state) ==
    [tx |-> 1, ord |-> 0, calls |-> <<>>, logs |-> <<>>, open |-> <<>>,
     txEnd |-> [t \in Tx |-> state]]

Apply ==
    /\ phase = "apply"
    /\ indexer' = KnownAfter(Len(message))
    /\ block' = NewBlock(chain)
    /\ deltas' = <<>>
    /\ message' = <<>>
    /\ phase' = "mine"
    /\ UNCHANGED <<chain, stores>>

Init ==
    /\ chain = [pools |-> {}, oraclePools |-> {}, balance |-> [k \in Held |-> 0],
                oracle |-> [p \in Pool |-> NoOracle]]
    /\ block = NewBlock(chain)
    /\ phase = "mine"
    /\ stores = [pools |-> {}, oraclePools |-> {}, balance |-> [k \in Held |-> 0]]
    /\ deltas = <<>>
    /\ message = <<>>
    /\ indexer = [pools |-> {}, balance |-> [k \in Held |-> 0], entrypoints |-> {}]

Next ==
    \/ \E to \in Pool \cup {Outside}, value \in BOOLEAN : Call(to, value)
    \/ \E reverted \in BOOLEAN : Return(reverted)
    \/ \E p \in Pool : \/ \E takesOracle \in BOOLEAN : CreatePool(p, takesOracle)
                      \/ \E oracle \in Oracle \cup {NoOracle} : SetOracle(p, oracle)
    \/ \E contract \in Contracts, from, to \in Pool \cup {Outside} : Transfer(contract, from, to)
    \/ NextTx
    \/ MapRelativeBalances
    \/ StoreBalances
    \/ MapProtocolChanges
    \/ Apply

Spec == Init /\ [][Next]_vars

-----------------------------------------------------------------------------
(* Properties                                                              *)

(* "Tally up final balances for tokens in a pool" (modules.rs 166): after  *)
(* every transaction the consumer has the pools, each with the balances of *)
(* its tokens, ETH or not, and an entry point for the oracle that is set,  *)
(* although transactions with nothing but entry points are left out; and   *)
(* none for pools that take no oracle.                                     *)
PoolsMirrored ==
    phase = "apply" => \A t \in 1..block.tx :
        LET known == KnownAfter(t)
            state == block.txEnd[t]
        IN  /\ known.pools = state.pools
            /\ known.balance = state.balance
            /\ \A p \in Pool : state.oracle[p] # NoOracle
                                 => <<p, state.oracle[p]>> \in known.entrypoints
            /\ \A e \in known.entrypoints : e[1] \in state.oraclePools

(* "Keep it consistent with how it's inserted in the store" (modules.rs    *)
(* 212): the deltas that logs and calls give are legal for the store, and  *)
(* the store's module never panics on them.                                *)
DeltasLegal == phase = "store" => OrdinalsGrow
=============================================================================
