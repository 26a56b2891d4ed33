-------------------------- MODULE BalancePipeline --------------------------
(***************************************************************************)
(* Component balances from ERC20 and WETH events (tycho-substreams,        *)
(* balances.rs).  For every block three substreams modules run in turn:    *)
(* a map module extracts relative balance deltas from the logs, a store    *)
(* module adds them up with store_balance_changes, and a second map module *)
(* zips the store's deltas with the relative ones and aggregates absolute  *)
(* balances per transaction, which the consumer then applies.              *)
(*                                                                         *)
(* The chain (token balances, logs, their ordinals) and the additive store *)
(* with its list of deltas, one per operation in the order of the calls,   *)
(* are external; they are modelled as balances.rs relies on them.          *)
(***************************************************************************)
EXTENDS Integers, FiniteSets, SequencesExt

CONSTANTS
    Component,      \* tracked addresses, each of which is a component
    Outside,        \* the other addresses, as one
    Token,          \* ERC20 tokens, WETH among them
    Amount,         \* amounts moved by one log
    MaxBalance,     \* bound: largest token balance of a component
    MaxUnseen,      \* bound: largest balance held before indexing starts
    MaxLogs,        \* bound: logs per block
    MaxTxs,         \* bound: transactions per block
    SelfTransfer,   \* may a component transfer tokens to itself?
    NoChange        \* no BalanceChange for a key in a transaction

ASSUME BalanceBounds ==
    /\ Outside \notin Component
    /\ Amount \subseteq Nat /\ MaxBalance \in Nat /\ MaxUnseen \in 0..MaxBalance
    /\ MaxLogs \in Nat /\ MaxTxs \in Nat \ {0}
    /\ SelfTransfer \in BOOLEAN
    /\ NoChange \notin Nat

Key == Component \X Token       \* "component:token", the store's key
Block == 1..MaxTxs              \* transaction indices
Party == Component \cup {Outside}

VARIABLES
    balance,        \* the chain: token balances of the components
    unseen,         \* the part of them that was there before indexing
    logs,           \* the logs of the current block
    tx,             \* index of the transaction being executed
    txEnd,          \* balances at the end of each transaction of the block
    phase,          \* which module runs next
    deltas,         \* output of the map module: BlockBalanceDeltas
    store,          \* the additive store
    storeDeltas,    \* its deltas for this block
    aggregated,     \* output of aggregate_balances_changes
    indexer,        \* balances as the consumer knows them
    panicked        \* a module has panicked; the stream cannot go on

vars == <<balance, unseen, logs, tx, txEnd, phase, deltas, store, storeDeltas,
          aggregated, indexer, panicked>>
chainVars == <<balance, unseen, logs, tx, txEnd>>

Clipped(n) == IF n < 0 THEN 0 ELSE n

Log == [kind : {"Transfer", "Deposit", "Withdrawal"}, token : Token, from : Party, to : Party,
        value : Amount, tx : Block, ordinal : Nat]
BalanceDelta == [key : Key, ord : Nat, tx : Block, delta : Int]

TypeOK ==
    /\ balance \in [Key -> 0..MaxBalance]
    /\ unseen \in [Key -> 0..MaxUnseen]
    /\ logs \in Seq(Log) /\ Len(logs) <= MaxLogs
    /\ tx \in Block
    /\ txEnd \in [Block -> [Key -> 0..MaxBalance]]
    /\ phase \in {"mine", "store", "aggregate", "apply"}
    /\ deltas \in Seq(BalanceDelta)
    /\ store \in [Key -> Int]
    /\ storeDeltas \in Seq([key : Key, new_value : Int])
    /\ aggregated \in [Block -> [Key -> Nat \cup {NoChange}]]
    /\ indexer \in [Key -> Nat]
    /\ panicked \in BOOLEAN

-----------------------------------------------------------------------------
(* The chain                                                               *)

Ordinal == Len(logs) + 1

Emit(kind, token, from, to, value) ==
    /\ phase = "mine" /\ Len(logs) < MaxLogs
    /\ logs' = Append(logs, [kind |-> kind, token |-> token, from |-> from, to |-> to,
                             value |-> value, tx |-> tx, ordinal |-> Ordinal])

Moved(token, from, to, value) ==
    [k \in Key |-> balance[k]
        + (IF k = <<to, token>> THEN value ELSE 0)
        - (IF k = <<from, token>> THEN value ELSE 0)]

Settle(token, from, to, value) ==
    /\ from \in Component => balance[from, token] >= value
    /\ balance' = Moved(token, from, to, value)
    /\ \A k \in Key : balance'[k] <= MaxBalance
    /\ txEnd' = [txEnd EXCEPT ![tx] = balance']
    /\ UNCHANGED <<unseen, tx, phase, deltas, store, storeDeltas, aggregated, indexer, panicked>>

Transfer(token, from, to, value) ==
    /\ from = to => SelfTransfer /\ from \in Component
    /\ Emit("Transfer", token, from, to, value)
    /\ Settle(token, from, to, value)

(* WETH: wrapping credits dst, unwrapping debits src.                      *)
Deposit(token, dst, value) ==
    /\ Emit("Deposit", token, Outside, dst, value)
    /\ Settle(token, Outside, dst, value)

Withdrawal(token, src, value) ==
    /\ Emit("Withdrawal", token, src, Outside, value)
    /\ Settle(token, src, Outside, value)

NextTx ==
    /\ phase = "mine" /\ tx < MaxTxs
    /\ tx' = tx + 1
    /\ txEnd' = [txEnd EXCEPT ![tx + 1] = balance]
    /\ UNCHANGED <<balance, unseen, logs, phase, deltas, store, storeDeltas,
                   aggregated, indexer, panicked>>

-----------------------------------------------------------------------------
(* extract_balance_deltas_from_tx                                          *)

DeltaOf(log, address, amount) ==
    IF address \in Component
    THEN <<[key |-> <<address, log.token>>, ord |-> log.ordinal, tx |-> log.tx, delta |-> amount]>>
    ELSE <<>>

(* Mutant: a Withdrawal is not recognised.                                 *)
DeltasWithoutWithdrawal(log) ==
    CASE log.kind = "Transfer" ->
           DeltaOf(log, log.from, -log.value) \o DeltaOf(log, log.to, log.value)
      [] log.kind = "Deposit" -> DeltaOf(log, log.to, log.value)
      [] log.kind = "Withdrawal" -> <<>>

(* Both sides of a transfer carry the ordinal of the log.                  *)
DeltasOf(log) ==
    CASE log.kind = "Transfer" ->
           DeltaOf(log, log.from, -log.value) \o DeltaOf(log, log.to, log.value)
      [] log.kind = "Deposit" -> DeltaOf(log, log.to, log.value)
      [] log.kind = "Withdrawal" -> DeltaOf(log, log.from, -log.value)

MapDeltas ==
    /\ phase = "mine" /\ ~panicked
    /\ deltas' = FlattenSeq([i \in DOMAIN logs |-> DeltasOf(logs[i])])
    /\ phase' = "store"
    /\ UNCHANGED <<chainVars, store, storeDeltas, aggregated, indexer, panicked>>

-----------------------------------------------------------------------------
(* store_balance_changes                                                   *)

(* The ordinals of a key do not increase strictly.                         *)
BadOrdinals ==
    \E i, j \in DOMAIN deltas :
        i < j /\ deltas[i].key = deltas[j].key /\ deltas[i].ord >= deltas[j].ord

(* The additive store after the first n operations.                        *)
StoreAfter[n \in 0..Len(deltas)] ==
    IF n = 0 THEN store
    ELSE [StoreAfter[n - 1] EXCEPT ![deltas[n].key] = @ + deltas[n].delta]

StoreBalanceChanges ==
    /\ phase = "store" /\ ~panicked
    /\ IF BadOrdinals
       THEN /\ panicked' = TRUE
            /\ UNCHANGED <<phase, store, storeDeltas>>
       ELSE /\ store' = StoreAfter[Len(deltas)]
            /\ storeDeltas' = [i \in DOMAIN deltas |->
                   [key |-> deltas[i].key, new_value |-> StoreAfter[i][deltas[i].key]]]
            /\ phase' = "aggregate"
            /\ UNCHANGED panicked
    /\ UNCHANGED <<chainVars, deltas, aggregated, indexer>>

-----------------------------------------------------------------------------
(* aggregate_balances_changes                                              *)

(* group_by starts a new group whenever the transaction changes, and the   *)
(* later of two groups of one transaction replaces the earlier: the map    *)
(* keeps the last run of deltas of each transaction.                       *)
LastGroup(t) ==
    {i \in DOMAIN deltas : deltas[i].tx = t /\
        \A j \in i..Len(deltas) :
            (\E l \in j..Len(deltas) : deltas[l].tx = t) => deltas[j].tx = t}

(* Mutant: the first change of a key in a transaction is kept.             *)
FirstChange(t, k) ==
    LET is == {i \in LastGroup(t) : storeDeltas[i].key = k}
    IN  IF is = {} THEN NoChange ELSE Clipped(storeDeltas[Min(is)].new_value)
(* Mutant: negative sums are not clipped.                                  *)
UnclippedChange(t, k) ==
    LET is == {i \in LastGroup(t) : storeDeltas[i].key = k}
    IN  IF is = {} THEN NoChange ELSE storeDeltas[Max(is)].new_value

LastChange(t, k) ==
    LET is == {i \in LastGroup(t) : storeDeltas[i].key = k}
    IN  IF is = {} THEN NoChange ELSE Clipped(storeDeltas[Max(is)].new_value)

AggregateBalancesChanges ==
    /\ phase = "aggregate"
    /\ aggregated' = [t \in Block |-> [k \in Key |-> LastChange(t, k)]]
    /\ phase' = "apply"
    /\ UNCHANGED <<chainVars, deltas, store, storeDeltas, indexer, panicked>>

-----------------------------------------------------------------------------
(* The consumer applies the changes in the order of the transactions; then *)
(* the next block starts.                                                  *)

LatestChange(k) ==
    LET ts == {t \in Block : aggregated[t][k] # NoChange}
    IN  IF ts = {} THEN indexer[k] ELSE aggregated[Max(ts)][k]

EmptyBlock ==
    /\ logs' = <<>>
    /\ tx' = 1
    /\ txEnd' = [t \in Block |-> balance]
    /\ deltas' = <<>>
    /\ storeDeltas' = <<>>
    /\ aggregated' = [t \in Block |-> [k \in Key |-> NoChange]]

Apply ==
    /\ phase = "apply"
    /\ indexer' = [k \in Key |-> LatestChange(k)]
    /\ phase' = "mine"
    /\ EmptyBlock
    /\ UNCHANGED <<balance, unseen, store, panicked>>

Init ==
    /\ unseen \in [Key -> 0..MaxUnseen]
    /\ balance = unseen
    /\ logs = <<>>
    /\ tx = 1
    /\ txEnd = [t \in Block |-> balance]
    /\ phase = "mine"
    /\ deltas = <<>>
    /\ store = [k \in Key |-> 0]
    /\ storeDeltas = <<>>
    /\ aggregated = [t \in Block |-> [k \in Key |-> NoChange]]
    /\ indexer = [k \in Key |-> 0]
    /\ panicked = FALSE

Next ==
    \/ \E token \in Token, value \in Amount :
          \/ \E from, to \in Party : Transfer(token, from, to, value)
          \/ \E c \in Component : Deposit(token, c, value) \/ Withdrawal(token, c, value)
    \/ NextTx
    \/ MapDeltas
    \/ StoreBalanceChanges
    \/ AggregateBalancesChanges
    \/ Apply

Spec == Init /\ [][Next]_vars

-----------------------------------------------------------------------------
(* Properties                                                              *)

(* What the pipeline can know of a balance: the part it saw, and at least  *)
(* zero.                                                                   *)
Visible(b, k) == Clipped(b[k] - unseen[k])

(* aggregate_balances_changes, "Will keep the last balance change for each *)
(* unique combination of component, token, and transaction": the balance   *)
(* reported under a transaction is the one at the end of it, and a         *)
(* transaction that changed a balance reports it.                          *)
BalancesPerTransaction ==
    phase = "apply" => \A t \in Block, k \in Key :
        /\ aggregated[t][k] # NoChange => aggregated[t][k] = Visible(txEnd[t], k)
        /\ (\E i \in DOMAIN logs : /\ logs[i].tx = t /\ logs[i].token = k[2]
                                   /\ k[1] \in {logs[i].from, logs[i].to})
              => aggregated[t][k] # NoChange

(* The module doc, "conducted with high fidelity": between blocks the      *)
(* consumer holds the visible balance of every component, and so never     *)
(* more than the component really has.                                     *)
BalancesMirrored ==
    phase = "mine" /\ logs = <<>> => \A k \in Key :
        /\ indexer[k] = Visible(balance, k)
        /\ indexer[k] <= balance[k]

(* The store holds what the components received since indexing started,    *)
(* negative or not: clipping is for the output only.                       *)
StoreIsExact ==
    phase = "mine" /\ logs = <<>> => \A k \in Key : store[k] = balance[k] - unseen[k]

(* balances.rs 8-12: the deltas the SDK extracts from a transaction are    *)
(* legal input for its own store module, which therefore never panics.     *)
NeverPanics == ~panicked
=============================================================================
