---------------------------- MODULE DeltaStores -----------------------------
(***************************************************************************)
(* The additive stores of the integrations and what they make of relative  *)
(* deltas: store_balance_changes and aggregate_balances_changes of         *)
(* balances.rs as operators, for the integrations that call them.  A delta *)
(* is a record with a key, the transaction tx and the amount delta; a      *)
(* sequence of them is ordered by transaction, as every caller builds it.  *)
(***************************************************************************)
EXTENDS Integers, Sequences, FiniteSetsExt

Clipped(n) == IF n < 0 THEN 0 ELSE n

(* The value of key in the store after the first n deltas.                 *)
SumAfter(store, ds, key, n) ==
    LET sum[i \in 0..Len(ds)] ==
            IF i = 0 THEN store[key]
            ELSE IF ds[i].key = key THEN sum[i - 1] + ds[i].delta ELSE sum[i - 1]
    IN  sum[n]

(* The store at the end of the block.                                      *)
StoreBalanceChanges(store, ds) ==
    [k \in DOMAIN store |-> SumAfter(store, ds, k, Len(ds))]

(* The store's own deltas: one per operation, with the value it left.      *)
WithNewValues(store, ds) ==
    [i \in DOMAIN ds |-> [key |-> ds[i].key, tx |-> ds[i].tx,
                          new_value |-> SumAfter(store, ds, ds[i].key, i)]]

(* The absolute balances of a transaction: for every key it changed, the   *)
(* value of its last delta, at least zero.                                 *)
AggregateBalancesChanges(ds, t) ==
    LET of(k) == {i \in DOMAIN ds : ds[i].tx = t /\ ds[i].key = k}
    IN  [k \in {ds[i].key : i \in {i \in DOMAIN ds : ds[i].tx = t}} |->
            Clipped(ds[Max(of(k))].new_value)]

(* What the consumer knows, with what a transaction says of some keys.     *)
Updated(known, changed) ==
    [k \in DOMAIN known |-> IF k \in DOMAIN changed THEN changed[k] ELSE known[k]]
=============================================================================
