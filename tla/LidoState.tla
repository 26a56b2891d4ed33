------------------------------ MODULE LidoState -----------------------------
(***************************************************************************)
(* Lido (src/substreams/ethereum-lido): the stETH and wstETH components    *)
(* and their state, taken from the storage writes of the traced calls.     *)
(* Four slots of stETH make up the total of pooled ether; they go through  *)
(* a store whose deltas are replayed, whereas shares, staking limit and    *)
(* wrapped supply go straight from the calls into the message.             *)
(*                                                                         *)
(* External are the chain (calls, nested and reverted, and their writes),  *)
(* the substreams store with its deltas, and the consumer.                 *)
(***************************************************************************)
EXTENDS Integers, Sequences

CONSTANTS
    Written,        \* bound: the slots that the chain writes
    Initial,        \* the four values that the code hard-codes
    DepositSize,    \* DEPOSIT_SIZE_STR
    MaxValue,       \* bound: largest value of a slot but the staking limit
    MaxTxs,         \* bound: transactions per block
    MaxCalls,       \* bound: traced calls per block
    MaxWrites,      \* bound: storage writes per block
    LateWrites,     \* does a call write after a call nested in it?
    NoValue         \* no value known, no change reported

Pooled == {"buffered_eth", "cl_balance_position", "cl_validators_position",
           "deposited_validators_position"}
Direct == {"total_shares", "stake_limit", "total_wstETH"}
Field == {"stETH:pooled", "wstETH:pooled", "stETH:total_shares", "wstETH:total_shares",
          "stETH:staking", "wstETH:total_wstETH"}
Tx == 1..MaxTxs

(* Upper and middle part of the word with the staking limit: maximum, rest. *)
LimitWord == {<<0, 1>>, <<1, 0>>, <<1, 1>>}
Value(slot) == IF slot = "stake_limit" THEN LimitWord ELSE 0..MaxValue

LidoBounds ==
    /\ Written \subseteq Pooled \cup Direct
    /\ Initial \in [Pooled -> 0..MaxValue] /\ MaxValue \in Nat /\ DepositSize \in Nat
    /\ MaxTxs \in Nat \ {0} /\ MaxCalls \in Nat /\ MaxWrites \in Nat
    /\ LateWrites \in BOOLEAN /\ NoValue \notin Nat \cup LimitWord

VARIABLES
    chain,          \* storage of stETH and wstETH
    block,          \* the block: its calls and their writes, the state before and after
    phase,          \* which module runs next
    stores,         \* store_storage_variables
    deltas,         \* its deltas in this block
    message,        \* map_protocol_changes: the fields of each transaction
    indexer         \* what the consumer knows

vars == <<chain, block, phase, stores, deltas, message, indexer>>

TypeOK ==
    /\ \A slot \in Pooled \cup Direct : chain[slot] \in Value(slot)
    /\ block.tx \in Tx /\ Len(block.calls) <= MaxCalls /\ Len(block.writes) <= MaxWrites
    /\ phase \in {"mine", "map", "apply"}
    /\ stores \in [Pooled -> Nat \cup {NoValue}]
    /\ DOMAIN message = Tx /\ DOMAIN indexer = Field

-----------------------------------------------------------------------------
(* The chain.  Traced calls are numbered in the order in which they begin, *)
(* which is also the order of their begin ordinals.                        *)

CallKind == [impl |-> Pooled \cup {"total_shares", "stake_limit"},
             wst |-> {"total_wstETH"},
             delegate |-> {"stake_limit"}]      \* another contract's code, on the proxy's storage

MineOnly == UNCHANGED <<phase, stores, deltas, message, indexer>>

Running == block.open # <<>>
Top == block.open[Len(block.open)]

Call(kind) ==
    /\ phase = "mine" /\ Len(block.calls) < MaxCalls
    /\ block' = [block EXCEPT
           !.calls = Append(@, [kind |-> kind, tx |-> block.tx, reverted |-> FALSE]),
           !.open = Append(@, [call |-> Len(block.calls) + 1, before |-> chain])]
    /\ UNCHANGED chain /\ MineOnly

Write(slot, value) ==
    /\ phase = "mine" /\ Running /\ Len(block.writes) < MaxWrites /\ chain[slot] # value
    /\ slot \in CallKind[block.calls[Top.call].kind]
    /\ ~LateWrites => Top.call = Len(block.calls)
    /\ chain' = [chain EXCEPT ![slot] = value]
    /\ block' = [block EXCEPT
           !.writes = Append(@, [call |-> Top.call, tx |-> block.tx, slot |-> slot,
                                 value |-> value]),
           !.txEnd = [@ EXCEPT ![block.tx] = chain']]
    /\ MineOnly

(* The calls from the given one on have failed.                            *)
FailedFrom(calls, first) ==
    [i \in DOMAIN calls |->
        IF i >= first THEN [calls[i] EXCEPT !.reverted = TRUE] ELSE calls[i]]

(* A failed call takes back its writes and those of the calls inside it.   *)
Return(reverted) ==
    /\ phase = "mine" /\ Running
    /\ chain' = IF reverted THEN Top.before ELSE chain
    /\ block' = [block EXCEPT
           !.open = SubSeq(@, 1, Len(@) - 1),
           !.calls = IF reverted THEN FailedFrom(@, Top.call) ELSE @,
           !.txEnd = [@ EXCEPT ![block.tx] = chain']]
    /\ MineOnly

NextTx ==
    /\ phase = "mine" /\ ~Running /\ block.tx < MaxTxs
    /\ block' = [block EXCEPT !.tx = @ + 1, !.txEnd = [@ EXCEPT ![block.tx + 1] = chain]]
    /\ UNCHANGED chain /\ MineOnly

-----------------------------------------------------------------------------
(* store_storage_variables                                                 *)

(* Traced in the order of their calls, not of time.                        *)
Earlier(i, j) ==
    \/ block.writes[i].call < block.writes[j].call
    \/ block.writes[i].call = block.writes[j].call /\ i < j
Latest(is) == CHOOSE i \in is : \A j \in is \ {i} : Earlier(j, i)
First(is) == CHOOSE i \in is : \A j \in is \ {i} : Earlier(i, j)

(* Mutant: the writes of reverted calls are stored as well.                *)
SettingCallsAll == {i \in DOMAIN block.calls : block.calls[i].kind = "impl"}

SettingCalls ==
    {i \in DOMAIN block.calls : block.calls[i].kind = "impl" /\ ~block.calls[i].reverted}

(* What the store is set to: all with the ordinal at which the call began. *)
Sets == {i \in DOMAIN block.writes :
            block.writes[i].slot \in Pooled /\ block.writes[i].call \in SettingCalls}

(* In the start block the hard-coded values come first, at the ordinal 0;  *)
(* their own deltas are of no account, as that block reports no totals.    *)
StartValue(slot) == IF block.start THEN Initial[slot] ELSE stores[slot]

(* The last value that a slot is set to, or an earlier one.                *)
LastSet(sets, slot, is, earlier) ==
    LET of == {i \in is : sets[i].slot = slot}
    IN  IF of = {} THEN earlier ELSE sets[Latest(of)].value

StoreStorageVariables ==
    /\ phase = "mine" /\ ~Running
    /\ stores' = [slot \in Pooled |-> LastSet(block.writes, slot, Sets, StartValue(slot))]
    /\ deltas' = [i \in Sets |->
           LET slot == block.writes[i].slot IN
           [tx |-> block.writes[i].tx, slot |-> slot, value |-> block.writes[i].value,
            old |-> LastSet(block.writes, slot, {j \in Sets : Earlier(j, i)}, StartValue(slot))]]
    /\ phase' = "map"
    /\ UNCHANGED <<chain, block, message, indexer>>

-----------------------------------------------------------------------------
(* map_protocol_changes: map_protocol_components, handle_sync              *)

StakingStatus(word) ==
    IF word[2] = 0 THEN <<"Paused", 0>>
    ELSE IF word[1] = 0 THEN <<"Unlimited", 0>> ELSE <<"Limited", word[1]>>

(* Mutant: the wstETH component is not told of new shares.                 *)
FieldsOfShares(slot) ==
    CASE slot = "total_shares" -> {"stETH:total_shares"}
      [] slot = "stake_limit" -> {"stETH:staking"}
      [] slot = "total_wstETH" -> {"wstETH:total_wstETH"}
      [] OTHER -> {}

(* st_eth_entity_changes, wst_eth_entity_changes, staking_entity_changes.  *)
FieldsOf(slot) ==
    CASE slot = "total_shares" -> {"stETH:total_shares", "wstETH:total_shares"}
      [] slot = "stake_limit" -> {"stETH:staking"}
      [] slot = "total_wstETH" -> {"wstETH:total_wstETH"}
      [] OTHER -> {}

(* The writes of a transaction that change a field.                        *)
Changing(t, f) ==
    {i \in DOMAIN block.writes : /\ block.writes[i].tx = t
                                 /\ ~block.calls[block.writes[i].call].reverted
                                 /\ f \in FieldsOf(block.writes[i].slot)}

(* The entity changes of a transaction, in the order of the calls; the     *)
(* builder keeps the last value of every attribute.                        *)
EntityFields(t) ==
    LET last(f) == block.writes[Latest(Changing(t, f))]
    IN  [f \in {f \in Field : Changing(t, f) # {}} |->
            IF f = "stETH:staking" THEN StakingStatus(last(f).value) ELSE last(f).value]

(* Mutant: the value at the end of the block is taken for the initial one. *)
StoredValueForBlock(slot) == stores[slot]

(* The value of a variable before the block: the old value of its first    *)
(* delta, nothing being zero, or what the store holds if there is none.    *)
InitialValueForBlock(slot) ==
    LET of == {i \in DOMAIN deltas : deltas[i].slot = slot}
        old == deltas[First(of)].old
    IN  IF of = {} THEN stores[slot] ELSE IF old = NoValue THEN 0 ELSE old

TotalPooled(value) ==
    value["buffered_eth"] + value["cl_balance_position"]
    + (value["deposited_validators_position"] - value["cl_validators_position"]) * DepositSize

(* The total once the deltas up to the i-th have been replayed.            *)
TotalAfter(i) ==
    LET replayed == {j \in DOMAIN deltas : j = i \/ Earlier(j, i)}
    IN  TotalPooled([slot \in Pooled |->
            LastSet(deltas, slot, replayed, InitialValueForBlock(slot))])

(* The last delta of each ordinal, that is of each call, emits the total   *)
(* for both components; the builder keeps the last one of a transaction.   *)
PooledFields(t) ==
    LET emitting == {i \in DOMAIN deltas : deltas[i].tx = t}
    IN  [f \in {f \in {"stETH:pooled", "wstETH:pooled"} : ~block.start /\ emitting # {}} |->
            TotalAfter(Latest(emitting))]

(* Some fields, with what is told of some of them or of others.            *)
With(known, told) ==
    [f \in DOMAIN known \cup DOMAIN told |-> IF f \in DOMAIN told THEN told[f] ELSE known[f]]

MapProtocolChanges ==
    /\ phase = "map"
    /\ message' = [t \in Tx |-> With(EntityFields(t), PooledFields(t))]
    /\ phase' = "apply"
    /\ UNCHANGED <<chain, block, stores, deltas, indexer>>

-----------------------------------------------------------------------------
(* The consumer applies the transactions in order; the next block starts.  *)

NewBlock(start, state) ==
    [start |-> start, begin |-> state, tx |-> 1, calls |-> <<>>, open |-> <<>>,
     writes |-> <<>>, txEnd |-> [t \in Tx |-> state]]

KnownAfter(t) ==
    LET known[n \in 0..MaxTxs] ==
            IF n = 0 THEN indexer ELSE With(known[n - 1], message[n])
    IN  known[t]

Apply ==
    /\ phase = "apply"
    /\ indexer' = KnownAfter(MaxTxs)
    /\ block' = NewBlock(FALSE, chain)
    /\ deltas' = <<>>
    /\ message' = [t \in Tx |-> <<>>]
    /\ phase' = "mine"
    /\ UNCHANGED <<chain, stores>>

Init ==
    /\ chain = [slot \in Pooled \cup Direct |->
                  IF slot \in Pooled THEN Initial[slot]
                  ELSE IF slot = "stake_limit" THEN <<1, 1>> ELSE 0]
    /\ block = NewBlock(TRUE, chain)
    /\ phase = "mine"
    /\ stores = [slot \in Pooled |-> NoValue]
    /\ deltas = <<>>
    /\ message = [t \in Tx |-> <<>>]
    /\ indexer = [f \in Field |-> NoValue]

Next ==
    \/ \E kind \in DOMAIN CallKind : Call(kind)
    \/ \E slot \in Written : \E value \in Value(slot) : Write(slot, value)
    \/ \E reverted \in BOOLEAN : Return(reverted)
    \/ NextTx
    \/ StoreStorageVariables
    \/ MapProtocolChanges
    \/ Apply

Spec == Init /\ [][Next]_vars

-----------------------------------------------------------------------------
(* Properties                                                              *)

OnChain(state, f) ==
    CASE f \in {"stETH:pooled", "wstETH:pooled"} -> TotalPooled(state)
      [] f \in {"stETH:total_shares", "wstETH:total_shares"} -> state["total_shares"]
      [] f = "stETH:staking" -> StakingStatus(state["stake_limit"])
      [] f = "wstETH:total_wstETH" -> state["total_wstETH"]

(* "Calculate total pooled ETH with current state" (3_map_protocol_changes *)
(* 200): whatever a transaction reports, to either component, is the value *)
(* at the end of that transaction, and a field that it changed is          *)
(* reported, apart from the total in the start block, which is skipped.    *)
ReportedPerTransaction ==
    phase = "apply" => \A t \in Tx, f \in Field :
        LET before == IF t = 1 THEN block.begin ELSE block.txEnd[t - 1]
        IN  /\ f \in DOMAIN message[t] => message[t][f] = OnChain(block.txEnd[t], f)
            /\ t <= block.tx /\ OnChain(before, f) # OnChain(block.txEnd[t], f)
                 => \/ f \in DOMAIN message[t]
                    \/ block.start /\ f \in {"stETH:pooled", "wstETH:pooled"}

(* Between blocks the consumer knows of a field nothing at all or exactly  *)
(* what is on chain, unless only the start block changed the total; and    *)
(* both components agree on the fields they share.                         *)
BothMirrored ==
    phase = "mine" /\ block.calls = <<>> =>
        /\ \A f \in Field : indexer[f] \in {NoValue, OnChain(chain, f)}
        /\ indexer["stETH:pooled"] = indexer["wstETH:pooled"]
        /\ indexer["stETH:total_shares"] = indexer["wstETH:total_shares"]

(* The store follows the four slots, from the hard-coded values on.        *)
StoreFollowsSlots ==
    phase = "map" => \A slot \in Pooled : stores[slot] = chain[slot]
=============================================================================
