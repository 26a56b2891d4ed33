------------------------------- MODULE Erc4626 ------------------------------
(***************************************************************************)
(* ERC4626 vaults (src/substreams/ethereum-erc4626): the vaults are given  *)
(* by parameters, each with the transaction that brings its component.     *)
(* Deposits and withdrawals are added up in a store, and the first one of  *)
(* a vault makes the entry points by which its state is traced: they must  *)
(* come once and not without their component, though whether a deposit is  *)
(* the first one is only known per block.                                  *)
(*                                                                         *)
(* External are the chain, the substreams stores and the consumer.         *)
(***************************************************************************)
EXTENDS DeltaStores

CONSTANTS
    Vault,          \* the configured vaults
    Amount,         \* assets moved by one event, of which some may be none
    MaxNet,         \* bound: deposits less withdrawals of a vault
    MaxYield,       \* bound: by how much withdrawals exceed deposits
    MaxTxs,         \* bound: transactions per block
    MaxEvents       \* bound: deposits and withdrawals per block

Erc4626Bounds ==
    /\ Amount \subseteq Nat /\ MaxNet \in Nat /\ MaxYield \in Nat
    /\ MaxTxs \in Nat \ {0} /\ MaxEvents \in Nat

Tx == 1..MaxTxs

VARIABLES
    chain,          \* deployed vaults; deposits less withdrawals, and who had any
    block,          \* what each transaction deploys, deposits and withdrawals, and the
                    \* state after each transaction
    phase,          \* which module runs next
    stores,         \* component tokens, balances, first interactions
    deltas,         \* map_relative_balances with its store deltas; first interactions
    message,        \* map_protocol_changes
    indexer         \* components, balances and how often entry points have come

vars == <<chain, block, phase, stores, deltas, message, indexer>>

TypeOK ==
    /\ chain.used \subseteq chain.deployed /\ chain.deployed \subseteq Vault
    /\ chain.net \in [Vault -> -MaxYield..MaxNet]
    /\ block.tx \in Tx /\ Len(block.events) <= MaxEvents
    /\ phase \in {"mine", "store", "map", "apply"}
    /\ stores.first \subseteq stores.pools /\ stores.pools \subseteq Vault
    /\ indexer.entrypoints \in [Vault -> Nat]

-----------------------------------------------------------------------------
(* The chain                                                               *)

(* The transaction that the parameters name for a vault.                   *)
Deploy(v) ==
    /\ phase = "mine" /\ v \notin chain.deployed
    /\ chain' = [chain EXCEPT !.deployed = @ \cup {v}]
    /\ block' = [block EXCEPT !.new[block.tx] = @ \cup {v},
                              !.txEnd[block.tx] = chain']
    /\ UNCHANGED <<phase, stores, deltas, message, indexer>>

(* Yield accrues without an event, so more can be taken out than was put   *)
(* in.                                                                     *)
Move(v, kind, assets) ==
    /\ phase = "mine" /\ v \in chain.deployed /\ Len(block.events) < MaxEvents
    /\ chain' = [chain EXCEPT !.used = @ \cup {v},
                              !.net[v] = IF kind = "Deposit" THEN @ + assets ELSE @ - assets]
    /\ chain'.net[v] \in -MaxYield..MaxNet
    /\ LET event == [tx |-> block.tx, kind |-> kind, vault |-> v, assets |-> assets]
       IN  block' = [block EXCEPT !.events = Append(@, event),
                                  !.txEnd[block.tx] = chain']
    /\ UNCHANGED <<phase, stores, deltas, message, indexer>>

NextTx ==
    /\ phase = "mine" /\ block.tx < MaxTxs
    /\ block' = [block EXCEPT !.tx = @ + 1, !.txEnd[block.tx + 1] = chain]
    /\ UNCHANGED <<chain, phase, stores, deltas, message, indexer>>

-----------------------------------------------------------------------------
(* map_protocol_components and store_component_tokens, then the balances   *)

NewVaults(t) == block.new[t]

(* The assets of an event as they change the balance of its vault.         *)
Delta(e) ==
    [key |-> e.vault, tx |-> e.tx,
     delta |-> IF e.kind = "Deposit" THEN e.assets ELSE -e.assets]

MapRelativeBalances ==
    /\ phase = "mine"
    /\ LET pools == stores.pools \cup UNION {NewVaults(t) : t \in Tx}
           upTo[i \in 0..Len(block.events)] ==
               IF i = 0 THEN <<>>
               ELSE IF block.events[i].vault \in pools
                    THEN Append(upTo[i - 1], Delta(block.events[i]))
                    ELSE upTo[i - 1]
       IN  /\ stores' = [stores EXCEPT !.pools = pools]
           /\ deltas' = [balances |-> upTo[Len(block.events)], first |-> {}]
    /\ phase' = "store"
    /\ UNCHANGED <<chain, block, message, indexer>>

(* store_component_balances, and store_component_first_interaction, whose  *)
(* deltas of this block are the vaults not stored before.                  *)
Store ==
    /\ phase = "store"
    /\ LET touched == {deltas.balances[i].key : i \in DOMAIN deltas.balances}
       IN  /\ stores' = [stores EXCEPT !.balance = StoreBalanceChanges(@, deltas.balances),
                                       !.first = @ \cup touched]
           /\ deltas' = [balances |-> WithNewValues(stores.balance, deltas.balances),
                         first |-> touched \ stores.first]
    /\ phase' = "map"
    /\ UNCHANGED <<chain, block, message, indexer>>

-----------------------------------------------------------------------------
(* map_protocol_changes                                                    *)

InteractionsOf(v) == {i \in DOMAIN block.events : block.events[i].vault = v}

(* Mutant: a vault that has its entry points gets them again, once a       *)
(* transaction.                                                            *)
EntryPointsPerTx(t) ==
    {v \in deltas.first : \E i \in InteractionsOf(v) : block.events[i].tx = t}

(* The five entry points go with the first deposit or withdrawal of a      *)
(* vault in the block in which it has its first one at all.                *)
EntryPoints(t) ==
    {v \in deltas.first : InteractionsOf(v) # {} /\ block.events[Min(InteractionsOf(v))].tx = t}

NoChanges == [components |-> {}, balances |-> <<>>, entrypoints |-> {}]

(* build: a transaction with nothing but entry points would be dropped.    *)
TxChanges(t) ==
    LET changes == [components |-> NewVaults(t),
                    balances |-> AggregateBalancesChanges(deltas.balances, t),
                    entrypoints |-> EntryPoints(t)]
    IN  IF changes.components = {} /\ changes.balances = <<>> THEN NoChanges ELSE changes

MapProtocolChanges ==
    /\ phase = "map"
    /\ message' = [t \in 1..block.tx |-> TxChanges(t)]
    /\ phase' = "apply"
    /\ UNCHANGED <<chain, block, stores, deltas, indexer>>

-----------------------------------------------------------------------------
(* The consumer applies the transactions in order; the next block starts.  *)

ApplyTx(known, changes) ==
    [pools |-> known.pools \cup changes.components,
     balance |-> Updated(known.balance, changes.balances),
     entrypoints |-> [v \in Vault |-> known.entrypoints[v]
                                      + IF v \in changes.entrypoints THEN 1 ELSE 0]]

KnownAfter(t) ==
    LET known[n \in 0..Len(message)] ==
            IF n = 0 THEN indexer ELSE ApplyTx(known[n - 1], message[n])
    IN  known[t]

NewBlock(state) ==
    [tx |-> 1, new |-> [t \in Tx |-> {}], events |-> <<>>, txEnd |-> [t \in Tx |-> state]]
NoDeltas == [balances |-> <<>>, first |-> {}]

Apply ==
    /\ phase = "apply"
    /\ indexer' = KnownAfter(Len(message))
    /\ block' = NewBlock(chain)
    /\ deltas' = NoDeltas
    /\ message' = <<>>
    /\ phase' = "mine"
    /\ UNCHANGED <<chain, stores>>

Init ==
    /\ chain = [deployed |-> {}, used |-> {}, net |-> [v \in Vault |-> 0]]
    /\ block = NewBlock(chain)
    /\ phase = "mine"
    /\ stores = [pools |-> {}, first |-> {}, balance |-> [v \in Vault |-> 0]]
    /\ deltas = NoDeltas
    /\ message = <<>>
    /\ indexer = [pools |-> {}, balance |-> [v \in Vault |-> 0],
                  entrypoints |-> [v \in Vault |-> 0]]

Next ==
    \/ \E v \in Vault :
          \/ Deploy(v)
          \/ \E kind \in {"Deposit", "Withdraw"}, assets \in Amount : Move(v, kind, assets)
    \/ NextTx
    \/ MapRelativeBalances
    \/ Store
    \/ MapProtocolChanges
    \/ Apply

Spec == Init /\ [][Next]_vars

-----------------------------------------------------------------------------
(* Properties                                                              *)

(* "Ensure entrypoints are added only on the initial interaction"          *)
(* (modules.rs 207): after every transaction the consumer has the entry    *)
(* points of a vault exactly once if the vault was ever used, never before *)
(* that, and never without the component; and of the vault's assets it     *)
(* knows what was put in less what was taken out, but at least zero.       *)
TracedFromFirstUse ==
    phase = "apply" => \A t \in 1..block.tx :
        LET known == KnownAfter(t)
            state == block.txEnd[t]
        IN  /\ known.pools = state.deployed
            /\ \A v \in Vault :
                  /\ known.entrypoints[v] = IF v \in state.used THEN 1 ELSE 0
                  /\ known.balance[v] = Clipped(state.net[v])
=============================================================================
