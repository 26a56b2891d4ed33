-------------------------- MODULE ContractChanges --------------------------
(***************************************************************************)
(* The contract part of TransactionChangesBuilder (tycho-substreams,       *)
(* models.rs): changes of contract storage, native balance, code and token *)
(* balances are merged by InterimContractChange during one transaction and *)
(* emitted as one ContractChange per address that really changed.          *)
(*                                                                         *)
(* chain is the state of the contracts as the callers of the builder       *)
(* reported it, indexer what the consumer of the messages knows of it.     *)
(***************************************************************************)
EXTENDS InterimContractChange

CONSTANTS
    Address,        \* contract addresses
    ZeroWord,       \* the value of a slot never written
    ZeroBalance,    \* the balance of an account never funded
    UpdateFirst     \* may a token record precede the creation record?

ASSUME ContractValues == ZeroWord \in Word /\ ZeroBalance \in Balance
ASSUME UpdateFirstAssumption == UpdateFirst \in BOOLEAN

VARIABLES
    contract_changes,   \* the builder's map of InterimContractChange
    chain,              \* the contracts as the callers reported them
    indexer,            \* the contracts as the consumer knows them
    chain_tokens,       \* token balances of the contracts, as reported
    indexer_tokens      \* token balances as the consumer knows them

vars == <<contract_changes, chain, indexer, chain_tokens, indexer_tokens>>

TypeOK ==
    /\ contract_changes \in [Address -> Interim \cup {NoContract}]
    /\ chain \in [Address -> Account]
    /\ indexer \in [Address -> Account]
    /\ chain_tokens \in [Address -> [Token -> Balance]]
    /\ indexer_tokens \in [Address -> [Token -> Balance]]

-----------------------------------------------------------------------------
(* What the callers report about one contract in one record                *)

(* A record made with InterimContractChange::new, upsert_slot, set_balance,*)
(* set_code and upsert_token_balance: old values are the chain's values.   *)
Record(a, creation, writes, balance, code, tokens) ==
    [creation |-> creation,
     balance  |-> balance,
     code     |-> code,
     slots    |-> [s \in Slot |-> IF s \in DOMAIN writes
                     THEN [start_value |-> chain[a].slots[s], new_value |-> writes[s]]
                     ELSE Untouched],
     tokens   |-> [t \in Token |-> IF t \in DOMAIN tokens THEN tokens[t] ELSE Untouched]]

(* Storage records carry the creation flag exactly in the transaction that *)
(* creates the contract; token records never carry it.                     *)
Flagged(a, creation, isTokenRecord) ==
    IF isTokenRecord THEN ~creation /\ (chain[a].exists \/ UpdateFirst)
                     ELSE creation <=> ~indexer[a].exists

-----------------------------------------------------------------------------
(* Operations of the builder                                               *)

Put(a, change) ==
    contract_changes' = [contract_changes EXCEPT ![a] =
        IF @ = NoContract THEN change ELSE Merged(@, change)]

AddContractChanges(a) ==
    \E ss \in SUBSET Slot, creation \in BOOLEAN,
       balance \in Balance \cup {Empty}, code \in Code \cup {Empty} :
    \E writes \in [ss -> Word] :
        /\ Flagged(a, creation, FALSE)
        /\ Put(a, Record(a, creation, writes, balance, code, <<>>))
        /\ chain' = [chain EXCEPT ![a] =
               [exists  |-> TRUE,
                balance |-> UnlessEmpty(@.balance, balance, Empty),
                code    |-> UnlessEmpty(@.code, code, Empty),
                slots   |-> [s \in Slot |-> IF s \in ss THEN writes[s] ELSE @.slots[s]]]]
        /\ UNCHANGED <<indexer, chain_tokens, indexer_tokens>>

AddTokenBalances(a) ==
    \E ts \in SUBSET Token \ {{}} :
    \E tokens \in [ts -> Balance] :
        /\ Flagged(a, FALSE, TRUE)
        /\ Put(a, Record(a, FALSE, <<>>, Empty, Empty, tokens))
        /\ chain_tokens' = [chain_tokens EXCEPT ![a] =
               [t \in Token |-> IF t \in ts THEN tokens[t] ELSE @[t]]]
        /\ UNCHANGED <<chain, indexer, indexer_tokens>>

Build ==
    /\ indexer' = [a \in Address |-> Applied(indexer[a], contract_changes[a])]
    /\ indexer_tokens' = [a \in Address |-> AppliedTokens(indexer_tokens[a], contract_changes[a])]
    /\ contract_changes' = [a \in Address |-> NoContract]
    /\ UNCHANGED <<chain, chain_tokens>>

Init ==
    /\ contract_changes = [a \in Address |-> NoContract]
    /\ chain = [a \in Address |->
           [exists |-> FALSE, balance |-> ZeroBalance, code |-> Empty,
            slots |-> [s \in Slot |-> ZeroWord]]]
    /\ indexer = chain
    /\ chain_tokens = [a \in Address |-> [t \in Token |-> ZeroBalance]]
    /\ indexer_tokens = chain_tokens

Next ==
    \/ \E a \in Address : AddContractChanges(a) \/ AddTokenBalances(a)
    \/ Build

Spec == Init /\ [][Next]_vars

-----------------------------------------------------------------------------
(* Properties                                                              *)

(* build: however the records of a transaction are merged and filtered,    *)
(* the pending changes applied to what the consumer knows are the chain's  *)
(* storage, balance, code and existence.                                   *)
PendingIsExact ==
    \A a \in Address : Applied(indexer[a], contract_changes[a]) = chain[a]

(* From<InterimContractChange>: an emitted slot names as previous value    *)
(* the one the consumer has, even when several records wrote the slot.     *)
PreviousValueIsKnown ==
    \A a \in Address : contract_changes[a] # NoContract =>
        \A s \in EmittedSlots(contract_changes[a]) :
            contract_changes[a].slots[s].start_value = indexer[a].slots[s]

(* common.proto, token_balances, "The new ERC20 balances of the contract": *)
(* the consumer learns every token balance reported for a contract.        *)
TokenBalancesDelivered ==
    \A a \in Address :
        AppliedTokens(indexer_tokens[a], contract_changes[a]) = chain_tokens[a]

(* Why PendingIsExact holds: an entry starts from the values the consumer  *)
(* knows and ends at those of the chain, and a contract the consumer does  *)
(* not know has an entry only with the creation flag.                      *)
EntryOK(interim, known, held) ==
    /\ \A s \in Slot :
          IF interim.slots[s] = Untouched
          THEN held.slots[s] = known.slots[s]
          ELSE /\ interim.slots[s].start_value = known.slots[s]
               /\ interim.slots[s].new_value = held.slots[s]
    /\ held.balance = UnlessEmpty(known.balance, interim.balance, Empty)
    /\ held.code = UnlessEmpty(known.code, interim.code, Empty)
    /\ interim.creation <=> ~known.exists
    /\ held.exists

MergeInv ==
    \A a \in Address :
        IF contract_changes[a] = NoContract
        THEN indexer[a] = chain[a]
        ELSE EntryOK(contract_changes[a], indexer[a], chain[a])

(* The contract part of the builder implements the promise of StateMirror. *)
Mirror == INSTANCE StateMirror WITH source <- chain, mirror <- indexer
MirrorsChain == Mirror!Spec
=============================================================================
