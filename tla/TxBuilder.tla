----------------------------- MODULE TxBuilder -----------------------------
(***************************************************************************)
(* The whole TransactionChangesBuilder (tycho-substreams, models.rs): the  *)
(* entity part (EntityChanges), the contract part (ContractChanges), new   *)
(* components, component balances and DCI entry points are collected for   *)
(* one transaction and emitted as one message, or not at all when build    *)
(* finds the message empty.                                                *)
(***************************************************************************)
EXTENDS Naturals

CONSTANTS
    Component, Name, Value, Paused, Marker, MessageName, Zero, One,
    RepeatInFirst, Absent, Unset, NoEntity,
    Address, Slot, Word, Balance, Code, Token, ZeroWord, ZeroBalance,
    UpdateFirst, Empty, Untouched, NoContract,
    Description,    \* what a ProtocolComponent says of a component
    EntryPoint,     \* entry points and entry point parameters
    NoComponent,    \* no ProtocolComponent for the id
    NoBalance       \* no BalanceChange for the component and token

ASSUME BuilderSentinels ==
    /\ NoComponent \notin Description
    /\ NoBalance \notin Balance

VARIABLES
    entity_changes, protocol, indexer,
    contract_changes, chain, known_contracts, chain_tokens, known_tokens,
    component_changes,  \* the builder's map of new components
    balance_changes,    \* the builder's map of component balances
    entrypoints,        \* the builder's sets of entry points and parameters
    reported,           \* components and balances as reported
    delivered           \* the same as the consumer knows them

entityVars == <<entity_changes, protocol, indexer>>
contractVars == <<contract_changes, chain, known_contracts, chain_tokens, known_tokens>>
ownVars == <<component_changes, balance_changes, entrypoints, reported, delivered>>
vars == <<entityVars, contractVars, ownVars>>

Entities == INSTANCE EntityChanges
Contracts == INSTANCE ContractChanges
                 WITH indexer <- known_contracts, indexer_tokens <- known_tokens

ASSUME EntityAssumptions ==
    /\ {Paused} \cup MessageName \subseteq Name \ {Marker} /\ Marker \in Name
    /\ {Zero, One} \subseteq Value /\ Absent \notin Value
    /\ Unset \notin Entities!Attribute /\ NoEntity \notin Entities!Interim
    /\ RepeatInFirst \in BOOLEAN
ASSUME ContractAssumptions ==
    /\ ZeroWord \in Word /\ ZeroBalance \in Balance
    /\ Empty \notin Balance \cup Code /\ Untouched \notin Balance
    /\ Untouched \notin Contracts!SlotValue /\ NoContract \notin Contracts!Interim
    /\ UpdateFirst \in BOOLEAN

Books ==
    [components : [Component -> Description \cup {NoComponent}],
     balances   : [Component \X Token -> Balance \cup {NoBalance}]]

TypeOK ==
    /\ Entities!TypeOK
    /\ Contracts!TypeOK
    /\ component_changes \in [Component -> Description \cup {NoComponent}]
    /\ balance_changes \in [Component \X Token -> Balance \cup {NoBalance}]
    /\ entrypoints \in SUBSET EntryPoint
    /\ reported \in Books
    /\ delivered \in Books

-----------------------------------------------------------------------------
(* Operations of the builder                                               *)

EntityOperation ==
    /\ \/ \E c \in Component :
             \/ Entities!AddEntityChange(c)
             \/ Entities!MarkComponentAsUpdated(c)
             \/ \E paused \in BOOLEAN : Entities!ChangeComponentPauseState(c, paused)
    /\ UNCHANGED <<contractVars, ownVars>>

ContractOperation ==
    /\ \E a \in Address : Contracts!AddContractChanges(a) \/ Contracts!AddTokenBalances(a)
    /\ UNCHANGED <<entityVars, ownVars>>

(* A component is immutable: an integration that reports it again, in the  *)
(* transaction of its creation, is ignored.                                *)
AddProtocolComponent(c, d) ==
    /\ delivered.components[c] = NoComponent
    /\ component_changes' = [component_changes EXCEPT ![c] = IF @ = NoComponent THEN d ELSE @]
    /\ reported' = [reported EXCEPT !.components[c] = IF @ = NoComponent THEN d ELSE @]
    /\ UNCHANGED <<entityVars, contractVars, balance_changes, entrypoints, delivered>>

(* A later report replaces the earlier one of the same component and token.*)
AddBalanceChange(c, t, b) ==
    /\ balance_changes' = [balance_changes EXCEPT ![<<c, t>>] = b]
    /\ reported' = [reported EXCEPT !.balances[<<c, t>>] = b]
    /\ UNCHANGED <<entityVars, contractVars, component_changes, entrypoints, delivered>>

(* What the consumer makes of entry points is not followed: they go with   *)
(* the message, if there is one.                                           *)
AddEntrypoint(e) ==
    /\ entrypoints' = entrypoints \cup {e}
    /\ UNCHANGED <<entityVars, contractVars, component_changes, balance_changes,
                   reported, delivered>>

-----------------------------------------------------------------------------
(* build                                                                   *)

NoEntityLeft ==
    \A c \in Component : entity_changes[c] # NoEntity =>
        \A n \in Name : entity_changes[c].attributes[n] = Unset

NoContractLeft ==
    \A a \in Address :
        contract_changes[a] # NoContract => Contracts!IsEmpty(contract_changes[a])

(* Mutants: a message with balances only, with attributes only or with     *)
(* contracts only counts as empty.                                         *)
EmptyButBalances(components, balances) ==
    /\ NoEntityLeft
    /\ NoContractLeft
    /\ \A c \in Component : components[c] = NoComponent
EmptyButEntities(components, balances) ==
    /\ NoContractLeft
    /\ \A c \in Component : components[c] = NoComponent
    /\ \A ct \in Component \X Token : balances[ct] = NoBalance
EmptyButContracts(components, balances) ==
    /\ NoEntityLeft
    /\ \A c \in Component : components[c] = NoComponent
    /\ \A ct \in Component \X Token : balances[ct] = NoBalance

(* TransactionChanges::is_empty; entry points do not count.                *)
IsEmpty(components, balances) ==
    /\ NoEntityLeft
    /\ NoContractLeft
    /\ \A c \in Component : components[c] = NoComponent
    /\ \A ct \in Component \X Token : balances[ct] = NoBalance

(* The consumer's books once the message is applied.                       *)
Delivery ==
    [components |-> [c \in Component |->
         IF component_changes[c] = NoComponent THEN delivered.components[c]
                                               ELSE component_changes[c]],
     balances |-> [ct \in Component \X Token |->
         IF balance_changes[ct] = NoBalance THEN delivered.balances[ct]
                                            ELSE balance_changes[ct]]]

(* None: the consumer learns nothing of the transaction, whatever the      *)
(* parts of the builder hold.                                              *)
Suppress ==
    /\ entity_changes' = [c \in Component |-> NoEntity]
    /\ contract_changes' = [a \in Address |-> NoContract]
    /\ UNCHANGED <<indexer, protocol, known_contracts, chain,
                   known_tokens, chain_tokens, delivered>>

Emit ==
    /\ Entities!Build
    /\ Contracts!Build
    /\ delivered' = Delivery

Build ==
    /\ IF IsEmpty(component_changes, balance_changes) THEN Suppress ELSE Emit
    /\ component_changes' = [c \in Component |-> NoComponent]
    /\ balance_changes' = [ct \in Component \X Token |-> NoBalance]
    /\ entrypoints' = {}
    /\ UNCHANGED reported

Init ==
    /\ Entities!Init
    /\ Contracts!Init
    /\ component_changes = [c \in Component |-> NoComponent]
    /\ balance_changes = [ct \in Component \X Token |-> NoBalance]
    /\ entrypoints = {}
    /\ reported = [components |-> component_changes, balances |-> balance_changes]
    /\ delivered = reported

Next ==
    \/ EntityOperation
    \/ ContractOperation
    \/ \E c \in Component :
          \/ \E d \in Description : AddProtocolComponent(c, d)
          \/ \E t \in Token, b \in Balance : AddBalanceChange(c, t, b)
    \/ \E e \in EntryPoint : AddEntrypoint(e)
    \/ Build

Spec == Init /\ [][Next]_vars

-----------------------------------------------------------------------------
(* Properties                                                              *)

(* build, is_empty: build drops the whole message when it finds it empty,  *)
(* so whatever was reported in the transaction, in any part and any order, *)
(* netted, merged or not, the consumer holds after build every component,  *)
(* component balance, attribute and contract as reported: the first report *)
(* of a component, the last one of a balance.  (Token balances and entry   *)
(* points do not count for is_empty and may be lost.)                      *)
SuppressesNothing ==
    [][Build => /\ delivered'.components = reported.components
                /\ delivered'.balances = reported.balances
                /\ indexer' = protocol
                /\ known_contracts' = chain]_vars
=============================================================================
