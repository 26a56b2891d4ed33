-------------------------- MODULE TxBuilderProofs --------------------------
(***************************************************************************)
(* Proofs about the whole builder.  Its entity and contract parts are what *)
(* EntityChangesProofs and ContractChangesProofs are about; the rest is    *)
(* new components and balances, and build, which may suppress a message.   *)
(***************************************************************************)
EXTENDS TxBuilder, TLAPS

EP == INSTANCE EntityChangesProofs
CP == INSTANCE ContractChangesProofs
          WITH indexer <- known_contracts, indexer_tokens <- known_tokens

(* The instances say the same as Entities and Contracts.                   *)
LEMMA EntityInstance ==
    /\ Entities!Init <=> EP!Init
    /\ Entities!Build <=> EP!Build
    /\ Entities!TypeOK <=> EP!TypeOK
    /\ \A c : Entities!AddEntityChange(c) <=> EP!AddEntityChange(c)
    /\ \A c : Entities!MarkComponentAsUpdated(c) <=> EP!MarkComponentAsUpdated(c)
    /\ \A c : \A paused \in BOOLEAN : Entities!ChangeComponentPauseState(c, paused)
                                     <=> EP!ChangeComponentPauseState(c, paused)
<1>1. /\ Entities!Attribute = EP!Attribute
      /\ Entities!AttributeList = EP!AttributeList
      /\ Entities!Interim = EP!Interim
      /\ Entities!AttributeState = EP!AttributeState
      /\ Entities!EmptyInterim = EP!EmptyInterim
    BY DEF Entities!Attribute, EP!Attribute, Entities!ChangeType, EP!ChangeType,
           Entities!AttributeList, EP!AttributeList, Entities!Interim, EP!Interim,
           Entities!AttributeState, EP!AttributeState,
           Entities!EmptyInterim, EP!EmptyInterim
<1>2. /\ \A attr : Entities!After(attr) = EP!After(attr)
      /\ \A interim, n, attr : Entities!SetAttribute(interim, n, attr)
                                   = EP!SetAttribute(interim, n, attr)
      /\ \A known, interim : Entities!Applied(known, interim) = EP!Applied(known, interim)
    BY DEF Entities!After, EP!After, Entities!SetAttribute, EP!SetAttribute,
           Entities!CreatedAfter, EP!CreatedAfter, Entities!Applied, EP!Applied,
           Entities!AppliedTo, EP!AppliedTo
<1>3. \A c : Entities!AddEntityChange(c) <=> EP!AddEntityChange(c)
    BY DEF Entities!AddEntityChange, EP!AddEntityChange,
           Entities!ReportLimit, EP!ReportLimit, Entities!Reports, EP!Reports,
           Entities!Legal, EP!Legal, Entities!After, EP!After,
           Entities!Attribute, EP!Attribute, Entities!ChangeType, EP!ChangeType,
           Entities!AttributeList, EP!AttributeList, Entities!First, EP!First,
           Entities!Merged, EP!Merged, Entities!SetInOrder, EP!SetInOrder,
           Entities!SetAttribute, EP!SetAttribute, Entities!CreatedAfter, EP!CreatedAfter
<1>4. \A c, n, attr : Entities!SetOne(c, n, attr) <=> EP!SetOne(c, n, attr)
    BY <1>1, <1>2 DEF Entities!SetOne, EP!SetOne
<1>5. \A c : \A paused \in BOOLEAN : Entities!ChangeComponentPauseState(c, paused)
                                    <=> EP!ChangeComponentPauseState(c, paused)
    BY <1>1, <1>2
    DEF Entities!ChangeComponentPauseState, EP!ChangeComponentPauseState,
        Entities!SetOne, EP!SetOne, Entities!Legal, EP!Legal
<1> QED
    BY <1>1, <1>2, <1>3, <1>4, <1>5
    DEF Entities!Init, EP!Init, Entities!Build, EP!Build, Entities!TypeOK, EP!TypeOK,
        Entities!MarkComponentAsUpdated, EP!MarkComponentAsUpdated

LEMMA ContractInstance ==
    /\ Contracts!Init <=> CP!Init
    /\ Contracts!Build <=> CP!Build
    /\ Contracts!TypeOK <=> CP!TypeOK
    /\ \A a : Contracts!AddContractChanges(a) <=> CP!AddContractChanges(a)
    /\ \A a : Contracts!AddTokenBalances(a) <=> CP!AddTokenBalances(a)
<1>1. /\ Contracts!Interim = CP!Interim
      /\ Contracts!Account = CP!Account
    BY DEF Contracts!Interim, CP!Interim, Contracts!SlotValue, CP!SlotValue,
           Contracts!Account, CP!Account
<1>2. /\ \A known, interim : Contracts!Applied(known, interim) = CP!Applied(known, interim)
      /\ \A known, interim : Contracts!AppliedTokens(known, interim)
                                 = CP!AppliedTokens(known, interim)
    BY DEF Contracts!Applied, CP!Applied, Contracts!AppliedTokens, CP!AppliedTokens,
           Contracts!IsEmpty, CP!IsEmpty, Contracts!HasChanged, CP!HasChanged,
           Contracts!EmittedSlots, CP!EmittedSlots,
           Contracts!UnlessEmpty, CP!UnlessEmpty
<1>3. \A a : Contracts!AddContractChanges(a) <=> CP!AddContractChanges(a)
    BY DEF Contracts!AddContractChanges, CP!AddContractChanges, Contracts!Put, CP!Put,
           Contracts!Record, CP!Record, Contracts!Flagged, CP!Flagged,
           Contracts!Merged, CP!Merged, Contracts!UpsertSlot, CP!UpsertSlot,
           Contracts!UnlessEmpty, CP!UnlessEmpty
<1>4. \A a : Contracts!AddTokenBalances(a) <=> CP!AddTokenBalances(a)
    BY DEF Contracts!AddTokenBalances, CP!AddTokenBalances, Contracts!Put, CP!Put,
           Contracts!Record, CP!Record, Contracts!Flagged, CP!Flagged,
           Contracts!Merged, CP!Merged, Contracts!UpsertSlot, CP!UpsertSlot,
           Contracts!UnlessEmpty, CP!UnlessEmpty
<1> QED
    BY <1>1, <1>2, <1>3, <1>4
    DEF Contracts!Init, CP!Init, Contracts!Build, CP!Build, Contracts!TypeOK, CP!TypeOK

(* The consumer knows something of every name, address and token.          *)
EveryNameKnown ==
    /\ indexer = [c \in Component |-> [n \in Name |-> indexer[c][n]]]
    /\ known_contracts = [a \in Address |-> known_contracts[a]]
    /\ known_tokens = [a \in Address |-> [t \in Token |-> known_tokens[a][t]]]

(* A message that is suppressed as empty would have changed nothing in     *)
(* either part: is_empty leaves no attribute and no contract in it.        *)
LEMMA EmptyChangesNothing ==
    ASSUME EveryNameKnown, IsEmpty(component_changes, balance_changes), Suppress
    PROVE  Entities!Build /\ Contracts!Build
<1>1. \A c \in Component : Entities!Applied(indexer[c], entity_changes[c]) = indexer[c]
    <2> SUFFICES ASSUME NEW c \in Component
                 PROVE  Entities!Applied(indexer[c], entity_changes[c]) = indexer[c]
        OBVIOUS
    <2>1. indexer[c] = [n \in Name |-> indexer[c][n]]
        BY DEF EveryNameKnown
    <2>2. entity_changes[c] # NoEntity =>
              \A n \in Name : entity_changes[c].attributes[n] = Unset
        BY DEF IsEmpty, NoEntityLeft
    <2> QED
        BY <2>1, <2>2 DEF Entities!Applied, Entities!AppliedTo
<1>2. \A a \in Address :
          /\ Contracts!Applied(known_contracts[a], contract_changes[a]) = known_contracts[a]
          /\ Contracts!AppliedTokens(known_tokens[a], contract_changes[a]) = known_tokens[a]
    BY DEF IsEmpty, NoContractLeft, Contracts!Applied, Contracts!AppliedTokens
<1>3. indexer = [c \in Component |-> Entities!Applied(indexer[c], entity_changes[c])]
    BY <1>1 DEF EveryNameKnown
<1>4. /\ known_contracts = [a \in Address |->
             Contracts!Applied(known_contracts[a], contract_changes[a])]
      /\ known_tokens = [a \in Address |->
             Contracts!AppliedTokens(known_tokens[a], contract_changes[a])]
    BY <1>2 DEF EveryNameKnown
<1> QED
    BY <1>3, <1>4 DEF Suppress, Entities!Build, Contracts!Build

LEMMA BuildOfParts ==
    ASSUME EveryNameKnown, Build
    PROVE  Entities!Build /\ Contracts!Build
BY EmptyChangesNothing DEF Build, Emit

(* The parts run side by side: a step of the builder is a step or a        *)
(* stutter of each, and build is a build of both.                          *)
LEMMA StepOfParts ==
    ASSUME EveryNameKnown, [Next]_vars
    PROVE  /\ [Entities!Next]_entityVars
           /\ [Contracts!Next]_contractVars
           /\ [EP!Next]_entityVars
           /\ [CP!Next]_contractVars
<1>1. CASE EntityOperation
    BY <1>1, EntityInstance DEF EntityOperation, Entities!Next, EP!Next
<1>2. CASE ContractOperation
    BY <1>2, ContractInstance DEF ContractOperation, Contracts!Next, CP!Next
<1>3. CASE Build
    BY <1>3, BuildOfParts, EntityInstance, ContractInstance
    DEF Entities!Next, EP!Next, Contracts!Next, CP!Next
<1>4. ASSUME NEW c \in Component,
             \/ \E d \in Description : AddProtocolComponent(c, d)
             \/ \E t \in Token, b \in Balance : AddBalanceChange(c, t, b)
      PROVE  UNCHANGED entityVars /\ UNCHANGED contractVars
    BY <1>4 DEF AddProtocolComponent, AddBalanceChange
<1>5. ASSUME NEW e \in EntryPoint, AddEntrypoint(e)
      PROVE  UNCHANGED entityVars /\ UNCHANGED contractVars
    BY <1>5 DEF AddEntrypoint
<1>6. CASE UNCHANGED vars
    BY <1>6 DEF vars
<1> QED
    BY <1>1, <1>2, <1>3, <1>4, <1>5, <1>6 DEF Next

LEMMA NextKeepsNames ==
    ASSUME EveryNameKnown, [Next]_vars
    PROVE  EveryNameKnown'
<1>1. CASE Entities!Build /\ Contracts!Build
    <2>1. \A c \in Component : indexer'[c] = [n \in Name |-> indexer'[c][n]]
        <3> SUFFICES ASSUME NEW c \in Component
                     PROVE  indexer'[c] = [n \in Name |-> indexer'[c][n]]
            OBVIOUS
        <3>1. indexer[c] = [n \in Name |-> indexer[c][n]]
            BY DEF EveryNameKnown
        <3>2. indexer'[c] = Entities!Applied(indexer[c], entity_changes[c])
            BY <1>1 DEF Entities!Build
        <3> QED
            BY <3>1, <3>2 DEF Entities!Applied
    <2>2. \A a \in Address : known_tokens'[a] = [t \in Token |-> known_tokens'[a][t]]
        <3> SUFFICES ASSUME NEW a \in Address
                     PROVE  known_tokens'[a] = [t \in Token |-> known_tokens'[a][t]]
            OBVIOUS
        <3>1. known_tokens[a] = [t \in Token |-> known_tokens[a][t]]
            BY DEF EveryNameKnown
        <3>2. known_tokens'[a]
                  = Contracts!AppliedTokens(known_tokens[a], contract_changes[a])
            BY <1>1 DEF Contracts!Build
        <3> QED
            BY <3>1, <3>2 DEF Contracts!AppliedTokens
    <2>3. /\ indexer' = [c \in Component |-> indexer'[c]]
          /\ known_contracts' = [a \in Address |-> known_contracts'[a]]
          /\ known_tokens' = [a \in Address |-> known_tokens'[a]]
        BY <1>1 DEF Entities!Build, Contracts!Build
    <2> QED
        BY <2>1, <2>2, <2>3 DEF EveryNameKnown
<1>2. CASE UNCHANGED <<indexer, known_contracts, known_tokens>>
    BY <1>2 DEF EveryNameKnown
<1>3. CASE EntityOperation
    <2>1. UNCHANGED indexer
        BY <1>3 DEF EntityOperation, Entities!AddEntityChange,
                    Entities!MarkComponentAsUpdated, Entities!ChangeComponentPauseState,
                    Entities!SetOne
    <2> QED
        BY <1>2, <1>3, <2>1 DEF EntityOperation, contractVars
<1>4. CASE ContractOperation
    <2>1. UNCHANGED <<known_contracts, known_tokens>>
        BY <1>4 DEF ContractOperation, Contracts!AddContractChanges,
                    Contracts!AddTokenBalances
    <2> QED
        BY <1>2, <1>4, <2>1 DEF ContractOperation, entityVars
<1>5. CASE UNCHANGED vars
    BY <1>2, <1>5 DEF vars, entityVars, contractVars
<1> QED
    BY <1>1, <1>2, <1>3, <1>4, <1>5, BuildOfParts
    DEF Next, AddProtocolComponent, AddBalanceChange, AddEntrypoint, entityVars, contractVars

-----------------------------------------------------------------------------
(* What is pending in the builder is the difference between what has been  *)
(* reported and what the consumer knows, component by component and        *)
(* balance by balance.                                                     *)
PendingComponent(c) ==
    IF component_changes[c] = NoComponent
    THEN reported.components[c] = delivered.components[c]
    ELSE reported.components[c] = component_changes[c]

PendingBalance(ct) ==
    IF balance_changes[ct] = NoBalance
    THEN reported.balances[ct] = delivered.balances[ct]
    ELSE reported.balances[ct] = balance_changes[ct]

OwnTypeOK ==
    /\ component_changes \in [Component -> Description \cup {NoComponent}]
    /\ balance_changes \in [Component \X Token -> Balance \cup {NoBalance}]
    /\ entrypoints \in SUBSET EntryPoint
    /\ reported \in Books
    /\ delivered \in Books

OwnInv ==
    /\ OwnTypeOK
    /\ \A c \in Component : PendingComponent(c)
    /\ \A ct \in Component \X Token : PendingBalance(ct)

LEMMA AddProtocolComponentKeepsOwn ==
    ASSUME OwnInv, NEW c \in Component, NEW d \in Description, AddProtocolComponent(c, d)
    PROVE  OwnInv'
<1>1. /\ component_changes \in [Component -> Description \cup {NoComponent}]
      /\ reported.components \in [Component -> Description \cup {NoComponent}]
      /\ UNCHANGED <<balance_changes, entrypoints, delivered>>
    BY DEF OwnInv, OwnTypeOK, Books, AddProtocolComponent
<1>2. /\ component_changes' = [component_changes EXCEPT ![c] =
             IF component_changes[c] = NoComponent THEN d ELSE component_changes[c]]
      /\ reported' = [reported EXCEPT !.components = [reported.components EXCEPT ![c] =
             IF reported.components[c] = NoComponent THEN d ELSE reported.components[c]]]
    BY <1>1 DEF OwnInv, OwnTypeOK, Books, AddProtocolComponent
<1>3. OwnTypeOK'
    BY <1>1, <1>2 DEF OwnInv, OwnTypeOK, Books
<1>4. \A e \in Component : PendingComponent(e)'
    <2>1. delivered.components[c] = NoComponent /\ d # NoComponent
        BY BuilderSentinels DEF AddProtocolComponent
    <2>2. \A e \in Component \ {c} : /\ component_changes'[e] = component_changes[e]
                                     /\ reported'.components[e] = reported.components[e]
        BY <1>1, <1>2 DEF OwnInv, OwnTypeOK, Books
    <2>3. /\ component_changes'[c] =
                 IF component_changes[c] = NoComponent THEN d ELSE component_changes[c]
          /\ reported'.components[c] =
                 IF reported.components[c] = NoComponent THEN d ELSE reported.components[c]
        BY <1>1, <1>2 DEF OwnInv, OwnTypeOK, Books
    <2>4. PendingComponent(c)'
        BY <1>1, <2>1, <2>3 DEF OwnInv, PendingComponent
    <2> QED
        BY <1>1, <2>2, <2>4 DEF OwnInv, PendingComponent
<1>5. \A ct \in Component \X Token : PendingBalance(ct)'
    BY <1>1, <1>2 DEF OwnInv, OwnTypeOK, Books, PendingBalance
<1> QED
    BY <1>3, <1>4, <1>5 DEF OwnInv

LEMMA AddBalanceChangeKeepsOwn ==
    ASSUME OwnInv, NEW c \in Component, NEW t \in Token, NEW b \in Balance,
           AddBalanceChange(c, t, b)
    PROVE  OwnInv'
<1>1. /\ balance_changes \in [Component \X Token -> Balance \cup {NoBalance}]
      /\ reported.balances \in [Component \X Token -> Balance \cup {NoBalance}]
      /\ UNCHANGED <<component_changes, entrypoints, delivered>>
      /\ b # NoBalance /\ <<c, t>> \in Component \X Token
    BY BuilderSentinels DEF OwnInv, OwnTypeOK, Books, AddBalanceChange
<1>2. /\ balance_changes' = [balance_changes EXCEPT ![<<c, t>>] = b]
      /\ reported' = [reported EXCEPT !.balances = [reported.balances EXCEPT ![<<c, t>>] = b]]
    BY DEF AddBalanceChange
<1>3. OwnTypeOK'
    BY <1>1, <1>2 DEF OwnInv, OwnTypeOK, Books
<1>4. \A e \in Component : PendingComponent(e)'
    BY <1>1, <1>2 DEF OwnInv, OwnTypeOK, Books, PendingComponent
<1>5. \A ct \in Component \X Token : PendingBalance(ct)'
    <2>1. balance_changes'[<<c, t>>] = b /\ reported'.balances[<<c, t>>] = b
        BY <1>1, <1>2 DEF OwnInv, OwnTypeOK, Books
    <2>2. \A ct \in (Component \X Token) \ {<<c, t>>} :
              /\ balance_changes'[ct] = balance_changes[ct]
              /\ reported'.balances[ct] = reported.balances[ct]
        BY <1>1, <1>2 DEF OwnInv, OwnTypeOK, Books
    <2> QED
        BY <1>1, <2>1, <2>2 DEF OwnInv, PendingBalance
<1> QED
    BY <1>3, <1>4, <1>5 DEF OwnInv

LEMMA AddEntrypointKeepsOwn ==
    ASSUME OwnInv, NEW e \in EntryPoint, AddEntrypoint(e)
    PROVE  OwnInv'
BY DEF OwnInv, OwnTypeOK, Books, AddEntrypoint, PendingComponent, PendingBalance

(* build: a message carries everything that is pending in the builder's    *)
(* own maps; one that is suppressed has nothing pending in them.           *)
LEMMA DeliveryIsComplete ==
    ASSUME OwnInv
    PROVE  Delivery = reported
<1>1. /\ delivered \in Books /\ reported \in Books
      /\ component_changes \in [Component -> Description \cup {NoComponent}]
      /\ balance_changes \in [Component \X Token -> Balance \cup {NoBalance}]
    BY DEF OwnInv, OwnTypeOK
<1> DEFINE components == [c \in Component |->
               IF component_changes[c] = NoComponent THEN delivered.components[c]
                                                     ELSE component_changes[c]]
           balances == [ct \in Component \X Token |->
               IF balance_changes[ct] = NoBalance THEN delivered.balances[ct]
                                                  ELSE balance_changes[ct]]
<1>2. Delivery = [components |-> components, balances |-> balances]
    BY DEF Delivery
<1>3. /\ \A c \in Component : components[c] = reported.components[c]
      /\ \A ct \in Component \X Token : balances[ct] = reported.balances[ct]
    BY DEF OwnInv, PendingComponent, PendingBalance
<1>4. components = reported.components /\ balances = reported.balances
    BY <1>1, <1>3 DEF Books
<1> HIDE DEF components, balances
<1> QED
    BY <1>1, <1>2, <1>4 DEF Books

LEMMA SuppressionIsHarmless ==
    ASSUME OwnInv, IsEmpty(component_changes, balance_changes)
    PROVE  delivered = reported
<1>1. delivered \in Books /\ reported \in Books
    BY DEF OwnInv, OwnTypeOK
<1>2. /\ \A c \in Component : delivered.components[c] = reported.components[c]
      /\ \A ct \in Component \X Token : delivered.balances[ct] = reported.balances[ct]
    BY DEF IsEmpty, OwnInv, PendingComponent, PendingBalance
<1>3. delivered.components = reported.components /\ delivered.balances = reported.balances
    BY <1>1, <1>2 DEF Books
<1> QED
    BY <1>1, <1>3 DEF Books

LEMMA BuildKeepsOwn ==
    ASSUME OwnInv, Build
    PROVE  OwnInv' /\ delivered' = reported
<1>1. /\ delivered' = reported /\ reported' = reported /\ entrypoints' = {}
      /\ component_changes' = [c \in Component |-> NoComponent]
      /\ balance_changes' = [ct \in Component \X Token |-> NoBalance]
    BY DeliveryIsComplete, SuppressionIsHarmless DEF Build, Emit, Suppress
<1> QED
    BY <1>1 DEF OwnInv, OwnTypeOK, PendingComponent, PendingBalance

LEMMA NextKeepsOwn ==
    ASSUME OwnInv, [Next]_vars
    PROVE  OwnInv'
<1>1. CASE EntityOperation \/ ContractOperation \/ UNCHANGED vars
    <2>1. UNCHANGED <<component_changes, balance_changes, entrypoints, reported, delivered>>
        BY <1>1 DEF EntityOperation, ContractOperation, vars, ownVars
    <2> QED
        BY <2>1 DEF OwnInv, OwnTypeOK, PendingComponent, PendingBalance
<1>2. CASE Build
    BY <1>2, BuildKeepsOwn
<1> QED
    BY <1>1, <1>2, AddProtocolComponentKeepsOwn, AddBalanceChangeKeepsOwn,
       AddEntrypointKeepsOwn DEF Next

-----------------------------------------------------------------------------
(* The invariant: that of each part, and of the builder's own books.       *)
Inv == EP!Inv /\ CP!Inv /\ OwnInv /\ EveryNameKnown

(* What the parts assume of their constants, in the words of the instances.*)
LEMMA PartAssumptions ==
    /\ Unset \notin EP!Attribute /\ NoEntity \notin EP!Interim
    /\ Untouched \notin CP!SlotValue /\ NoContract \notin CP!Interim
BY EntityAssumptions, ContractAssumptions
DEF Entities!Attribute, EP!Attribute, Entities!ChangeType, EP!ChangeType,
    Entities!Interim, EP!Interim, Contracts!SlotValue, CP!SlotValue,
    Contracts!Interim, CP!Interim

LEMMA NamesAtFirst == Init => EveryNameKnown
BY DEF Init, Entities!Init, Contracts!Init, EveryNameKnown

LEMMA InitInv == Init => Inv
<1> SUFFICES ASSUME Init PROVE Inv
    OBVIOUS
<1>1. EP!Init /\ CP!Init
    BY EntityInstance, ContractInstance DEF Init
<1>2. EP!Inv
    BY <1>1, EP!InitInv, PartAssumptions, EntityAssumptions
<1>3. CP!Inv
    BY <1>1, CP!InitInv, PartAssumptions, ContractAssumptions
<1>4. OwnInv
    BY DEF Init, OwnInv, OwnTypeOK, Books, PendingComponent, PendingBalance
<1> QED
    BY <1>2, <1>3, <1>4, NamesAtFirst DEF Inv

LEMMA NextInv ==
    ASSUME ~RepeatInFirst, ~UpdateFirst, Inv, [Next]_vars
    PROVE  Inv'
<1>1. EP!Inv'
    BY StepOfParts, EP!NextKeepsInv, PartAssumptions, EntityAssumptions
    DEF Inv, entityVars, EP!vars
<1>2. CP!Inv'
    <2>1. [CP!Next]_(CP!vars)
        BY StepOfParts DEF Inv, contractVars, CP!vars
    <2> QED
        BY <2>1, CP!NextKeepsInv, PartAssumptions, ContractAssumptions DEF Inv
<1>3. OwnInv'
    BY NextKeepsOwn DEF Inv
<1> QED
    BY <1>1, <1>2, <1>3, NextKeepsNames DEF Inv

LEMMA Invariance ==
    ASSUME ~RepeatInFirst, ~UpdateFirst
    PROVE  Spec => []Inv
BY InitInv, NextInv, PTL DEF Spec

(* The maps of the builder, what was reported and what the consumer knows  *)
(* keep their types.                                                       *)
THEOREM TypeCorrect ==
    ASSUME ~RepeatInFirst, ~UpdateFirst
    PROVE  Spec => []TypeOK
<1>1. Inv => TypeOK
    BY EntityInstance, ContractInstance
    DEF Inv, TypeOK, OwnInv, OwnTypeOK, EP!Inv, CP!Inv
<1> QED
    BY <1>1, Invariance, PTL

(* build, is_empty: whenever build is called the consumer comes to hold    *)
(* the components, balances, attributes and contracts reported so far,     *)
(* also when build drops the whole message because it finds it empty.      *)
THEOREM NothingIsSuppressed ==
    ASSUME ~RepeatInFirst, ~UpdateFirst
    PROVE  Spec => SuppressesNothing
<1>1. ASSUME Inv, Build
      PROVE  /\ delivered'.components = reported.components
             /\ delivered'.balances = reported.balances
             /\ indexer' = protocol
             /\ known_contracts' = chain
    <2>1. EP!Build /\ CP!Build
        BY <1>1, BuildOfParts, EntityInstance, ContractInstance DEF Inv
    <2>2. indexer' = protocol
        BY <1>1, <2>1, EP!BuildKeepsInv, PartAssumptions, EntityAssumptions DEF Inv
    <2>3. known_contracts' = chain
        BY <1>1, <2>1, CP!BuildKeepsInv, PartAssumptions, ContractAssumptions DEF Inv
    <2> QED
        BY <1>1, <2>2, <2>3, BuildKeepsOwn DEF Inv
<1> QED
    BY <1>1, Invariance, PTL DEF Spec, SuppressesNothing

(* build: dropping a message that is_empty calls empty leaves the consumer *)
(* where the entity part's and the contract part's own build would have    *)
(* brought it, token balances included; so the whole builder implements    *)
(* each of its parts, and what is proved of a part holds of it.            *)
THEOREM ImplementsItsParts == Spec => Entities!Spec /\ Contracts!Spec
<1>1. Init => Entities!Init /\ Contracts!Init /\ EveryNameKnown
    BY NamesAtFirst DEF Init
<1>2. EveryNameKnown /\ [Next]_vars => EveryNameKnown'
    BY NextKeepsNames
<1>3. EveryNameKnown /\ [Next]_vars =>
          [Entities!Next]_(Entities!vars) /\ [Contracts!Next]_(Contracts!vars)
    BY StepOfParts DEF entityVars, contractVars, Entities!vars, Contracts!vars
<1> QED
    BY <1>1, <1>2, <1>3, PTL DEF Spec, Entities!Spec, Contracts!Spec
=============================================================================
