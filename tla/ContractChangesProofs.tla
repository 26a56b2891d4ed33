----------------------- MODULE ContractChangesProofs -----------------------
(***************************************************************************)
(* Proofs about ContractChanges, for every set of addresses, slots and     *)
(* values.  They assume that no token record precedes the record with the  *)
(* creation flag (~UpdateFirst); the run ContractCreation shows why.       *)
(***************************************************************************)
EXTENDS ContractChanges, TLAPS

Inv == TypeOK /\ MergeInv

(* Merging a record into an entry keeps both its type and the values the   *)
(* entry started from.                                                     *)
LEMMA MergedType ==
    ASSUME NEW old \in Interim, NEW change \in Interim
    PROVE  Merged(old, change) \in Interim
<1>1. ASSUME NEW s \in Slot
      PROVE  UpsertSlot(old.slots[s], change.slots[s]) \in SlotValue \cup {Untouched}
  BY SlotSentinel DEF Interim, SlotValue, UpsertSlot
<1>2. ASSUME NEW t \in Token
      PROVE  UnlessEmpty(old.tokens[t], change.tokens[t], Untouched) \in Balance \cup {Untouched}
  BY DEF Interim, UnlessEmpty
<1>3. /\ UnlessEmpty(old.balance, change.balance, Empty) \in Balance \cup {Empty}
      /\ UnlessEmpty(old.code, change.code, Empty) \in Code \cup {Empty}
      /\ old.creation \in BOOLEAN
  BY DEF Interim, UnlessEmpty
<1> QED BY <1>1, <1>2, <1>3 DEF Merged, Interim

(* A record that reads the chain's values as its start values extends a    *)
(* sound entry to a sound entry for the values it writes.                  *)
LEMMA MergedKeepsEntry ==
    ASSUME NEW old \in Interim, NEW change \in Interim,
           NEW known \in Account, NEW held \in Account, NEW next \in Account,
           EntryOK(old, known, held),
           \A s \in Slot :
               IF change.slots[s] = Untouched
               THEN next.slots[s] = held.slots[s]
               ELSE /\ change.slots[s].start_value = held.slots[s]
                    /\ change.slots[s].new_value = next.slots[s],
           next.balance = UnlessEmpty(held.balance, change.balance, Empty),
           next.code = UnlessEmpty(held.code, change.code, Empty),
           next.exists
    PROVE  EntryOK(Merged(old, change), known, next)
<1> DEFINE m == Merged(old, change)
<1>1. ASSUME NEW s \in Slot
      PROVE  IF m.slots[s] = Untouched
             THEN next.slots[s] = known.slots[s]
             ELSE /\ m.slots[s].start_value = known.slots[s]
                  /\ m.slots[s].new_value = next.slots[s]
  <2>1. m.slots[s] = UpsertSlot(old.slots[s], change.slots[s])
    BY DEF Merged
  <2>2. /\ old.slots[s] \in SlotValue \cup {Untouched}
        /\ change.slots[s] \in SlotValue \cup {Untouched}
    BY DEF Interim
  <2>3. /\ old.slots[s] = Untouched => held.slots[s] = known.slots[s]
        /\ old.slots[s] # Untouched => /\ old.slots[s].start_value = known.slots[s]
                                       /\ old.slots[s].new_value = held.slots[s]
    BY DEF EntryOK
  <2> HIDE DEF m
  <2>4. CASE change.slots[s] = Untouched
    BY <2>1, <2>3, <2>4 DEF UpsertSlot
  <2>5. CASE change.slots[s] # Untouched /\ old.slots[s] = Untouched
    BY <2>1, <2>3, <2>5 DEF UpsertSlot
  <2>6. CASE change.slots[s] # Untouched /\ old.slots[s] # Untouched
    <3>1. m.slots[s] = [old.slots[s] EXCEPT !.new_value = change.slots[s].new_value]
      BY <2>1, <2>6 DEF UpsertSlot
    <3>2. old.slots[s] \in SlotValue /\ change.slots[s] \in SlotValue
      BY <2>2, <2>6
    <3>3. /\ m.slots[s].start_value = old.slots[s].start_value
          /\ m.slots[s].new_value = change.slots[s].new_value
          /\ m.slots[s] \in SlotValue
      BY <3>1, <3>2 DEF SlotValue
    <3> QED BY <2>3, <2>6, <3>3, SlotSentinel
  <2> QED BY <2>4, <2>5, <2>6
<1>2. next.balance = UnlessEmpty(known.balance, m.balance, Empty)
  <2>1. m.balance = UnlessEmpty(old.balance, change.balance, Empty)
    BY DEF Merged
  <2>2. held.balance = UnlessEmpty(known.balance, old.balance, Empty)
    BY DEF EntryOK
  <2> HIDE DEF m
  <2> QED BY <2>1, <2>2 DEF UnlessEmpty
<1>3. next.code = UnlessEmpty(known.code, m.code, Empty)
  <2>1. m.code = UnlessEmpty(old.code, change.code, Empty)
    BY DEF Merged
  <2>2. held.code = UnlessEmpty(known.code, old.code, Empty)
    BY DEF EntryOK
  <2> HIDE DEF m
  <2> QED BY <2>1, <2>2 DEF UnlessEmpty
<1>4. m.creation <=> ~known.exists
  BY DEF EntryOK, Merged
<1>5. EntryOK(m, known, next)
  <2> HIDE DEF m
  <2> QED BY <1>1, <1>2, <1>3, <1>4 DEF EntryOK
<1> QED BY <1>5

(* An account is determined by its four parts.                             *)
LEMMA AccountExtensionality ==
    ASSUME NEW x \in Account, NEW y \in Account,
           x.exists = y.exists, x.balance = y.balance, x.code = y.code,
           \A s \in Slot : x.slots[s] = y.slots[s]
    PROVE  x = y
BY DEF Account

(* A sound entry, filtered and applied, is the chain's state: a dropped    *)
(* record changed nothing, a filtered slot kept its value.                 *)
LEMMA AppliedIsExact ==
    ASSUME NEW interim \in Interim, NEW known \in Account, NEW held \in Account,
           EntryOK(interim, known, held)
    PROVE  Applied(known, interim) = held
<1>1. CASE IsEmpty(interim)
  <2>1. Applied(known, interim) = known
    BY <1>1 DEF Applied
  <2>2. held.exists = known.exists
    BY <1>1 DEF IsEmpty, EntryOK, Account, Interim
  <2>3. held.balance = known.balance /\ held.code = known.code
    BY <1>1 DEF IsEmpty, EntryOK, UnlessEmpty
  <2>4. \A s \in Slot : held.slots[s] = known.slots[s]
    BY <1>1 DEF IsEmpty, EntryOK, HasChanged
  <2>5. known = held
    BY <2>2, <2>3, <2>4, AccountExtensionality
  <2> QED BY <2>1, <2>5
<1>2. CASE ~IsEmpty(interim)
  <2> DEFINE x == [exists  |-> known.exists \/ interim.creation,
                   balance |-> UnlessEmpty(known.balance, interim.balance, Empty),
                   code    |-> UnlessEmpty(known.code, interim.code, Empty),
                   slots   |-> [s \in Slot |-> IF s \in EmittedSlots(interim)
                                               THEN interim.slots[s].new_value
                                               ELSE known.slots[s]]]
  <2>1. interim # NoContract
    BY ContractSentinel
  <2>2. Applied(known, interim) = x
    BY <1>2, <2>1 DEF Applied
  <2>3. x.exists = held.exists
    BY DEF EntryOK, Account, Interim
  <2>4. x.balance = held.balance /\ x.code = held.code
    BY DEF EntryOK
  <2>5. \A s \in Slot : x.slots[s] = held.slots[s]
    BY DEF EntryOK, EmittedSlots, HasChanged
  <2>6. x \in Account
    <3>1. x.slots \in [Slot -> Word]
      BY <2>5 DEF Account
    <3>2. x.exists \in BOOLEAN
      BY <2>3 DEF Account
    <3>3. x.balance \in Balance /\ x.code \in Code \cup {Empty}
      BY <2>4 DEF Account
    <3> QED BY <3>1, <3>2, <3>3 DEF Account
  <2> HIDE DEF x
  <2>7. x = held
    BY <2>3, <2>4, <2>5, <2>6, AccountExtensionality
  <2> QED BY <2>2, <2>7
<1> QED BY <1>1, <1>2

-----------------------------------------------------------------------------
(* The specification                                                       *)

(* An operation puts one record and moves the chain's state of one address;*)
(* p is that state after the operation, tokens the reported balances.      *)
LEMMA PutKeepsInv ==
    ASSUME Inv, NEW a \in Address, NEW change \in Interim, NEW p \in Account,
           NEW tokens \in [Address -> [Token -> Balance]],
           Put(a, change),
           contract_changes[a] = NoContract => EntryOK(change, indexer[a], p),
           contract_changes[a] # NoContract =>
               EntryOK(Merged(contract_changes[a], change), indexer[a], p),
           chain' = [chain EXCEPT ![a] = p],
           chain_tokens' = tokens,
           UNCHANGED <<indexer, indexer_tokens>>
    PROVE  Inv'
<1> DEFINE e == IF contract_changes[a] = NoContract THEN change
                                                   ELSE Merged(contract_changes[a], change)
<1>1. contract_changes' = [contract_changes EXCEPT ![a] = e]
  BY DEF Put
<1>2. e \in Interim /\ EntryOK(e, indexer[a], p)
  <2>1. CASE contract_changes[a] = NoContract
    BY <2>1
  <2>2. CASE contract_changes[a] # NoContract
    <3>1. contract_changes[a] \in Interim
      BY <2>2 DEF Inv, TypeOK
    <3> QED BY <2>2, <3>1, MergedType
  <2> QED BY <2>1, <2>2
<1> HIDE DEF e
<1>3. TypeOK'
  BY <1>1, <1>2 DEF Inv, TypeOK
<1>4. ASSUME NEW b \in Address
      PROVE  IF contract_changes'[b] = NoContract
             THEN indexer'[b] = chain'[b]
             ELSE EntryOK(contract_changes'[b], indexer'[b], chain'[b])
  <2>1. CASE b = a
    <3>1. contract_changes'[b] = e /\ chain'[b] = p /\ indexer'[b] = indexer[a]
      BY <1>1, <2>1 DEF Inv, TypeOK
    <3>2. e # NoContract
      BY <1>2, ContractSentinel
    <3> QED BY <1>2, <3>1, <3>2
  <2>2. CASE b # a
    <3>1. /\ contract_changes'[b] = contract_changes[b]
          /\ chain'[b] = chain[b] /\ indexer'[b] = indexer[b]
      BY <1>1, <2>2 DEF Inv, TypeOK
    <3> QED BY <3>1 DEF Inv, MergeInv
  <2> QED BY <2>1, <2>2
<1> QED BY <1>3, <1>4 DEF Inv, MergeInv

LEMMA AddContractChangesKeepsInv ==
    ASSUME Inv, NEW a \in Address, AddContractChanges(a)
    PROVE  Inv'
<1> DEFINE next(ss, writes, balance, code) ==
               [exists  |-> TRUE,
                balance |-> UnlessEmpty(chain[a].balance, balance, Empty),
                code    |-> UnlessEmpty(chain[a].code, code, Empty),
                slots   |-> [s \in Slot |-> IF s \in ss THEN writes[s] ELSE chain[a].slots[s]]]
           Reported(ss, creation, balance, code, writes) ==
               /\ Flagged(a, creation, FALSE)
               /\ Put(a, Record(a, creation, writes, balance, code, <<>>))
               /\ chain' = [chain EXCEPT ![a] = next(ss, writes, balance, code)]
               /\ UNCHANGED <<indexer, chain_tokens, indexer_tokens>>
<1>1. PICK ss \in SUBSET Slot, creation \in BOOLEAN,
           balance \in Balance \cup {Empty}, code \in Code \cup {Empty} :
        \E writes \in [ss -> Word] : Reported(ss, creation, balance, code, writes)
  BY DEF AddContractChanges
<1>2. PICK writes \in [ss -> Word] : Reported(ss, creation, balance, code, writes)
  BY <1>1
<1> DEFINE change == Record(a, creation, writes, balance, code, <<>>)
           p == next(ss, writes, balance, code)
<1>3. chain[a] \in Account /\ indexer[a] \in Account
  BY DEF Inv, TypeOK
<1>4. change \in Interim
  BY <1>3 DEF Record, Interim, SlotValue, Account
<1>5. p \in Account
  BY <1>3 DEF Account, UnlessEmpty
<1>6. /\ change.balance = balance /\ change.code = code /\ change.creation = creation
      /\ \A s \in Slot : change.slots[s] = IF s \in ss
            THEN [start_value |-> chain[a].slots[s], new_value |-> writes[s]]
            ELSE Untouched
  BY DEF Record
<1>7. /\ p.exists
      /\ p.balance = UnlessEmpty(chain[a].balance, change.balance, Empty)
      /\ p.code = UnlessEmpty(chain[a].code, change.code, Empty)
      /\ \A s \in Slot : p.slots[s] = IF s \in ss THEN writes[s] ELSE chain[a].slots[s]
  BY <1>6
<1>8. \A s \in Slot :
        IF change.slots[s] = Untouched
        THEN p.slots[s] = chain[a].slots[s]
        ELSE /\ change.slots[s].start_value = chain[a].slots[s]
             /\ change.slots[s].new_value = p.slots[s]
  <2> SUFFICES ASSUME NEW s \in Slot
      PROVE  IF change.slots[s] = Untouched
             THEN p.slots[s] = chain[a].slots[s]
             ELSE /\ change.slots[s].start_value = chain[a].slots[s]
                  /\ change.slots[s].new_value = p.slots[s]
    OBVIOUS
  <2>1. [start_value |-> chain[a].slots[s], new_value |-> writes[s]] # Untouched
        \/ s \notin ss
    BY <1>3, SlotSentinel DEF SlotValue, Account
  <2> HIDE DEF change, p
  <2>2. CASE s \in ss
    <3>1. change.slots[s] = [start_value |-> chain[a].slots[s], new_value |-> writes[s]]
      BY <1>6, <2>2
    <3>2. p.slots[s] = writes[s]
      BY <1>7, <2>2
    <3> QED BY <2>1, <2>2, <3>1, <3>2
  <2>3. CASE s \notin ss
    BY <1>6, <1>7, <2>3
  <2> QED BY <2>2, <2>3
<1>9. /\ Put(a, change) /\ chain' = [chain EXCEPT ![a] = p]
      /\ UNCHANGED <<indexer, chain_tokens, indexer_tokens>>
      /\ creation <=> ~indexer[a].exists
  BY <1>2 DEF Flagged
<1>10. chain_tokens \in [Address -> [Token -> Balance]]
  BY DEF Inv, TypeOK
<1> HIDE DEF change, p, Reported, next
<1>11. contract_changes[a] = NoContract => EntryOK(change, indexer[a], p)
  BY <1>6, <1>7, <1>8, <1>9 DEF EntryOK, Inv, MergeInv
<1>12. contract_changes[a] # NoContract =>
        EntryOK(Merged(contract_changes[a], change), indexer[a], p)
  <2> SUFFICES ASSUME contract_changes[a] # NoContract
      PROVE  EntryOK(Merged(contract_changes[a], change), indexer[a], p)
    OBVIOUS
  <2>1. contract_changes[a] \in Interim
    BY DEF Inv, TypeOK
  <2>2. EntryOK(contract_changes[a], indexer[a], chain[a])
    BY DEF Inv, MergeInv
  <2> QED BY <1>3, <1>4, <1>5, <1>7, <1>8, <2>1, <2>2, MergedKeepsEntry
<1> QED BY <1>4, <1>5, <1>9, <1>10, <1>11, <1>12, PutKeepsInv

LEMMA AddTokenBalancesKeepsInv ==
    ASSUME ~UpdateFirst, Inv, NEW a \in Address, AddTokenBalances(a)
    PROVE  Inv'
<1> DEFINE Reported(ts, tokens) ==
        /\ Flagged(a, FALSE, TRUE)
        /\ Put(a, Record(a, FALSE, <<>>, Empty, Empty, tokens))
        /\ chain_tokens' = [chain_tokens EXCEPT ![a] =
               [t \in Token |-> IF t \in ts THEN tokens[t] ELSE @[t]]]
        /\ UNCHANGED <<chain, indexer, indexer_tokens>>
<1>1. PICK ts \in SUBSET Token : \E tokens \in [ts -> Balance] : Reported(ts, tokens)
  BY DEF AddTokenBalances
<1>2. PICK tokens \in [ts -> Balance] : Reported(ts, tokens)
  BY <1>1
<1> DEFINE change == Record(a, FALSE, <<>>, Empty, Empty, tokens)
<1>3. chain[a] \in Account /\ indexer[a] \in Account /\ chain \in [Address -> Account]
  BY DEF Inv, TypeOK
<1>4. change \in Interim
  BY DEF Record, Interim
<1>5. /\ change.balance = Empty /\ change.code = Empty /\ change.creation = FALSE
      /\ \A s \in Slot : change.slots[s] = Untouched
  BY DEF Record
<1>6. /\ Put(a, change) /\ UNCHANGED <<chain, indexer, indexer_tokens>>
      /\ chain[a].exists
  BY <1>2 DEF Flagged
<1>7. chain_tokens' \in [Address -> [Token -> Balance]]
  BY <1>2 DEF Inv, TypeOK
<1>8. chain' = [chain EXCEPT ![a] = chain[a]]
  BY <1>3, <1>6
<1> HIDE DEF change, Reported
<1>9. contract_changes[a] = NoContract => EntryOK(change, indexer[a], chain[a])
  BY <1>3, <1>5, <1>6 DEF EntryOK, Inv, MergeInv, UnlessEmpty, Account
<1>10. contract_changes[a] # NoContract =>
        EntryOK(Merged(contract_changes[a], change), indexer[a], chain[a])
  <2> SUFFICES ASSUME contract_changes[a] # NoContract
      PROVE  EntryOK(Merged(contract_changes[a], change), indexer[a], chain[a])
    OBVIOUS
  <2>1. contract_changes[a] \in Interim
    BY DEF Inv, TypeOK
  <2>2. EntryOK(contract_changes[a], indexer[a], chain[a])
    BY DEF Inv, MergeInv
  <2>3. /\ chain[a].balance = UnlessEmpty(chain[a].balance, change.balance, Empty)
        /\ chain[a].code = UnlessEmpty(chain[a].code, change.code, Empty)
    BY <1>5 DEF UnlessEmpty
  <2>4. \A s \in Slot :
          IF change.slots[s] = Untouched
          THEN chain[a].slots[s] = chain[a].slots[s]
          ELSE /\ change.slots[s].start_value = chain[a].slots[s]
               /\ change.slots[s].new_value = chain[a].slots[s]
    BY <1>5
  <2> QED BY <1>3, <1>4, <1>6, <2>1, <2>2, <2>3, <2>4, MergedKeepsEntry
<1> QED BY <1>3, <1>4, <1>6, <1>7, <1>8, <1>9, <1>10, PutKeepsInv

LEMMA PendingExact ==
    ASSUME Inv, NEW a \in Address
    PROVE  Applied(indexer[a], contract_changes[a]) = chain[a]
<1>1. CASE contract_changes[a] = NoContract
  BY <1>1 DEF Applied, Inv, MergeInv
<1>2. CASE contract_changes[a] # NoContract
  <2>1. /\ contract_changes[a] \in Interim /\ indexer[a] \in Account /\ chain[a] \in Account
        /\ EntryOK(contract_changes[a], indexer[a], chain[a])
    BY <1>2 DEF Inv, TypeOK, MergeInv
  <2> QED BY <2>1, AppliedIsExact
<1> QED BY <1>1, <1>2

LEMMA BuildKeepsInv ==
    ASSUME Inv, Build
    PROVE  Inv' /\ indexer' = chain /\ UNCHANGED chain
<1>1. indexer' = chain
  BY PendingExact DEF Build, Inv, TypeOK
<1>2. indexer_tokens' \in [Address -> [Token -> Balance]]
  <2>1. ASSUME NEW a \in Address
        PROVE  AppliedTokens(indexer_tokens[a], contract_changes[a]) \in [Token -> Balance]
    <3>1. /\ indexer_tokens[a] \in [Token -> Balance]
          /\ contract_changes[a] \in Interim \cup {NoContract}
      BY DEF Inv, TypeOK
    <3>2. CASE contract_changes[a] = NoContract \/ IsEmpty(contract_changes[a])
      BY <3>1, <3>2 DEF AppliedTokens
    <3>3. CASE ~(contract_changes[a] = NoContract \/ IsEmpty(contract_changes[a]))
      BY <3>1, <3>3 DEF AppliedTokens, UnlessEmpty, Interim
    <3> QED BY <3>2, <3>3
  <2> QED BY <2>1 DEF Build
<1> QED BY <1>1, <1>2 DEF Build, Inv, TypeOK, MergeInv

LEMMA NextKeepsInv ==
    ASSUME ~UpdateFirst, Inv, [Next]_vars
    PROVE  Inv'
<1>1. ASSUME NEW a \in Address, AddContractChanges(a)
      PROVE  Inv'
  BY <1>1, AddContractChangesKeepsInv
<1>2. ASSUME NEW a \in Address, AddTokenBalances(a)
      PROVE  Inv'
  BY <1>2, AddTokenBalancesKeepsInv
<1>3. CASE Build
  BY <1>3, BuildKeepsInv
<1>4. CASE UNCHANGED vars
  BY <1>4 DEF Inv, TypeOK, MergeInv, vars
<1> QED BY <1>1, <1>2, <1>3, <1>4 DEF Next

LEMMA InitInv == Init => Inv
BY ContractValues DEF Init, Inv, TypeOK, MergeInv, Account

LEMMA Invariance ==
    ASSUME ~UpdateFirst
    PROVE  Spec => []Inv
BY InitInv, NextKeepsInv, PTL DEF Spec

(* The builder's map, the chain and the consumer's state keep their types. *)
THEOREM TypeCorrect ==
    ASSUME ~UpdateFirst
    PROVE  Spec => []TypeOK
<1>1. Inv => TypeOK
  BY DEF Inv
<1> QED BY <1>1, Invariance, PTL

(* Every record of a contract turns what the consumer knows of it into     *)
(* what is on chain: the reason why upsert_slot may merge as it does.      *)
THEOREM RecordsAreMerged ==
    ASSUME ~UpdateFirst
    PROVE  Spec => []MergeInv
<1>1. Inv => MergeInv
  BY DEF Inv
<1> QED BY <1>1, Invariance, PTL

(* However records are merged, filtered and dropped, the pending changes   *)
(* applied to the consumer's state are the chain's state.                  *)
THEOREM MergeIsExact ==
    ASSUME ~UpdateFirst
    PROVE  Spec => []PendingIsExact
<1>1. Inv => PendingIsExact
  BY PendingExact DEF PendingIsExact
<1> QED BY <1>1, Invariance, PTL

(* An emitted slot's previous value is the value the consumer has.         *)
THEOREM PreviousValues ==
    ASSUME ~UpdateFirst
    PROVE  Spec => []PreviousValueIsKnown
<1>1. Inv => PreviousValueIsKnown
  BY DEF Inv, MergeInv, EntryOK, PreviousValueIsKnown, EmittedSlots
<1> QED BY <1>1, Invariance, PTL

(* The builder implements StateMirror for contracts.                       *)
THEOREM ImplementsStateMirror ==
    ASSUME ~UpdateFirst
    PROVE  Spec => MirrorsChain
<1>1. Init => Mirror!Init
  BY DEF Init, Mirror!Init
<1>2. ASSUME Inv, [Next]_vars
      PROVE  [Mirror!Next]_<<chain, indexer>>
  <2>1. CASE Build
    BY <2>1, <1>2, BuildKeepsInv DEF Mirror!Next, Mirror!Publish
  <2>2. CASE UNCHANGED vars
    BY <2>2 DEF vars
  <2>3. CASE UNCHANGED indexer
    BY <2>3 DEF Mirror!Next, Mirror!Move
  <2>4. Next => Build \/ UNCHANGED indexer
    BY DEF Next, AddContractChanges, AddTokenBalances
  <2> QED BY <1>2, <2>1, <2>2, <2>3, <2>4
<1> QED BY <1>1, <1>2, Invariance, PTL DEF Spec, MirrorsChain, Mirror!Spec
=============================================================================
