------------------------ MODULE EntityChangesProofs ------------------------
(***************************************************************************)
(* Proofs about EntityChanges, for every set of components, names and      *)
(* values.  They assume that the first message a transaction brings for a  *)
(* component does not repeat a name (~RepeatInFirst): with repetitions the *)
(* netting loses deletions (RepeatInFirst = TRUE violates PendingIsExact). *)
(***************************************************************************)
EXTENDS EntityChanges, TLAPS

USE EntityNames, EntityValues, AbsentAssumption, EntitySentinels, InterimSentinel
    DEF Interim, AttributeState

LEMMA AttributeTyping ==
    ASSUME NEW attr \in Attribute
    PROVE  /\ attr # Unset
           /\ attr.value \in Value
           /\ attr.change \in ChangeType
           /\ After(attr) \in Value \cup {Absent}
    BY DEF Attribute, After

(* One call of set_attribute: the entry stays sound for the reported value *)
(* and the entries of the other names are left alone.                      *)
LEMMA SetAttributeStep ==
    ASSUME NEW interim \in Interim, NEW n \in Name, NEW attr \in Attribute
    PROVE  /\ SetAttribute(interim, n, attr) \in Interim
           /\ \A m \in Name \ {n} :
                /\ SetAttribute(interim, n, attr).attributes[m] = interim.attributes[m]
                /\ m \in SetAttribute(interim, n, attr).created <=> m \in interim.created
    BY DEF SetAttribute, CreatedAfter

LEMMA SetAttributeKeepsEntry ==
    ASSUME NEW interim \in Interim, NEW n \in Name \ {Marker}, NEW attr \in Attribute,
           NEW known \in Value \cup {Absent}, NEW held \in Value \cup {Absent},
           EntryOK(interim, n, known, held), Legal(held, attr)
    PROVE  EntryOK(SetAttribute(interim, n, attr), n, known, After(attr))
<1> USE AttributeTyping
<1>1. CASE attr.change = "Creation"
  BY <1>1 DEF EntryOK, SetAttribute, CreatedAfter, AppliedTo, After, Legal
<1>2. CASE attr.change = "Update"
  BY <1>2 DEF EntryOK, SetAttribute, CreatedAfter, AppliedTo, After, Legal
<1>3. CASE attr.change = "Deletion"
  BY <1>3 DEF EntryOK, SetAttribute, CreatedAfter, AppliedTo, After, Legal
<1> QED BY <1>1, <1>2, <1>3 DEF ChangeType

(* A list of reports under one name: every attribute of it is legal after  *)
(* the one before, so the entry stays sound to the end of the list.        *)
LEMMA ReportsAreLists ==
    ASSUME NEW held, NEW max, NEW list \in Reports(held, max)
    PROVE  \/ /\ Len(list) = 1
              /\ list[1] \in Attribute
              /\ Legal(held, list[1])
           \/ /\ Len(list) = 2
              /\ list[1] \in Attribute /\ list[2] \in Attribute
              /\ Legal(held, list[1]) /\ Legal(After(list[1]), list[2])
<1>1. CASE \E a \in Attribute : list = <<a>>
  BY <1>1 DEF Reports
<1>2. CASE list \in Attribute \X Attribute
  <2>1. PICK a \in Attribute, b \in Attribute : list = <<a, b>>
    BY <1>2
  <2> QED BY <2>1 DEF Reports
<1> QED BY <1>1, <1>2 DEF Reports, AttributeList

LEMMA LastReport ==
    ASSUME NEW held, NEW max, NEW list \in Reports(held, max)
    PROVE  After(list[Len(list)]) \in Value \cup {Absent}
BY ReportsAreLists, AttributeTyping

LEMMA SetInOrderKeepsEntry ==
    ASSUME NEW interim \in Interim, NEW n \in Name \ {Marker},
           NEW known \in Value \cup {Absent}, NEW held \in Value \cup {Absent},
           EntryOK(interim, n, known, held),
           NEW max, NEW list \in Reports(held, max)
    PROVE  /\ SetInOrder(interim, n, list) \in Interim
           /\ EntryOK(SetInOrder(interim, n, list), n, known, After(list[Len(list)]))
<1>1. CASE /\ Len(list) = 1
           /\ list[1] \in Attribute
           /\ Legal(held, list[1])
  BY <1>1, SetAttributeStep, SetAttributeKeepsEntry DEF SetInOrder
<1>2. CASE /\ Len(list) = 2
           /\ list[1] \in Attribute /\ list[2] \in Attribute
           /\ Legal(held, list[1]) /\ Legal(After(list[1]), list[2])
  <2> DEFINE once == SetAttribute(interim, n, list[1])
  <2>1. once \in Interim /\ EntryOK(once, n, known, After(list[1]))
    BY <1>2, SetAttributeStep, SetAttributeKeepsEntry
  <2>2. After(list[1]) \in Value \cup {Absent}
    BY <1>2, AttributeTyping
  <2>3. /\ SetAttribute(once, n, list[2]) \in Interim
        /\ EntryOK(SetAttribute(once, n, list[2]), n, known, After(list[2]))
    <3> HIDE DEF once
    <3> QED BY <1>2, <2>1, <2>2, SetAttributeStep, SetAttributeKeepsEntry
  <2>4. SetInOrder(interim, n, list) = SetAttribute(once, n, list[2])
    BY <1>2 DEF SetInOrder
  <2> QED BY <1>2, <2>3, <2>4
<1> QED BY <1>1, <1>2, ReportsAreLists

-----------------------------------------------------------------------------
(* Messages                                                                *)

LEMMA MergedKeepsEntries ==
    ASSUME NEW interim \in Interim, NEW known \in AttributeState,
           NEW held \in AttributeState,
           \A n \in Name : EntryOK(interim, n, known[n], held[n]),
           NEW ns \in SUBSET MessageName, NEW msg \in [ns -> AttributeList],
           \A n \in ns : msg[n] \in Reports(held[n], 2)
    PROVE  /\ Merged(interim, msg) \in Interim
           /\ \A n \in Name : EntryOK(Merged(interim, msg), n, known[n],
                   IF n \in ns THEN After(msg[n][Len(msg[n])]) ELSE held[n])
<1> DEFINE out(n) == SetInOrder(interim, n, msg[n])
<1>1. ASSUME NEW n \in ns
      PROVE  /\ out(n) \in Interim
             /\ EntryOK(out(n), n, known[n], After(msg[n][Len(msg[n])]))
  <2>1. n \in Name \ {Marker} /\ EntryOK(interim, n, known[n], held[n])
    OBVIOUS
  <2>2. known[n] \in Value \cup {Absent} /\ held[n] \in Value \cup {Absent}
    BY <2>1
  <2> QED BY <2>1, <2>2, SetInOrderKeepsEntry
<1>2. \A n \in ns : out(n).attributes[n] \in Attribute \cup {Unset}
  BY <1>1
<1> HIDE DEF out
<1>3. Merged(interim, msg) =
        [attributes |-> [n \in Name |->
             IF n \in ns THEN out(n).attributes[n] ELSE interim.attributes[n]],
         created    |-> {n \in Name :
             IF n \in ns THEN n \in out(n).created ELSE n \in interim.created}]
  BY DEF Merged, out
<1>4. Merged(interim, msg) \in Interim
  BY <1>2, <1>3
<1>5. ASSUME NEW n \in Name
      PROVE  EntryOK(Merged(interim, msg), n, known[n],
                 IF n \in ns THEN After(msg[n][Len(msg[n])]) ELSE held[n])
  BY <1>1, <1>3, <1>5 DEF EntryOK
<1> QED BY <1>4, <1>5

LEMMA FirstIsSound ==
    ASSUME NEW known \in AttributeState,
           NEW ns \in SUBSET MessageName, NEW msg \in [ns -> AttributeList],
           \A n \in ns : msg[n] \in Reports(known[n], 1)
    PROVE  /\ First(msg) \in Interim
           /\ \A n \in Name : EntryOK(First(msg), n, known[n],
                   IF n \in ns THEN After(msg[n][Len(msg[n])]) ELSE known[n])
<1>1. ASSUME NEW n \in ns
      PROVE  /\ Len(msg[n]) = 1 /\ msg[n][1] \in Attribute
             /\ DOMAIN msg[n] = {1} /\ Legal(known[n], msg[n][1])
  <2>1. msg[n] \in Reports(known[n], 1)
    OBVIOUS
  <2>2. Len(msg[n]) <= 1 /\ msg[n] \in AttributeList
    BY <2>1 DEF Reports
  <2>3. Len(msg[n]) = 1 /\ msg[n][1] \in Attribute /\ Legal(known[n], msg[n][1])
    BY <2>1, <2>2, ReportsAreLists
  <2>4. DOMAIN msg[n] = 1..Len(msg[n])
    BY <2>2 DEF AttributeList
  <2> QED BY <2>3, <2>4
<1>2. First(msg) =
        [attributes |-> [n \in Name |-> IF n \in ns THEN msg[n][1] ELSE Unset],
         created    |-> {n \in ns : msg[n][1].change = "Creation"}]
  <2>1. DOMAIN msg = ns
    OBVIOUS
  <2>2. \A n \in ns : msg[n][Len(msg[n])] = msg[n][1]
    BY <1>1
  <2>3. \A n \in ns : (\E i \in DOMAIN msg[n] : msg[n][i].change = "Creation")
                        <=> msg[n][1].change = "Creation"
    BY <1>1
  <2>4. [n \in Name |-> IF n \in DOMAIN msg THEN msg[n][Len(msg[n])] ELSE Unset]
        = [n \in Name |-> IF n \in ns THEN msg[n][1] ELSE Unset]
    BY <2>1, <2>2
  <2>5. {n \in DOMAIN msg : \E i \in DOMAIN msg[n] : msg[n][i].change = "Creation"}
        = {n \in ns : msg[n][1].change = "Creation"}
    BY <2>1, <2>3
  <2> QED BY <2>4, <2>5, Zenon DEF First
<1>3. First(msg) \in Interim
  BY <1>1, <1>2
<1>4. ASSUME NEW n \in Name
      PROVE  EntryOK(First(msg), n, known[n],
                 IF n \in ns THEN After(msg[n][Len(msg[n])]) ELSE known[n])
  BY <1>1, <1>2, AttributeTyping DEF EntryOK, AppliedTo, Legal, After
<1> QED BY <1>3, <1>4

-----------------------------------------------------------------------------
(* The specification                                                       *)

Inv == TypeOK /\ NettingInv

(* An operation replaces the entry and the reported state of one component *)
(* by e and p; it keeps the invariant when e is sound for p.               *)
LEMMA OneComponent ==
    ASSUME Inv, NEW c \in Component, NEW e \in Interim, NEW p \in AttributeState,
           \A n \in Name : EntryOK(e, n, indexer[c][n], p[n]),
           entity_changes' = [entity_changes EXCEPT ![c] = e],
           protocol' = [protocol EXCEPT ![c] = p],
           UNCHANGED indexer
    PROVE  Inv'
<1>1. TypeOK'
  BY DEF Inv, TypeOK
<1>2. ASSUME NEW d \in Component
      PROVE  IF entity_changes'[d] = NoEntity
             THEN indexer'[d] = protocol'[d]
             ELSE \A n \in Name :
                    EntryOK(entity_changes'[d], n, indexer'[d][n], protocol'[d][n])
  <2>1. CASE d = c
    <3>1. entity_changes'[d] = e /\ protocol'[d] = p /\ indexer' = indexer
      BY <2>1 DEF Inv, TypeOK
    <3>2. e # NoEntity
      OBVIOUS
    <3> QED BY <2>1, <3>1, <3>2
  <2>2. CASE d # c
    <3>1. entity_changes'[d] = entity_changes[d] /\ protocol'[d] = protocol[d]
      BY <2>2 DEF Inv, TypeOK
    <3> QED BY <3>1 DEF Inv, NettingInv
  <2> QED BY <2>1, <2>2
<1> QED BY <1>1, <1>2 DEF Inv, NettingInv

(* A component without entry is as sound as one with an empty entry.       *)
LEMMA EmptyEntryIsSound ==
    ASSUME Inv, NEW c \in Component, entity_changes[c] = NoEntity
    PROVE  /\ EmptyInterim \in Interim
           /\ \A n \in Name : EntryOK(EmptyInterim, n, indexer[c][n], protocol[c][n])
BY DEF Inv, TypeOK, NettingInv, EmptyInterim, EntryOK, AppliedTo

LEMMA AddEntityChangeKeepsInv ==
    ASSUME ~RepeatInFirst, Inv, NEW c \in Component, AddEntityChange(c)
    PROVE  Inv'
<1> DEFINE Reported(ns, msg) ==
              /\ \A n \in ns : msg[n] \in Reports(protocol[c][n], ReportLimit(c))
              /\ entity_changes' = [entity_changes EXCEPT ![c] =
                     IF @ = NoEntity THEN First(msg) ELSE Merged(@, msg)]
              /\ protocol' = [protocol EXCEPT ![c] = [n \in Name |->
                     IF n \in ns THEN After(msg[n][Len(msg[n])]) ELSE protocol[c][n]]]
              /\ UNCHANGED indexer
<1>0. PICK ns \in SUBSET MessageName : \E msg \in [ns -> AttributeList] : Reported(ns, msg)
  BY DEF AddEntityChange
<1>1. PICK msg \in [ns -> AttributeList] : Reported(ns, msg)
  BY <1>0
<1> DEFINE p == [n \in Name |->
                   IF n \in ns THEN After(msg[n][Len(msg[n])]) ELSE protocol[c][n]]
<1>2. protocol[c] \in AttributeState /\ indexer[c] \in AttributeState
  BY DEF Inv, TypeOK
<1>3. p \in AttributeState
  BY <1>1, <1>2, LastReport
<1>4. protocol' = [protocol EXCEPT ![c] = p] /\ UNCHANGED indexer
  BY <1>1
<1>5. CASE entity_changes[c] = NoEntity
  <2>1. ReportLimit(c) = 1 /\ indexer[c] = protocol[c]
    BY <1>5 DEF ReportLimit, Inv, NettingInv
  <2>2. /\ First(msg) \in Interim
        /\ \A n \in Name : EntryOK(First(msg), n, indexer[c][n], p[n])
    <3>1. \A n \in ns : msg[n] \in Reports(indexer[c][n], 1)
      BY <1>1, <2>1
    <3>2. /\ First(msg) \in Interim
          /\ \A n \in Name : EntryOK(First(msg), n, indexer[c][n],
                IF n \in ns THEN After(msg[n][Len(msg[n])]) ELSE indexer[c][n])
      <4> HIDE DEF p, Reported
      <4> QED BY <1>2, <3>1, FirstIsSound
    <3> QED BY <2>1, <3>2
  <2>3. entity_changes' = [entity_changes EXCEPT ![c] = First(msg)]
    BY <1>1, <1>5
  <2> HIDE DEF p, Reported
  <2> QED BY <1>3, <1>4, <2>2, <2>3, OneComponent
<1>6. CASE entity_changes[c] # NoEntity
  <2>1. ReportLimit(c) = 2
    BY <1>6 DEF ReportLimit
  <2>2. entity_changes[c] \in Interim
    BY <1>6 DEF Inv, TypeOK
  <2>3. \A n \in Name : EntryOK(entity_changes[c], n, indexer[c][n], protocol[c][n])
    BY <1>6 DEF Inv, NettingInv
  <2>4. /\ Merged(entity_changes[c], msg) \in Interim
        /\ \A n \in Name : EntryOK(Merged(entity_changes[c], msg), n, indexer[c][n], p[n])
    <3>1. \A n \in ns : msg[n] \in Reports(protocol[c][n], 2)
      BY <1>1, <2>1
    <3>2. /\ Merged(entity_changes[c], msg) \in Interim
          /\ \A n \in Name : EntryOK(Merged(entity_changes[c], msg), n, indexer[c][n],
                IF n \in ns THEN After(msg[n][Len(msg[n])]) ELSE protocol[c][n])
      <4> HIDE DEF p, Reported, Interim, AttributeState
      <4> QED BY <1>2, <2>2, <2>3, <3>1, MergedKeepsEntries
    <3> QED BY <3>2
  <2>5. entity_changes' = [entity_changes EXCEPT ![c] = Merged(entity_changes[c], msg)]
    BY <1>1, <1>6
  <2> HIDE DEF p, Reported
  <2> QED BY <1>3, <1>4, <2>4, <2>5, OneComponent
<1> QED BY <1>5, <1>6

(* The entry that set_attribute is called on: the component's own, or a    *)
(* new one.                                                                *)
LEMMA OpenedEntry ==
    ASSUME Inv, NEW c \in Component
    PROVE  LET e == IF entity_changes[c] = NoEntity THEN EmptyInterim ELSE entity_changes[c]
           IN  /\ e \in Interim
               /\ \A n \in Name : EntryOK(e, n, indexer[c][n], protocol[c][n])
<1>1. CASE entity_changes[c] = NoEntity
  BY <1>1, EmptyEntryIsSound
<1>2. CASE entity_changes[c] # NoEntity
  BY <1>2 DEF Inv, TypeOK, NettingInv
<1> QED BY <1>1, <1>2

LEMMA SetOneKeepsInv ==
    ASSUME Inv, NEW c \in Component, NEW n \in Name, NEW attr \in Attribute,
           SetOne(c, n, attr),
           \/ n = Marker /\ attr.change = "Update"
           \/ n # Marker /\ Legal(protocol[c][n], attr)
    PROVE  Inv'
<1> DEFINE e == IF entity_changes[c] = NoEntity THEN EmptyInterim ELSE entity_changes[c]
           f == SetAttribute(e, n, attr)
           p == [protocol[c] EXCEPT ![n] = After(attr)]
<1>1. e \in Interim /\ \A m \in Name : EntryOK(e, m, indexer[c][m], protocol[c][m])
  BY OpenedEntry
<1>2. protocol[c] \in AttributeState /\ indexer[c] \in AttributeState
  BY DEF Inv, TypeOK
<1>3. /\ entity_changes' = [entity_changes EXCEPT ![c] = f]
      /\ protocol' = [protocol EXCEPT ![c] = p]
      /\ UNCHANGED indexer
  BY DEF SetOne
<1>4. p \in AttributeState
  BY <1>2, AttributeTyping
<1> HIDE DEF e
<1>5. /\ f \in Interim
      /\ \A m \in Name \ {n} :
            /\ f.attributes[m] = e.attributes[m]
            /\ m \in f.created <=> m \in e.created
  BY <1>1, SetAttributeStep
<1>6. EntryOK(f, n, indexer[c][n], After(attr))
  <2>1. CASE n # Marker /\ Legal(protocol[c][n], attr)
    BY <1>1, <1>2, <2>1, SetAttributeKeepsEntry
  <2>2. CASE n = Marker /\ attr.change = "Update"
    BY <1>1, <2>2, AttributeTyping DEF EntryOK, SetAttribute, CreatedAfter, AppliedTo
  <2> QED BY <2>1, <2>2
<1> HIDE DEF f
<1>7. ASSUME NEW m \in Name
      PROVE  EntryOK(f, m, indexer[c][m], p[m])
  <2>1. CASE m = n
    BY <1>2, <1>6, <2>1
  <2>2. CASE m # n
    BY <1>1, <1>2, <1>5, <2>2 DEF EntryOK
  <2> QED BY <2>1, <2>2
<1> HIDE DEF p
<1> QED BY <1>3, <1>4, <1>5, <1>7, OneComponent

LEMMA BuildKeepsInv ==
    ASSUME Inv, Build
    PROVE  Inv' /\ indexer' = protocol /\ UNCHANGED protocol
<1>1. ASSUME NEW c \in Component
      PROVE  Applied(indexer[c], entity_changes[c]) = protocol[c]
  <2>1. CASE entity_changes[c] = NoEntity
    BY <2>1 DEF Applied, Inv, NettingInv
  <2>2. CASE entity_changes[c] # NoEntity
    BY <2>2 DEF Applied, Inv, TypeOK, NettingInv, EntryOK
  <2> QED BY <2>1, <2>2
<1>2. indexer' = protocol
  BY <1>1 DEF Build, Inv, TypeOK
<1> QED BY <1>2 DEF Build, Inv, TypeOK, NettingInv

LEMMA NextKeepsInv ==
    ASSUME ~RepeatInFirst, Inv, [Next]_vars
    PROVE  Inv'
<1>1. ASSUME NEW c \in Component, AddEntityChange(c)
      PROVE  Inv'
  BY <1>1, AddEntityChangeKeepsInv
<1>2. ASSUME NEW c \in Component, MarkComponentAsUpdated(c)
      PROVE  Inv'
  <2>1. [value |-> One, change |-> "Update"] \in Attribute
    BY DEF Attribute, ChangeType
  <2> QED BY <1>2, <2>1, SetOneKeepsInv DEF MarkComponentAsUpdated
<1>3. ASSUME NEW c \in Component, NEW paused \in BOOLEAN,
             ChangeComponentPauseState(c, paused)
      PROVE  Inv'
  <2> DEFINE attr == IF paused THEN [value |-> One, change |-> "Creation"]
                               ELSE [value |-> Zero, change |-> "Deletion"]
  <2>1. attr \in Attribute
    BY DEF Attribute, ChangeType
  <2>2. SetOne(c, Paused, attr) /\ Legal(protocol[c][Paused], attr)
    BY <1>3 DEF ChangeComponentPauseState
  <2> HIDE DEF attr
  <2> QED BY <2>1, <2>2, SetOneKeepsInv
<1>4. CASE Build
  BY <1>4, BuildKeepsInv
<1>5. CASE UNCHANGED vars
  BY <1>5 DEF Inv, TypeOK, NettingInv, vars
<1> QED BY <1>1, <1>2, <1>3, <1>4, <1>5 DEF Next

LEMMA InitInv == Init => Inv
BY DEF Init, Inv, TypeOK, NettingInv

LEMMA Invariance ==
    ASSUME ~RepeatInFirst
    PROVE  Spec => []Inv
BY InitInv, NextKeepsInv, PTL DEF Spec

(* The builder's map and both attribute states keep their types: no        *)
(* operation writes anything but attributes into the entries.              *)
THEOREM TypeCorrect ==
    ASSUME ~RepeatInFirst
    PROVE  Spec => []TypeOK
<1>1. Inv => TypeOK
  BY DEF Inv
<1> QED BY <1>1, Invariance, PTL

(* Every entry turns what the consumer knows of an attribute into what the *)
(* protocol has: the reason why set_attribute may net as it does.          *)
THEOREM EntriesAreNetted ==
    ASSUME ~RepeatInFirst
    PROVE  Spec => []NettingInv
<1>1. Inv => NettingInv
  BY DEF Inv
<1> QED BY <1>1, Invariance, PTL

(* What is pending, applied to what the consumer knows, is the state of    *)
(* the protocol: netting creations and deletions loses nothing.            *)
THEOREM NettingIsExact ==
    ASSUME ~RepeatInFirst
    PROVE  Spec => []PendingIsExact
<1>1. ASSUME Inv PROVE PendingIsExact
  <2>1. ASSUME NEW c \in Component
        PROVE  Applied(indexer[c], entity_changes[c]) = protocol[c]
    BY <1>1 DEF Applied, Inv, TypeOK, NettingInv, EntryOK
  <2> QED BY <2>1 DEF PendingIsExact
<1> QED BY <1>1, Invariance, PTL

(* The consumer is never told to delete an attribute it does not have.     *)
THEOREM DeletionsAreKnown ==
    ASSUME ~RepeatInFirst
    PROVE  Spec => []NoPhantomDeletion
<1>1. Inv => NoPhantomDeletion
  BY DEF Inv, NettingInv, NoPhantomDeletion, EntryOK
<1> QED BY <1>1, Invariance, PTL

(* The builder implements StateMirror: the consumer's state changes only   *)
(* to the complete state of the protocol.                                  *)
THEOREM ImplementsStateMirror ==
    ASSUME ~RepeatInFirst
    PROVE  Spec => MirrorsProtocol
<1>1. Init => Mirror!Init
  BY DEF Init, Mirror!Init
<1>2. ASSUME Inv, [Next]_vars
      PROVE  [Mirror!Next]_<<protocol, indexer>>
  <2>1. CASE Build
    BY <1>2, <2>1, BuildKeepsInv DEF Mirror!Next, Mirror!Publish
  <2>2. CASE UNCHANGED vars
    BY <2>2 DEF vars
  <2>3. CASE UNCHANGED indexer
    BY <2>3 DEF Mirror!Next, Mirror!Move
  <2>4. Next => Build \/ UNCHANGED indexer
    BY DEF Next, AddEntityChange, MarkComponentAsUpdated, ChangeComponentPauseState, SetOne
  <2> QED BY <1>2, <2>1, <2>2, <2>3, <2>4
<1> QED BY <1>1, <1>2, Invariance, PTL DEF Spec, MirrorsProtocol, Mirror!Spec
=============================================================================
