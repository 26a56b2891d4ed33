--------------------------- MODULE EntityChanges ---------------------------
(***************************************************************************)
(* The entity part of TransactionChangesBuilder (tycho-substreams,         *)
(* models.rs): attribute changes of protocol components are collected      *)
(* during one transaction, netted by InterimEntityChanges, and emitted as  *)
(* one list of attributes with unique names per component.                 *)
(*                                                                         *)
(* protocol is what the integration has reported through the builder's     *)
(* operations, indexer what the consumer of the emitted messages knows.    *)
(* Both map a component and an attribute name to a value or to Absent.     *)
(***************************************************************************)
EXTENDS InterimEntityChanges, FiniteSets

CONSTANTS
    Component,      \* component ids
    Paused,         \* the name "paused"
    Marker,         \* the name "update_marker"
    MessageName,    \* the names that entity change messages carry
    Zero, One,      \* the values vec![0u8] and vec![1u8]
    RepeatInFirst   \* may the first message for a component repeat a name?

ASSUME EntityNames ==
    /\ {Paused} \cup MessageName \subseteq Name \ {Marker}
    /\ Marker \in Name
ASSUME EntityValues == {Zero, One} \subseteq Value
ASSUME RepeatInFirstAssumption == RepeatInFirst \in BOOLEAN

VARIABLES
    entity_changes, \* the builder's map of InterimEntityChanges
    protocol,       \* the attributes as the integration reported them
    indexer         \* the attributes as the consumer knows them

vars == <<entity_changes, protocol, indexer>>

TypeOK ==
    /\ entity_changes \in [Component -> Interim \cup {NoEntity}]
    /\ protocol \in [Component -> AttributeState]
    /\ indexer \in [Component -> AttributeState]

-----------------------------------------------------------------------------
(* What an integration reports: the changes it sees on chain, in order.    *)

Legal(held, attr) ==
    IF attr.change = "Creation" THEN held = Absent
    ELSE held # Absent /\ (attr.change = "Deletion" => attr.value = Zero)

(* The lists of at most max attributes that can follow the value held.     *)
Reports(held, max) ==
    {list \in AttributeList :
        /\ Len(list) <= max
        /\ Legal(held, list[1])
        /\ Len(list) = 2 => Legal(After(list[1]), list[2])}

ReportLimit(c) == IF entity_changes[c] = NoEntity /\ ~RepeatInFirst THEN 1 ELSE 2

-----------------------------------------------------------------------------
(* Operations of the builder                                               *)

AddEntityChange(c) ==
    \E ns \in SUBSET MessageName :
    \E msg \in [ns -> AttributeList] :
        /\ \A n \in ns : msg[n] \in Reports(protocol[c][n], ReportLimit(c))
        /\ entity_changes' = [entity_changes EXCEPT ![c] =
               IF @ = NoEntity THEN First(msg) ELSE Merged(@, msg)]
        /\ protocol' = [protocol EXCEPT ![c] = [n \in Name |->
               IF n \in ns THEN After(msg[n][Len(msg[n])]) ELSE protocol[c][n]]]
        /\ UNCHANGED indexer

(* Both helpers below build one attribute and set it on the entry of the   *)
(* component, which they create empty when there is none.                  *)
SetOne(c, n, attr) ==
    /\ entity_changes' = [entity_changes EXCEPT ![c] =
           SetAttribute(IF @ = NoEntity THEN EmptyInterim ELSE @, n, attr)]
    /\ protocol' = [protocol EXCEPT ![c] = [@ EXCEPT ![n] = After(attr)]]
    /\ UNCHANGED indexer

(* Mutant: the marker's change type is left unspecified.                   *)
MarkUnspecified(c) ==
    SetOne(c, Marker, [value |-> One, change |-> "Unspecified"])

MarkComponentAsUpdated(c) ==
    SetOne(c, Marker, [value |-> One, change |-> "Update"])

ChangeComponentPauseState(c, paused) ==
    LET attr == IF paused THEN [value |-> One, change |-> "Creation"]
                          ELSE [value |-> Zero, change |-> "Deletion"]
    IN  /\ Legal(protocol[c][Paused], attr)
        /\ SetOne(c, Paused, attr)

(* Mutant: the builder is reused for the next transaction as it is.        *)
BuildWithoutReset ==
    /\ indexer' = [c \in Component |-> Applied(indexer[c], entity_changes[c])]
    /\ UNCHANGED <<entity_changes, protocol>>

(* build: every component with attributes left is emitted, the builder is  *)
(* consumed and the next transaction starts with an empty one.             *)
Build ==
    /\ indexer' = [c \in Component |-> Applied(indexer[c], entity_changes[c])]
    /\ entity_changes' = [c \in Component |-> NoEntity]
    /\ UNCHANGED protocol

Init ==
    /\ entity_changes = [c \in Component |-> NoEntity]
    /\ protocol = [c \in Component |-> [n \in Name |-> Absent]]
    /\ indexer = protocol

Next ==
    \/ \E c \in Component :
          \/ AddEntityChange(c)
          \/ MarkComponentAsUpdated(c)
          \/ \E paused \in BOOLEAN : ChangeComponentPauseState(c, paused)
    \/ Build

Spec == Init /\ [][Next]_vars

-----------------------------------------------------------------------------
(* Properties                                                              *)

(* TransactionChangesBuilder::build: after every operation, what is        *)
(* pending, applied to what the consumer knows, is the protocol's state.   *)
(* No order of creations, updates and deletions inside a transaction may   *)
(* lose one of them in the netting of set_attribute.                       *)
PendingIsExact ==
    \A c \in Component : Applied(indexer[c], entity_changes[c]) = protocol[c]

(* set_attribute, "remove the creation and don't emit the deletion": the   *)
(* builder never emits the deletion of an attribute the consumer has never *)
(* heard of.                                                               *)
NoPhantomDeletion ==
    \A c \in Component : entity_changes[c] # NoEntity =>
        \A n \in Name : LET attr == entity_changes[c].attributes[n] IN
            attr # Unset /\ attr.change = "Deletion" => indexer[c][n] # Absent

(* Why PendingIsExact holds.  For an attribute the consumer knows as known *)
(* and the protocol holds as held: only names the consumer does not know   *)
(* are marked created; a name it does not know has an entry only if it is  *)
(* marked; the entry turns known into held; a deletion is of a known one.  *)
EntryOK(interim, n, known, held) ==
    LET entry == interim.attributes[n] IN
    /\ n \in interim.created => known = Absent
    /\ entry # Unset /\ known = Absent => n \in interim.created \cup {Marker}
    /\ held = AppliedTo(known, entry)
    /\ entry # Unset /\ entry.change = "Deletion" => known # Absent
    /\ n = Marker => n \notin interim.created

NettingInv ==
    \A c \in Component :
        IF entity_changes[c] = NoEntity
        THEN indexer[c] = protocol[c]
        ELSE \A n \in Name :
                EntryOK(entity_changes[c], n, indexer[c][n], protocol[c][n])

(* The builder implements the promise of StateMirror: the consumer moves   *)
(* only to the complete state of the protocol.                             *)
Mirror == INSTANCE StateMirror WITH source <- protocol, mirror <- indexer
MirrorsProtocol == Mirror!Spec
=============================================================================
