------------------------ MODULE InterimEntityChanges ------------------------
(***************************************************************************)
(* InterimEntityChanges (tycho-substreams, models.rs): the attributes of   *)
(* one protocol component, collected during one transaction, unique by     *)
(* name, and what a consumer makes of the attributes that are emitted.     *)
(* Operators only: EntityChanges is the builder that uses them, and the    *)
(* integrations' pipelines feed that builder.                              *)
(***************************************************************************)
EXTENDS Naturals, Sequences

CONSTANTS
    Name,           \* attribute names
    Value,          \* attribute values
    Absent,         \* value of an attribute that does not exist
    Unset,          \* no entry for the name in InterimEntityChanges.attributes
    NoEntity        \* no entry for the component in the builder

ASSUME AbsentAssumption == Absent \notin Value

ChangeType == {"Update", "Creation", "Deletion"}
Attribute == [value : Value, change : ChangeType]
ASSUME EntitySentinels == Unset \notin Attribute

Interim == [attributes : [Name -> Attribute \cup {Unset}], created : SUBSET Name]
ASSUME InterimSentinel == NoEntity \notin Interim

AttributeState == [Name -> Value \cup {Absent}]

-----------------------------------------------------------------------------
EmptyInterim == [attributes |-> [n \in Name |-> Unset], created |-> {}]

(* Mutant: every Creation marks its name, entry or not.                    *)
CreatedAlways(interim, n, attr) ==
    IF attr.change = "Creation" THEN interim.created \cup {n} ELSE interim.created

(* The names marked as created once attr is seen: a Creation counts only   *)
(* when the transaction has no entry for the name yet.                     *)
CreatedAfter(interim, n, attr) ==
    IF attr.change = "Creation" /\ interim.attributes[n] = Unset
    THEN interim.created \cup {n}
    ELSE interim.created

(* Mutant: the early return for a freshly created attribute is dropped.    *)
SetWithoutNetting(interim, n, attr) ==
    [attributes |-> [interim.attributes EXCEPT ![n] = attr],
     created    |-> IF attr.change = "Creation" THEN interim.created \cup {n} ELSE interim.created]

SetAttribute(interim, n, attr) ==
    LET created == CreatedAfter(interim, n, attr)
        netted  == attr.change = "Deletion" /\ n \in created
    IN  [attributes |-> [interim.attributes EXCEPT ![n] = IF netted THEN Unset ELSE attr],
         created    |-> created]

(* A message lists attributes; set_attribute reads and writes the entry of *)
(* its own name only, so a message is given by the list of attributes it   *)
(* carries under each of its names.  At most two of them share a name.     *)
AttributeList == {<<a>> : a \in Attribute} \cup (Attribute \X Attribute)

(* The loop of set_attribute calls, as far as the name n is concerned.     *)
SetInOrder(interim, n, list) ==
    LET once == SetAttribute(interim, n, list[1])
    IN  IF Len(list) = 1 THEN once ELSE SetAttribute(once, n, list[2])

Merged(interim, msg) ==
    [attributes |-> [n \in Name |->
         IF n \in DOMAIN msg THEN SetInOrder(interim, n, msg[n]).attributes[n]
                             ELSE interim.attributes[n]],
     created    |-> {n \in Name :
         IF n \in DOMAIN msg THEN n \in SetInOrder(interim, n, msg[n]).created
                             ELSE n \in interim.created}]

(* The first message for a component does not go through set_attribute:    *)
(* its attributes are collected into the map, the last one of a name wins, *)
(* and every name with a Creation counts as created.                       *)
First(msg) ==
    [attributes |-> [n \in Name |->
         IF n \in DOMAIN msg THEN msg[n][Len(msg[n])] ELSE Unset],
     created    |-> {n \in DOMAIN msg :
         \E i \in DOMAIN msg[n] : msg[n][i].change = "Creation"}]

(* What the consumer holds after applying the emitted attributes: a        *)
(* Creation and an Update store the value, a Deletion removes it.          *)
After(attr) == IF attr.change = "Deletion" THEN Absent ELSE attr.value

AppliedTo(known, entry) == IF entry = Unset THEN known ELSE After(entry)

Applied(known, interim) ==
    IF interim = NoEntity THEN known
    ELSE [n \in Name |-> AppliedTo(known[n], interim.attributes[n])]
=============================================================================
