------------------------ MODULE InterimContractChange ------------------------
(***************************************************************************)
(* InterimContractChange (tycho-substreams, models.rs): the changes of one *)
(* contract collected during one transaction, and what a consumer makes of *)
(* the ContractChange they are converted to.  Operators only:              *)
(* ContractChanges is the builder that uses them, ContractExtraction the   *)
(* helper that fills them from a block.                                    *)
(***************************************************************************)
EXTENDS Naturals

CONSTANTS
    Slot,           \* storage slots
    Word,           \* values of a slot
    Balance,        \* native and token balances
    Code,           \* contract codes
    Token,          \* ERC20 tokens
    Empty,          \* empty bytes: "no change"
    Untouched,      \* no entry in a map of InterimContractChange
    NoContract      \* no entry for the address in the builder

ASSUME EmptyAssumption == Empty \notin Balance \cup Code
ASSUME UntouchedAssumption == Untouched \notin Balance

SlotValue == [start_value : Word, new_value : Word]
ASSUME SlotSentinel == Untouched \notin SlotValue

Interim ==
    [creation : BOOLEAN,
     balance  : Balance \cup {Empty},
     code     : Code \cup {Empty},
     slots    : [Slot -> SlotValue \cup {Untouched}],
     tokens   : [Token -> Balance \cup {Untouched}]]
ASSUME ContractSentinel == NoContract \notin Interim

Account ==
    [exists  : BOOLEAN,
     balance : Balance,
     code    : Code \cup {Empty},
     slots   : [Slot -> Word]]

-----------------------------------------------------------------------------
HasChanged(sv) == sv.start_value # sv.new_value

(* Mutant: the value before the write is taken from the last write.        *)
UpsertWholeSlot(old, sv) == IF sv = Untouched THEN old ELSE sv

(* A slot keeps the value it had before its first change and takes the     *)
(* value of the last one.                                                  *)
UpsertSlot(old, sv) ==
    IF sv = Untouched THEN old
    ELSE IF old = Untouched THEN sv
    ELSE [old EXCEPT !.new_value = sv.new_value]

UnlessEmpty(old, new, empty) == IF new = empty THEN old ELSE new

(* Mutant: the record that comes second replaces the slots of the first.   *)
MergedOverwriting(old, change) ==
    [creation |-> old.creation,
     balance  |-> UnlessEmpty(old.balance, change.balance, Empty),
     code     |-> UnlessEmpty(old.code, change.code, Empty),
     slots    |-> change.slots,
     tokens   |-> [t \in Token |-> UnlessEmpty(old.tokens[t], change.tokens[t], Untouched)]]

(* Mutant: set_code appends to the code of the entry without clearing it.  *)
MergedAppendingCode(old, change) ==
    [creation |-> old.creation,
     balance  |-> UnlessEmpty(old.balance, change.balance, Empty),
     code     |-> IF Empty \in {old.code, change.code}
                  THEN UnlessEmpty(old.code, change.code, Empty)
                  ELSE <<old.code, change.code>>,
     slots    |-> [s \in Slot |-> UpsertSlot(old.slots[s], change.slots[s])],
     tokens   |-> [t \in Token |-> UnlessEmpty(old.tokens[t], change.tokens[t], Untouched)]]

(* add_contract_changes on an address that has an entry: empty parts of    *)
(* the new record leave the entry as it is, the creation flag too.         *)
Merged(old, change) ==
    [creation |-> old.creation,
     balance  |-> UnlessEmpty(old.balance, change.balance, Empty),
     code     |-> UnlessEmpty(old.code, change.code, Empty),
     slots    |-> [s \in Slot |-> UpsertSlot(old.slots[s], change.slots[s])],
     tokens   |-> [t \in Token |-> UnlessEmpty(old.tokens[t], change.tokens[t], Untouched)]]

(* Mutant: contracts without changed slots are dropped.                    *)
DroppedWithoutSlots(interim) ==
    \A s \in Slot : interim.slots[s] = Untouched \/ ~HasChanged(interim.slots[s])

(* ContractChange::is_empty on the converted record; token balances do not *)
(* count.                                                                  *)
IsEmpty(interim) ==
    /\ interim.balance = Empty
    /\ \A s \in Slot : interim.slots[s] # Untouched => ~HasChanged(interim.slots[s])
    /\ interim.code = Empty
    /\ ~interim.creation

(* The slots of the emitted ContractChange: those that really changed.     *)
EmittedSlots(interim) ==
    {s \in Slot : interim.slots[s] # Untouched /\ HasChanged(interim.slots[s])}

(* The consumer: a Creation makes the account known, whatever is not empty *)
(* in the message replaces what was known.                                 *)
Applied(known, interim) ==
    IF interim = NoContract \/ IsEmpty(interim) THEN known
    ELSE [exists  |-> known.exists \/ interim.creation,
          balance |-> UnlessEmpty(known.balance, interim.balance, Empty),
          code    |-> UnlessEmpty(known.code, interim.code, Empty),
          slots   |-> [s \in Slot |-> IF s \in EmittedSlots(interim)
                                      THEN interim.slots[s].new_value
                                      ELSE known.slots[s]]]

AppliedTokens(known, interim) ==
    IF interim = NoContract \/ IsEmpty(interim) THEN known
    ELSE [t \in Token |-> UnlessEmpty(known[t], interim.tokens[t], Untouched)]
=============================================================================
