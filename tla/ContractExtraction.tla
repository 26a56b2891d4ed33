------------------------ MODULE ContractExtraction -------------------------
(***************************************************************************)
(* Extraction of contract changes from the calls of a transaction          *)
(* (tycho-substreams, contract.rs and block_storage.rs).  The EVM executes *)
(* a transaction as a stack of calls; the extended block model lists the   *)
(* calls in the order they begin, each with the storage, balance and code  *)
(* changes it made, in ordinals that run over the whole transaction.       *)
(* extract_contract_changes collects the changes of the contracts of       *)
(* interest, get_block_storage_changes those of every account.             *)
(*                                                                         *)
(* The EVM and the block model are external.  As the block in the crate's  *)
(* assets has it: storage written under a delegate call belongs to the     *)
(* caller; both balance changes of a value transfer are listed in the call *)
(* that receives the value; a new balance of zero is no value at all.      *)
(***************************************************************************)
EXTENDS Integers, FiniteSets, SequencesExt

CONSTANTS
    Address,        \* accounts with code or to be created
    Included,       \* those that the inclusion predicate selects
    Outside,        \* the sender of the transactions
    Slot, Word, ZeroWord, Code,
    MaxBalance,     \* bound: largest native balance
    MaxCalls,       \* bound: calls of a transaction
    MaxChanges,     \* bound: transfers and writes of a transaction
    Empty, Untouched, NoContract

Contract == INSTANCE InterimContractChange
    WITH Balance <- 1..MaxBalance, Token <- {}

ExtractionAssumption ==
    /\ Included \subseteq Address /\ Outside \notin Address
    /\ ZeroWord \in Word
    /\ MaxBalance \in Nat /\ MaxCalls \in Nat /\ MaxChanges \in Nat
    /\ Empty \notin Code \cup 0..MaxBalance
    /\ Untouched \notin Contract!SlotValue \cup 0..MaxBalance
    /\ NoContract \notin Contract!Interim

VARIABLES
    world,          \* the chain: storage, balance and code of the accounts
    before,         \* the world when the transaction began
    calls,          \* the calls of the transaction, in the order they begin
    stack,          \* the calls being executed, with the world they began in
    changes,        \* the changes of the transaction, by ordinal
    extracting,     \* the transaction is complete, its changes are due
    indexer,        \* the contracts of interest at the consumer
    dci             \* storage and balances at the Dynamic Contract Indexer

txVars == <<before, calls, stack, changes>>
outVars == <<indexer, dci>>
vars == <<world, txVars, extracting, outVars>>

World ==
    [slots   : [Address \X Slot -> Word],
     balance : [Address -> 0..MaxBalance],
     code    : [Address -> Code \cup {Empty}]]

CallTypes == {"Call", "Delegate", "Create"}
CallRecord == [type : CallTypes, address : Address, caller : Address \cup {Outside},
               context : Address, reverted : BOOLEAN]

ChangesOf(kind, Key, Old, New) ==
    [call : Nat, kind : {kind}, address : Address, key : Key, old : Old, new : New]
NativeAmount == 1..MaxBalance \cup {Empty}
ChangeRecord ==
    ChangesOf("storage", Slot, Word, Word) \cup ChangesOf("balance", {Empty}, NativeAmount, NativeAmount)
        \cup ChangesOf("code", {Empty}, {Empty}, Code)

TypeOK ==
    /\ world \in World /\ before \in World
    /\ calls \in Seq(CallRecord) /\ Len(calls) <= MaxCalls
    /\ stack \in Seq([call : Nat, world : World])
    /\ changes \in Seq(ChangeRecord) /\ Len(changes) <= MaxChanges + MaxCalls
    /\ extracting \in BOOLEAN
    /\ indexer \in [Included -> [exists : BOOLEAN, balance : 0..MaxBalance,
                                 code : Code \cup {Empty}, slots : [Slot -> Word]]]
    /\ dci \in [slots : [Address \X Slot -> Word], balance : [Address -> 0..MaxBalance]]

-----------------------------------------------------------------------------
(* The EVM                                                                 *)

Running == stack # <<>>
Top == stack[Len(stack)].call
Context == IF Running THEN calls[Top].context ELSE Outside

Recorded(c, kind, a, key, old, new) ==
    [call |-> c, kind |-> kind, address |-> a, key |-> key, old |-> old, new |-> new]

(* The block model gives no value for a balance of zero.                   *)
Bytes(balance) == IF balance = 0 THEN Empty ELSE balance

BalanceChanged(c, a, new) ==
    Recorded(c, "balance", a, Empty, Bytes(world.balance[a]), Bytes(new))

(* The value v moves from the executing contract to the account a.         *)
Transfer(c, a, v) ==
    IF v = 0 \/ Context = a THEN <<>>
    ELSE (IF Context = Outside THEN <<>>
          ELSE <<BalanceChanged(c, Context, world.balance[Context] - v)>>)
         \o <<BalanceChanged(c, a, world.balance[a] + v)>>

Begin(type, a, v) ==
    LET c == Len(calls) + 1 IN
    /\ ~extracting /\ (~Running => calls = <<>>) /\ c <= MaxCalls
    /\ type = "Create" <=> world.code[a] = Empty
    /\ type = "Create" => \A i \in DOMAIN calls : calls[i].address # a
    /\ type = "Delegate" => Running /\ v = 0
    /\ Context # Outside => v <= world.balance[Context]
    /\ Context # a => world.balance[a] + v <= MaxBalance
    /\ calls' = Append(calls, [type |-> type, address |-> a, caller |-> Context,
                               context |-> IF type = "Delegate" THEN Context ELSE a,
                               reverted |-> FALSE])
    /\ stack' = Append(stack, [call |-> c, world |-> world])
    /\ world' = [world EXCEPT !.balance =
                     IF Context = a THEN @
                     ELSE [b \in Address |-> IF b = a THEN @[b] + v
                                             ELSE IF b = Context THEN @[b] - v
                                             ELSE @[b]]]
    /\ changes' = changes \o Transfer(c, a, v)
    /\ Len(changes') <= MaxChanges
    /\ UNCHANGED <<before, extracting, outVars>>

Write(s, w) ==
    /\ Running /\ Len(changes) < MaxChanges
    /\ world.slots[<<Context, s>>] # w
    /\ world' = [world EXCEPT !.slots[<<Context, s>>] = w]
    /\ changes' = Append(changes, Recorded(Top, "storage", Context, s, world.slots[<<Context, s>>], w))
    /\ UNCHANGED <<before, calls, stack, extracting, outVars>>

Return(code) ==
    /\ Running
    /\ stack' = Front(stack)
    /\ extracting' = (Len(stack) = 1)
    /\ IF calls[Top].type = "Create"
       THEN /\ world' = [world EXCEPT !.code[Context] = code]
            /\ changes' = Append(changes, Recorded(Top, "code", Context, Empty, Empty, code))
       ELSE UNCHANGED <<world, changes>>
    /\ UNCHANGED <<before, calls, outVars>>

(* The world is what it was before the call; the call and those it made    *)
(* are marked.  A transaction whose first call reverts has failed: the     *)
(* extraction never sees it.                                               *)
Revert ==
    /\ Len(stack) > 1
    /\ stack' = Front(stack)
    /\ world' = stack[Len(stack)].world
    /\ calls' = [i \in DOMAIN calls |-> [calls[i] EXCEPT !.reverted = @ \/ i >= Top]]
    /\ UNCHANGED <<before, changes, extracting, outVars>>

-----------------------------------------------------------------------------
(* extract_contract_changes_generic                                        *)

(* Mutant: delegate calls of an included contract are not looked into.     *)
IncludedAddressOnly(call) == ~call.reverted /\ call.address \in Included

FilteredCall(call) ==
    /\ ~call.reverted
    /\ call.address \in Included \/ (call.caller \in Included /\ call.type = "Delegate")

(* The changes of one kind to the account, by ordinal.                     *)
Collected(kind, a) ==
    {i \in DOMAIN changes : /\ FilteredCall(calls[changes[i].call])
                            /\ changes[i].kind = kind /\ changes[i].address = a}

CreatedAccounts == {calls[i].address : i \in {i \in DOMAIN calls : calls[i].type = "Create"}}

Upserted(slots, i) ==
    [slots EXCEPT ![changes[i].key] = Contract!UpsertSlot(@,
        [start_value |-> changes[i].old, new_value |-> changes[i].new])]

(* The slots after the changes of the set, in the order of their ordinals. *)
Upserts(is) ==
    LET slots[n \in 0..Len(changes)] ==
            IF n = 0 THEN [s \in Slot |-> Untouched]
            ELSE IF n \in is THEN Upserted(slots[n - 1], n) ELSE slots[n - 1]
    IN  slots[Len(changes)]

(* set_balance is called only when there is a new value; set_code always.  *)
LastBalance(a) ==
    LET is == {i \in Collected("balance", a) : changes[i].new # Empty}
    IN  IF is = {} THEN Empty ELSE changes[Max(is)].new

LastCode(a) ==
    LET is == Collected("code", a) IN IF is = {} THEN Empty ELSE changes[Max(is)].new

ContractChanges(a) ==
    IF \A kind \in {"storage", "balance", "code"} : Collected(kind, a) = {}
    THEN NoContract
    ELSE [creation |-> a \in CreatedAccounts,
          balance  |-> LastBalance(a),
          code     |-> LastCode(a),
          slots    |-> Upserts(Collected("storage", a)),
          tokens   |-> <<>>]

-----------------------------------------------------------------------------
(* get_block_storage_changes                                               *)

Kept(kind, a) ==
    {i \in DOMAIN changes : /\ ~calls[changes[i].call].reverted
                            /\ changes[i].kind = kind /\ changes[i].address = a}

(* Mutant: the balance before the transaction is taken from the last       *)
(* change, so that only the last transfer is seen.                         *)
BalanceOfLastChange(a) ==
    LET is == Kept("balance", a)
    IN  IF is = {} \/ changes[Max(is)].old = changes[Max(is)].new THEN Untouched
        ELSE IF changes[Min(is)].new = Empty THEN 0 ELSE changes[Min(is)].new

(* The balance after the last change, unless it equals the one before the  *)
(* first; an empty value is emitted and stands for zero.                   *)
NativeBalance(a) ==
    LET is == Kept("balance", a)
    IN  IF is = {} \/ changes[Min(is)].old = changes[Max(is)].new THEN Untouched
        ELSE IF changes[Max(is)].new = Empty THEN 0 ELSE changes[Max(is)].new

(* The StorageChanges of an account.                                       *)
StorageChangesOf(a) ==
    [slots |-> LET latest == Upserts(Kept("storage", a))
               IN  [s \in Slot |-> IF latest[s] # Untouched /\ Contract!HasChanged(latest[s])
                                   THEN latest[s] ELSE Untouched],
     native_balance |-> NativeBalance(a)]

Extract ==
    /\ extracting
    /\ indexer' = [a \in Included |-> Contract!Applied(indexer[a], ContractChanges(a))]
    /\ dci' = [slots |-> [as \in Address \X Slot |->
                   LET sv == StorageChangesOf(as[1]).slots[as[2]]
                   IN  IF sv = Untouched THEN dci.slots[as] ELSE sv.new_value],
               balance |-> [a \in Address |->
                   LET b == StorageChangesOf(a).native_balance
                   IN  IF b = Untouched THEN dci.balance[a] ELSE b]]
    /\ before' = world
    /\ calls' = <<>>
    /\ changes' = <<>>
    /\ extracting' = FALSE
    /\ UNCHANGED <<world, stack>>

Init ==
    /\ world \in {[slots   |-> [as \in Address \X Slot |-> ZeroWord],
                   balance |-> [a \in Address |-> 0],
                   code    |-> code] : code \in [Address -> Code \cup {Empty}]}
    /\ before = world
    /\ calls = <<>>
    /\ stack = <<>>
    /\ changes = <<>>
    /\ extracting = FALSE
    /\ indexer = [a \in Included |->
           [exists |-> world.code[a] # Empty, balance |-> 0, code |-> world.code[a],
            slots |-> [s \in Slot |-> ZeroWord]]]
    /\ dci = [slots |-> world.slots, balance |-> world.balance]

Next ==
    \/ \E type \in CallTypes, a \in Address, v \in 0..1 : Begin(type, a, v)
    \/ \E s \in Slot, w \in Word : Write(s, w)
    \/ \E code \in Code : Return(code)
    \/ Revert
    \/ Extract

Spec == Init /\ [][Next]_vars

-----------------------------------------------------------------------------
(* Properties                                                              *)

BetweenTxs == calls = <<>>

(* extract_contract_changes, "mapped accurately to their originating       *)
(* transactions": whatever calls, reentrant, delegate or reverted, a       *)
(* transaction makes, the consumer then holds the storage, the code and    *)
(* the existence of every contract of interest.                            *)
StorageExtracted ==
    BetweenTxs => \A a \in Included :
        /\ \A s \in Slot : indexer[a].slots[s] = world.slots[<<a, s>>]
        /\ indexer[a].code = world.code[a]
        /\ indexer[a].exists <=> world.code[a] # Empty

(* upsert_slot: the changes extracted from a transaction start from the    *)
(* storage before it, and list only slots that differ after it.            *)
ExtractedFromBefore ==
    [][Extract => \A a \in Included : ContractChanges(a) # NoContract =>
        \A s \in Contract!EmittedSlots(ContractChanges(a)) :
            /\ ContractChanges(a).slots[s].start_value = before.slots[<<a, s>>]
            /\ before.slots[<<a, s>>] # world.slots[<<a, s>>]]_vars

(* get_block_storage_changes, "extract all storage changes on a block":    *)
(* the Dynamic Contract Indexer holds the storage and the native balance   *)
(* of every account.                                                       *)
BlockStorageExact ==
    BetweenTxs => dci = [slots |-> world.slots, balance |-> world.balance]

(* extract_contract_changes, "collects changes to contract storage, code,  *)
(* and native balance for contracts of interest".                          *)
NativeBalanceExtracted ==
    BetweenTxs => \A a \in Included : indexer[a].balance = world.balance[a]
=============================================================================
