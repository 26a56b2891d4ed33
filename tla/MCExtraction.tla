---------------------------- MODULE MCExtraction ----------------------------
(***************************************************************************)
(* The two extractions of tycho-substreams side by side for TLC: component *)
(* balances from events (BalancePipeline) and contract changes from calls  *)
(* (ContractExtraction, whose instance is X).  They share no state, so one *)
(* of them runs and the other stays where it began.                        *)
(***************************************************************************)
EXTENDS BalancePipeline

CONSTANTS
    Address, Included, Slot, Word, ZeroWord, Code, Empty, Untouched, NoContract,
    MaxNative,      \* bound: largest native balance
    MaxCalls, MaxChanges,
    pool1, pool2, weth, vault, other, s1, w0, w1, code1

VARIABLES
    extraction,     \* which extraction runs: "balances" or "contracts"
    world, before, calls, stack, changes, extracting, contracts, dci

contractVars == <<world, before, calls, stack, changes, extracting, contracts, dci>>

X == INSTANCE ContractExtraction
    WITH indexer <- contracts, MaxBalance <- MaxNative

ASSUME ExtractionBounds == X!ExtractionAssumption

(* The extraction that does not run stays in one of its initial states.    *)
ExtractionInit ==
    /\ extraction \in {"balances", "contracts"}
    /\ Init /\ X!Init
    /\ extraction # "balances" => unseen = [k \in Key |-> 0]
    /\ extraction # "contracts" => world.code = [a \in Address |-> Empty]

ExtractionNext ==
    /\ UNCHANGED extraction
    /\ \/ extraction = "balances" /\ Next /\ UNCHANGED contractVars
       \/ extraction = "contracts" /\ X!Next /\ UNCHANGED vars

ExtractionVars == <<extraction, vars, contractVars>>
ExtractionSpec == ExtractionInit /\ [][ExtractionNext]_ExtractionVars

Pools == Permutations({pool1, pool2})

(* contract.rs, block_storage.rs, see ContractExtraction: the consumer and *)
(* the Dynamic Contract Indexer hold what is on chain.                     *)
StorageExtracted == X!StorageExtracted
BlockStorageExact == X!BlockStorageExact

(* upsert_slot: extracted slots start from the storage before their        *)
(* transaction.                                                            *)
ExtractedFromBefore == X!ExtractedFromBefore
=============================================================================
