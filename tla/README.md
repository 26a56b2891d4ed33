# Verification of the Tycho protocol SDK

TLA+ models of the parts of this repository that carry its logic, the TLC runs
that check them on small instances, and TLAPS proofs of the core for every
instance. `src/` below is the root of the repository.

1. [The system](#1-the-system)
2. [Which module models what](#2-which-module-models-what)
3. [The runs](#3-the-runs)
4. [Bounds, symmetry, fairness](#4-bounds-symmetry-fairness)
5. [What is proved](#5-what-is-proved)
6. [Deviations of the code from its documentation](#6-deviations-of-the-code-from-its-documentation)
7. [What is not modelled, and what is assumed](#7-what-is-not-modelled-and-what-is-assumed)
8. [The plan](#8-the-plan)

## 1. The system

DeFi protocols are integrated into Tycho as *substreams packages*: chains of
WASM modules that a substreams node runs over the blocks of a chain. A *map*
module is a pure function of the block, of other modules' outputs and of
stores; a *store* module folds outputs into a key-value store with one update
policy (set, set-if-not-exists, add). The last map emits, per transaction, the
changes of the protocol's components (pools). The Tycho indexer, which is not
in this repository, applies these messages in order and so keeps a *mirror* of
the protocol. The mirror is what the whole system is for: every property of an
integration here says that the consumer's mirror equals the protocol.

| part | state | operations | what must hold |
|---|---|---|---|
| `TransactionChangesBuilder` (`crates/tycho-substreams/src/models.rs`) | the changes of one transaction: components, attributes and which of them were created, contract slots with start and current value, balances, entry points | `add_*`, `mark_component_as_updated`, `change_component_pause_state`, `build` | the message brings the consumer to the state reported, nothing is lost by netting or by the emptiness tests, no deletion of what the consumer does not have |
| Contract extraction (`contract.rs`, `block_storage.rs`) | interim contracts of one transaction | `extract_contract_changes(_builder)`, `get_block_storage_changes` | storage, code and native balance the calls of a transaction left, whatever reverted or re-entered |
| Component balances (`balances.rs`) | the additive store of balances | delta extraction, `store_balance_changes`, `aggregate_balances_changes` | per transaction, the absolute balance at its end, not at the end of the block |
| Uniswap v3, logs only | stores of pools, ticks, current tick, liquidity | six map and store modules | tick, liquidity, net liquidities and fees per transaction |
| Uniswap v3, traces | stores of pools and balances | five modules over events and the storage changes of their calls | the tracked storage per transaction, balances per block |
| Uniswap v2 | store of pools | three modules | reserves per transaction, also for pools created in the block |
| Lido | store of four storage slots | three modules; the replay of the store's deltas | pooled ether, shares, staking state per transaction, alike for stETH and wstETH |
| Ambient | stores of pools and balances | four modules with contract changes of their own | storage, native balance and code per transaction, balances where the calls' indices allow it |
| Balancer v3 | stores of pools, token sets and balances | six modules in one file | pools, pause states, balances, contracts; the vault's reserves; update markers |
| Ekubo v2 | stores of ticks, liquidity, order and active sale rates, pool details, balances | fifteen modules, four of them zips of deltas | whatever later time the consumer executes orders up to, it sells at the pool's rate |
| ERC4626 | stores of balances and of first interactions | six modules in one file | entry points come once, with the first use |
| Curve | stores of tokens and balances | five modules in one file | balances in ETH (from calls) and tokens (from logs), oracles' entry points |
| Uniswap v4, Balancer v2, Maverick, sFrax, sFraxEth, v3 forks, templates | the same kinds of stores | the same pipeline with other events | the same |
| `protocol-testing` | the process's thread and channel, files of the package, a database, child processes | `range` and `full` | a test is judged on its own data; servers and files are cleaned up; a range run ends; a full run comes to its stream and executes only updates simulated in whole |
| `evm/` adapters | none of their own | Solidity adapters over third-party contracts | arithmetic of foreign contracts |

**Interaction.** Within a package: map output to store deltas to the next map,
all at block granularity, which is the source of the main difficulty: a module
reads *stores as of the end of the previous block or with all deltas of this
one*, but must produce values *per transaction*. Between packages and the
library: calls of the builder and of the helpers, in the order a package
chooses. Between a package and the consumer: messages per transaction, applied
by index. In the harness: a main thread, an RPC thread joined through a
channel, child processes that outlive both, files and a database that outlive
the run.

**Hard behaviours.** Orders: several reports of one name, pool or contract in
one transaction and in several transactions of one block; ordinals that order
logs, calls and store deltas; a creation and first uses in one transaction.
Netting: a change that is undone, a deletion of what was created. Partial
views: balances from before the first indexed block, reverted calls, calls of
delegates. Emptiness tests that suppress messages. In the harness: threads,
crashes, failures of one step of many. There is no shared memory and no
persistence of its own in a substreams package, so no interleaving or crash
hazard is claimed there.

## 2. Which module models what

`StateMirror` is the abstract specification of the builder: an environment
changes `source` freely, and the consumer's `mirror` moves only by `Publish`,
which makes it equal to the whole of `source`. Both builder modules are
shown to implement it.

| module | code | variables and their code |
|---|---|---|
| `InterimEntityChanges` | `models.rs` 449-508 | no state: `SetAttribute` and `Sent` are `set_attribute` and the conversion into a message |
| `EntityChanges` | `models.rs` 85-165, 202-218 | `entity_changes`: the builder's map; `protocol`: what the integration reported; `indexer`: the consumer's attributes. Actions `AddEntityChange`, `MarkComponentAsUpdated`, `ChangeComponentPauseState`, `Build` |
| `InterimContractChange` | `models.rs` 511-651 | no state: upserts of slots and balances, merge, conversion, `is_empty` |
| `ContractChanges` | `models.rs` 44-72, 202-218 | `contract_changes`: the builder's map; `chain`: the contracts; `indexer`: the consumer's copy. An action reports what one record of a transaction says of a contract, the start values included, then `Build` |
| `TxBuilder` | `models.rs` 24-39, 167-237, 635-651 | `INSTANCE`s of the two modules above, and components, balances, entry points; `Build` drops the whole message (`Suppress`) if `IsEmpty` holds of it, else does both parts' `Build` and delivers the books (`Emit`). What becomes of entry points at the consumer is not followed |
| `ContractExtraction` | `contract.rs`, `block_storage.rs` | a transaction as a tree of calls that change storage, code and native balances, revert, delegate and create; `changes`: what they changed, at the index that stands for the ordinal, so that `Upserts` goes through the collected changes as the code does after sorting them; then both extractions over the resulting trace; uses the interim contracts |
| `BalancePipeline` | `balances.rs` | `store`, the chain's balances, the deltas of the block, the consumer's balances; one action per phase: transactions, delta extraction, store, aggregation, application |
| `LiquidityPipeline` | `ethereum-uniswap-v3-logs-only/src/modules` | pools with positions, the event list of the block, the stores of liquidity, ticks and current tick, the messages; uses `InterimEntityChanges` for the messages |
| `UniswapV2` | `ethereum-uniswap-v2/src/modules` | pools, the events of the block, the store of pools, the messages of `merge_block`, the consumer's books |
| `UniswapV3Storage` | `ethereum-uniswap-v3/src` | a pool's storage and what burns left to collect; each event with the storage before and after its call, and in between for a call that writes the price slot twice, and the attributes its handler looks for (`Locations`, `ChangedAttributes`); the balance store; `MapPoolEvents` is `map_pool_events` with the merge of several events of a transaction |
| `LidoState` | `ethereum-lido/src/modules` | a stack of traced calls that write slots, return or fail; `stores`: the four slots; `deltas`: the store's operations, named by the writes they come from (`Sets`), replayed in the order of the calls (`Earlier`) by `TotalAfter` from `InitialValueForBlock` |
| `AmbientPipeline` | `ethereum-ambient/src/modules` | calls with their index in the transaction, `MapPoolChanges` sorts by it, the store sums up in that order; `MapChanges` joins balances and pools with the contract: `Slots` merges the storage changes call by call, `NativeBalance` and `Deployed` take native balance and code |
| `DeltaStores` | `balances.rs` 61-171 | no state: the additive store and its aggregation as operators, for `UniswapV3Storage` and three of the modules below |
| `SequenceFolds` | none | no state: `Last`, `Front`, `FoldLeft`, `FlattenSeq` as recursive functions, for modules instantiated by `MCIntegrations`: `SequencesExt` would bring the operators of `Bags` and `TLC` into each instance, with which proofs take twice as long |
| `BalancerV3` | `ethereum-balancer-v3/src/modules.rs` | pools, pause states, pool contracts, reserves; `Settle`, `SendTo`, `Wrap` are the vault calls whose reserves `VaultReserves` accounts |
| `EkuboTwamm` | `ethereum-ekubo-v2/src/modules` | a pool with time, positions and orders; `Executed` is the virtual execution of orders; the logs of the block; one list of changes per store, and `Zipped` |
| `Erc4626` | `ethereum-erc4626/src/modules.rs` | deployed vaults and their uses; `stores.first`: the store that ignores all but the first interaction; `EntryPoints` |
| `CurvePools` | `ethereum-curve/src` | a stack of calls with value, logs with ordinals; `EthDeltas` and `Erc20Deltas`, sorted together; `TxChanges` drops empty transactions; `OracleCalls` is about the pools created with an oracle |
| `Harness` | `protocol-testing/src` (range mode) | `pc`, `k`: the main thread; `thread`, `chan`: the RPC thread; `servers`: child processes on the machine; `files`: `substreams.yaml`, its backup, the spkg; `db`; `data`, `engine`: what `run_test` holds and the global `SHARED_TYCHO_DB` |
| `FullMode` | `protocol-testing/src` (full mode) | `step`: the main thread; `index`: the thread that runs the indexer; `indexers`: such processes on the machine, also of earlier runs; `indexed`: the database; `known`: `protocol_components`; `update`: what live testing is at; `todo`: the states that `run_simulation` has not come to; `execution_data`: those it has prepared. `SimulateState` is one turn of its loop, `SimulationFails` its return at the first state that is missing or fails |

Every module states its properties next to its specification; `MC*` modules
only name model values, bounds' definitions and symmetries. Three of them put
several models side by side: `MCExtraction` (`BalancePipeline` and
`ContractExtraction`), `MCHarness` (`Harness` and `FullMode`) and
`MCIntegrations` (`UniswapV2` and the seven others, each an `INSTANCE`). These
parts do not interact: packages run apart, one in each behaviour, which a
variable of the module chooses at the start. The state space is the sum of
theirs, and a property holds of the whole exactly if it holds of the part it
names. `*Proofs` modules hold theorems, see section 5.

The integration modules share their shape: `chain` and `block` are the
protocol and the block being mined, with the state after each transaction
(`block.txEnd`); `phase` goes through the package's modules in the order of its
manifest; `stores`, `deltas` and `message` are what these keep and emit;
`indexer` is the consumer.

Definitions whose comment begins with *Mutant* are deliberate bugs, reached by no specification:
substituted for the definition they vary, each makes the property it is listed
with fail, which shows that the property has teeth.

Conventions: an absent key is a model value (`Absent`, `NoContract`, `None`);
maps are total functions into that extended range. Addresses, slots, tokens
and attribute names are uninterpreted; amounts are small integers where sums
matter and uninterpreted where they are only stored.

## 3. The runs

| run | question it answers |
|---|---|
| `entity_netting` | Does any sequence of creations, updates, deletions, markers and pause flips of attributes, over several transactions, bring the consumer to the reported state, without deleting the unknown (`PendingIsExact`, `NoPhantomDeletion`), and does it implement `StateMirror` (`MirrorsProtocol`)? `NettingInv` is the inductive invariant of the proof, checked first. |
| `contract_merging` | The same of the records about contracts, however they are merged and filtered (`PendingIsExact`, `MirrorsChain`); every slot emitted starts from the value the consumer holds (`PreviousValueIsKnown`). `MergeInv` is the inductive invariant. |
| `tx_builder` | `build` drops the whole message when it finds it empty: does the consumer have every component, balance, attribute and contract as reported after each `build`, whatever was netted and merged (`SuppressesNothing`)? |
| `extraction` | Contracts: do storage and code left by a transaction of nested, reverted, delegate and creating calls reach the consumer (`StorageExtracted`), with start values from before the transaction (`ExtractedFromBefore`), and does the block-storage message hold storage and native balances of all accounts (`BlockStorageExact`)? Balances: is the one emitted for a transaction that at its end although the store has a whole block folded in (`BalancesPerTransaction`), is the mirror right after the block (`BalancesMirrored`), the store exact with balances from before the first block (`StoreIsExact`)? |
| `v3_liquidity` | After each transaction, are tick, liquidity, fees and net liquidities at the consumer those of the pool (`MirroredPerTransaction`), with deletions only of ticks the consumer holds (`DeletesHeldTicksOnly`), and stores equal to the pool's state (`StoresExact`)? |
| `integrations` | In the other integrations, does the consumer hold what is on chain? Uniswap v2: reserves and balances after each transaction (`UniswapMirrored`), no change of a pair not announced (`KnownPoolsOnly`). Lido: reports at the end of their transaction although a block's deltas are replayed at once (`LidoMirrored`). Ambient: code, storage and native balance after each transaction, in whatever order the calls' indices come, and the balances of pools whose calls do not fall back in their index (`AmbientMirrored`). Balancer v3: pools, pause states, balances, contracts, reserves, update markers in their order (`BalancerMirrored`). Ekubo: sale rates at every later time, deletions of held names only (`EkuboExecutes`). ERC4626: entry points once, with the first use (`VaultsTraced`). Curve: legal and exact deltas of logs and calls together, entry points of oracle pools only (`CurveMirrored`). Uniswap v3 from traces: the tracked storage per transaction (`V3StorageMirrored`). |
| `harness` | Whatever fails, panics, is killed or crashes: does every run end (`RunEnds`), without a server on any path but a kill or a panic (`ServerAccounted`), with each test answered by its own server (`AnsweredByOwnServer`), on its own database and engine state (`PassRestsOnOwnState`), with the package file recoverable (`YamlRecoverable`) and an honest exit status (`OkMeansAllPassed`)? In full mode, does the wait for a sync end while its indexer lives (`SyncWaitEnds`), and is an update executed only if every state of it was simulated, although the first failure ends its simulation and the stream goes on (`WholeUpdatesExecuted`)? `LifecycleInv` is the inductive invariant. |
| `contract_tokens`, `balance_self_transfer`, `native_balances`, `ambient_balances`, `harness_executions` | Violations: the code against its documentation, see section 6. |

`TypeOK` is checked in `entity_netting`, `contract_merging`, `harness` and of
each part in `integrations`.

## 4. Bounds, symmetry, fairness

All bounds are constants of the configurations.

- `EntityChanges`: one component, three names (one only settable, the pause
  flag, the marker), two values. Names do not interact except through the
  emptiness of the component's change; three suffice for "one nets to nothing,
  another does not". Unbounded transactions: the state space is finite.
- `ContractChanges`: one contract, two slots of three words (start, other,
  third: an update of an update that is not a restoration needs three).
  Unbounded transactions. `TxBuilder` takes one component with a pause flag and
  a marker, one contract with one slot and a token balance, one entry point: its
  question is about emptiness of the parts together, and each of them can be
  empty from the start or come to nothing by netting. Code is left to
  `ContractChanges`.
- `ContractExtraction`: `MaxCalls` 3 (a call that calls and re-enters),
  `MaxChanges` 3 per transaction, two accounts, one of interest.
- `BalancePipeline`: two pools, amounts 1 and 2, balances up to 2, up to
  `MaxLogs` 3 logs and 2 transactions a block, `MaxUnseen` 1 token held
  before the first block. Two transactions are the least that tell the end of
  a transaction from the end of the block, three logs put two into one.
- `LiquidityPipeline`: two adjacent ranges (they share a tick, whose net
  liquidity cancels), three ticks, `MaxPosition` 1, 3 events, 2 transactions.
- `UniswapV2`: two pairs, two nonzero reserves, 4 events, 2 transactions.
- `UniswapV3Storage`: one pool (its lock admits one call at a time, and pools
  share no storage), one range, amounts up to 1, 2 events a block. An event of the
  block before leaves what the third would have been preceded by.
- `LidoState`: two traced calls, one in the other or after it, two writes,
  2 transactions, words 0 and 1; three slots written: two of those that the total adds
  up, and one outside the store. The proof has all seven slots and any bounds.
- `AmbientPipeline`: two pools, 3 calls at indices 1 to 3 (the creation of the
  contract is one of them), 2 transactions, so that a later transaction may have the
  smaller index; `ambient_balances` needs no more than one pool.
- `BalancerV3`: one pool of two tokens, balances and reserves up to 1, 2 events of 2
  transactions: a pair of events meets in one transaction or in two.
- `EkuboTwamm`: ticks 0 and 1 around one range, three orders that start, end and
  meet at times 0 to 3, 2 calls. The execution of orders that is due adds a log
  of its own to a call.
- `Erc4626`: two vaults, amounts 0 (an event that moves nothing) and 1, 3 events.
- `CurvePools`: one pool of ETH and the token with two contracts, created with an oracle
  or without, 3 calls and logs.
- `Harness`: two tests, two runs: what one test or run leaves, the next one
  meets. The second run may reuse the database. `FullMode`: two components, so that an
  update has states of one announced before; two runs, so that the indexer of the
  first may hold the port. Its stream of updates is unbounded.

Multi-block behaviour is unbounded in all pipeline models: a block ends in the
state the next begins with. Symmetry is declared only for interchangeable
model values that no definition distinguishes: pools in `BalancePipeline`,
pairs and reserves in `UniswapV2` (no other part of `MCIntegrations` names them), the two
descriptions of a component in `TxBuilder`, all in runs without liveness.

*Cases set aside by a constant.* A behaviour of the code that is known to go wrong,
or that depends on something outside this repository, is in the model under a
constant that the passing run sets to `FALSE`: `SelfTransfer`
(`balance_self_transfer` sets it), Lido's
`LateWrites`, Ekubo's `CallOrder`, and the two of the builder (section 5).
Section 6 says of each what happens otherwise. Ambient has no such constant: calls
come with indices in any order, and what goes wrong then (`ambient_balances`) is
kept out by the property about balances, per pool (`InOrder`).

Fairness is assumed only in `Harness` and `FullMode`, where liveness properties are stated. In `Harness`:
weak fairness of the main thread's steps and of the RPC thread's (operating
system scheduling of two threads that block on nothing else), and of the
indexer's exit (it is given `--stop-block`, and its output pipes are drained
by threads of their own). In `FullMode` likewise of both threads (the main thread
retries its request for ever, and a server that stays up answers some time), and
of an indexer that lives: it listens once the port is free and indexes what the
protocol has. Without an indexer the wait does not end, which `SyncWaitEnds`
says by its second case: the loop does not notice that the index thread has ended.
Nothing is assumed of servers' and indexers' exits, kills, failures, updates or of
a further run being started. Deadlock is checked in all runs except the
harness runs: a machine on which no further run is started stops.

## 5. What is proved

Theorems hold for every value of the constants that satisfies the assumptions
named below. Where a run checks several models side by side, the theorems about
each model are carried over to the module the run checks.

| module | about |
|---|---|
| `EntityChangesProofs`, `ContractChangesProofs` | the two parts of the builder, and that each implements `StateMirror` |
| `TxBuilderProofs` | the whole builder, from the proved parts |
| `ExtractionProofs` | `BalancePipeline`; `ContractExtraction`, as the instance `X` of `MCExtraction`, whose constants are parameters; then both extractions side by side |
| `IntegrationProofs` | `UniswapV2`; then Uniswap v2, `Erc4626`, `UniswapV3Storage` and `AmbientPipeline` beside the other packages (`MCIntegrations`) |
| `BalancerLidoProofs` | the same of `BalancerV3` and `LidoState` |
| `LiquidityPipelineProofs` | `LiquidityPipeline`: its stores, and what builders and consumer make of them, with facts about sums over positions and about lists |
| `HarnessProofs` | `Harness`, `FullMode`, and the machine that runs both (`MCHarness`) |

| theorem | statement |
|---|---|
| `TypeCorrect` (in each but `LiquidityPipelineProofs` and `BalancerLidoProofs`), `ContractTypes` | `Spec => []TypeOK` |
| `EntriesAreNetted`, `RecordsAreMerged` | `[]NettingInv`, `[]MergeInv`: what every entry of the builder says of the consumer and of the protocol |
| `NettingIsExact`, `MergeIsExact` | `[]PendingIsExact`: at every moment, what `build` would send brings the consumer to what was reported |
| `DeletionsAreKnown` | `[]NoPhantomDeletion` |
| `PreviousValues` | `[]PreviousValueIsKnown` |
| `ImplementsStateMirror` (of both parts) | the refinement of `StateMirror` |
| `NothingIsSuppressed` | `SuppressesNothing`: every `build` of the whole builder leaves the consumer with the components, balances, attributes and contracts that were reported, also when the message is dropped as empty |
| `ImplementsItsParts` | the whole builder implements both halves, although it drops what both hold when it finds the message empty |
| `StoreAddsUp` | `[]StoreIsExact`: the additive store is exact, although fed by a fold over the deltas of a block |
| `ConsumerMirrors` | `[]BalancesMirrored` |
| `TransactionsAreReported` | `[]BalancesPerTransaction`: under each transaction the balance at its end |
| `SelfTransfersOnly` | without transfers of a component to itself, the store never panics: the run `balance_self_transfer` shows the only way |
| `ContractsAreExtracted`, `BlockStorageIsExtracted` | `[]StorageExtracted`, `[]BlockStorageExact`: whatever calls, creations and reverts make up a transaction, the consumer has storage, code and existence of the contracts of interest, the Dynamic Contract Indexer storage and native balance of all accounts |
| `SlotsStartBefore` | `ExtractedFromBefore`: extracted slots start from the storage before the transaction and differ after it |
| `BalancesAreExtracted` | what is proved of balances also holds where contracts are extracted beside them |
| `ReservesAreMirrored`, `ChangesAreOfKnownPools` | Uniswap v2: reserves per transaction; no change of a pool not announced |
| `UniswapIsMirrored`, `PoolsAreKnown` | the same beside the other packages |
| `VaultsAreTraced` | `[]VaultsTraced`: ERC4626: the store counts the assets of every vault, and each vault used gets its entry points once |
| `V3StorageIsMirrored` | `[]V3StorageMirrored`: Uniswap v3 from traces: the consumer has the slot, liquidity and ticks of the pool's storage after each transaction |
| `AmbientIsMirrored` | `[]AmbientMirrored`: Ambient, for every order of the calls' indices: pools, code, storage and native balance after each transaction; and the balances of each pool whose own calls do not fall back in their index |
| `BalancerIsMirrored` | `[]BalancerMirrored`: Balancer v3: pools, pause states, balances and contracts after each block, the vault's reserves but for what a wrap moved, update markers on all changed pools and no unknown ones |
| `LidoIsMirrored` | `[]LidoMirrored`: Lido: what a transaction reports is the value at its end, for stETH and wstETH alike, where no call writes after one nested in it |
| `StoresAreExact` | `[]StoresExact`: between blocks the stores of liquidity, net liquidities and current ticks, and the store of pools, hold the state of the Uniswap v3 pools |
| `TransactionsAreMirrored` | `[]MirroredPerTransaction`: after each transaction the consumer has the liquidity, tick, fee and net liquidities of every pool at its end |
| `OnlyHeldTicksAreDeleted` | `[]DeletesHeldTicksOnly`: no message deletes a tick that the consumer does not hold |
| `RunsKeepTheirOrder` | `[]LifecycleInv` |
| `ServersAreAccounted` | no path of a run but a kill or a panic leaves an RPC server |
| `AnswersAreOwn` | a test is answered by its own server while no run was killed or panicked |
| `YamlIsRecoverable` | whatever step of `build_spkg` fails, a clean `substreams.yaml` survives in the file or its backup |
| `PassesAreOwn` | a test passes only on its own database, components and engine state |
| `SuccessIsHonest` | exit status success after testing means that every test passed |
| `ExecutionsAreWhole` | full mode: what is executed is the whole of an update, all its states simulated, whatever failed before |
| `MachineIsSafe` | the invariants of range mode on a machine that runs both modes |

Each proof module has an inductive invariant `Inv` (`RunningInv` and
`FullInv` for the compositions), a lemma `InitInv`, one lemma or step per
action, and theorems that read the properties off `Inv`. The arguments:

*The builder.* `PendingIsExact` is not inductive: it speaks of the message, while
the next operation depends on the interim record. The strengthening
`NettingInv` says of every component without an entry that the consumer knows
its whole state, and of every name of one with an entry (`EntryOK`): only names
the consumer does not know are marked as created; such a name has an entry only
if it is marked (or is the update marker); the entry turns what the consumer
knows into what was reported; a deletion is of a known name. The first two
conjuncts are what makes `set_attribute`'s test of the created set right.
`MergeInv` says per contract that every slot entry starts from the consumer's
value and ends at the chain's, that an untouched slot, an empty balance or code
means they agree, and that the creation flag is set exactly when the consumer
does not know the contract. The refinement follows since a `Build` equates the
two states and every other action leaves the consumer alone. `TxBuilder` is the
two halves and the components, balances and entry points of its own: its
invariant is both halves' and that an id absent from the builder's maps is
reported and delivered alike. A suppressed `Build` resets the entries without telling
the consumer; that the parts still implement `StateMirror` rests on the emptiness test:
an entry without attributes, and a record that `is_empty` finds empty, turn what the
consumer has into itself, so that it has what was reported already.

*Extraction of contract changes.* A set of changes `Leads` from one value to another if its
first change has the one as its old value and its last the other as its new
value. For every location (a slot, a native balance or a code), the changes of calls that were not
reverted lead from the world before the transaction to the present one
(`WorldInv`). A revert goes back to the world in which a call began, so the same
is kept for every entry of the stack, with the changes of calls numbered before
it (`StackInv`): calls are numbered in the order they begin, and a revert
removes exactly the changes of calls with that number or a later one. `CallsInv`
and `ChangesInv` tie the recorded address of a change to the calls the filter
looks at, `CreationsInv` that a created account had no code and that nothing runs in
it before. `Upserts`, a recursive function over ordinals, has per slot the old
value of the first change and the new value of the last (`UpsertsAreEntries`).

*Balances.* The witness is a history. While a block is mined there is a sequence of
sums, one after every log, that starts from the store, ends at what indexing has
seen of the balances, and passes through the end of every transaction
(`LogHistory`). Extraction turns it into a sequence with a sum after every delta
(`Extracted`, `DeltaHistory`), along which the store's operations run
(`StoreFollows`); the value that the last delta of a transaction reads is the sum
at that transaction's end. `DeltasInv` keeps some such history in existence from
extraction to the consumer.

*Uniswap v2.* `ChainInv` says which `Sync` gave the reserves at the end of each
transaction, `CreationInv` that a pair has none before its creation, `KnownInv`
which pairs store and consumer know at each phase, `ChangesInv` what the changes
put together so far say, and `ReadInv` what the consumer reads: the reserves
after the transaction applied last, and those after the next one too of pairs
that it does not change.

*Uniswap v3.* The stores run one after the other over the events of a block, each
in its own way, so the invariant relates them to a history again: a state of all
pools after every event (`History`), from where the stores are to where the chain
is. `StoresAt` says for each phase which stores are still at its beginning and
which have come to its end. The current tick at each ordinal is the history's
(`TicksFollow`), so a mint or burn is filtered by the tick at its own event
(`ChangesAreIn`); the set-or-sum store then has the sum over the positions in range
after each event (`LiquidityFollows`), the additive store that over the positions
that begin at a tick less those that end there (`NetsFollow`). `ChainInv` is
needed for `Initialize`: a pool without a tick has no positions. The sums are
`MapThenSumSet` over sets of ranges, taken in an order it chooses; that the
order does not matter (`LiquidityWithout`), and that a sum moves by what one of its
positions moves by (`LiquidityMoves`), is proved by induction over the number of
ranges.

What the four passes of `map_protocol_changes` (creations, ticks, liquidity, the
rest) make of this is told along the same history, in which `e` marks where each
transaction ends (`EndsAt`). The deltas of the stores are the history's values
(`LiquidityDeltasAre`, `NetDeltasAre`). A pass moves the attributes of its turn
(`Turn`) along the history, event by event; those of later passes are still
where the transaction began (`Along`). An entry of a builder is `Good` if applying it
takes every attribute from before the transaction to where the passes have come,
its created set names only attributes that were zero, and a deletion is of one that was not. Every message
is `Truthful` about how its attribute moves, so whatever the builder nets, entries
stay good (`NameStep`, `ReceivedGood`) through a loop (`LoopLeads`), a pass
(`PassLeads`) and all of them (`AllPasses`). `MirrorAt` adds that the consumer is
where the transaction applied last ended. A deletion in a good entry is then of a tick
that was not zero before the transaction, which the consumer therefore holds.

*ERC4626, Uniswap v3 from traces, Ambient, Balancer v3, Lido.* Again a history of the package's chain
state after every event or call of a block, with the positions `e` at which its
transactions end (`Chronicle`, `Ends`). For vaults, the store follows it, and the
entry points counted are those of the vaults used at its beginning (`VaultsAt`).
For storage, each step changes only the locations of its event (`V3Step`), so the
last value of every attribute among the merged events of a transaction is that
of its end (`V3At`). For Ambient (`AmbientAt`), the storage changes of a word hang
together from call to call, so the first old and the last new value among those of a
transaction tell what it did, and a slot drained as unchanged was; native balance and
code are those of the last call that has them. Where the indices of a pool's calls do not
fall, the sort leaves the deltas of its keys in the order of the calls, and the running
sum at a call's delta is the balance after it, whatever other pools do.
For Balancer v3 (`BalancerAt`), the store's running sum at a trade is the balance after it,
a word changes only with a write that its transaction is searched for, and the pause
states between two events alternate, so that the first and the last of a transaction
tell whether it changed (a pool paused and unpaused again needs no attribute). The
reserves cannot follow the chain, as those after a wrap are never reported; what holds is weaker and
inductive (`BalancerKnown`): a known reserve is right, or of a token that a wrap moved
last. `BalancerTold` carries it over each transaction.

For Lido (`LidoAt`) the history is of the state after every write, *without those of
calls that have failed by now*: when a call fails, the part of the history after its
beginning is rewritten (`Rewritten`), and what the remaining open calls would return to
(`LidoOpened`) still lies on it, since they began earlier. No call writes late, so the
order of the calls is that of the writes, and the deltas of the store have the history's
values (`LidoStored`); the replay up to the last delta of a transaction gives its end's
total (`LidoPooledTold`). In the start block the totals stay unknown on both sides.

*Harness.* `LifecycleInv`, also checked by the run: where
the RPC thread and an open channel exist (`ThreadInv`), what the files hold at
each step of `build_spkg` (`FilesInv`), what each step of `run_test` has
established (`TestInv`), and which tests have been judged (`VerdictInv`).
`ServerAccounted` needs `ThreadInv`: a run is left by an error only where no
thread waits, because a closed channel before the join means that the thread
panicked. `SuccessIsHonest` needs that tests have distinct names. Full mode needs
that the states of the update at hand are those still to come and those prepared
(`SimulatedSoFar`, in `FullInv`).

*Recursion.* Modules with theorems use recursive functions and the folds of the
community modules, no recursive operator. The library's induction theorems take an operator as
a parameter, which the provers cannot instantiate; `SetInduction` (a set of
numbers with 0 and closed under successor is `Nat`) takes a set instead, and is
proved from the well-foundedness of `<`. With it a recursive function is shown
equal to a closed form that satisfies its equation.

*Assumptions.* The constants' assumptions (`...Assumption`, `...Bounds`) are checked by TLC on
each run. They ask for non-empty bounds where the code has at least one (`MaxTxs`), for
finitely many tick ranges,
`MaxUnseen <= MaxBalance`, and that sentinels (`Absent`, `Empty`, `Untouched`, ...)
are no values. `ASSUME ~RepeatInFirst` and `ASSUME ~UpdateFirst` in the theorems
of the builder: the reports of one transaction do not have the two forms
described in section 6. `SelfTransfersOnly` alone assumes `~SelfTransfer`, and `MCIntegrations`
instantiates `LidoState` with `LateWrites = FALSE`, so that `LidoIsMirrored` is about such
traces.
The lemmas about `ContractExtraction` have `ExtractionAssumption` as their
hypothesis, which `MCExtraction` assumes (`ExtractionBounds`).

*Only model-checked.* Liveness (`RunEnds`, `SyncWaitEnds`) and `ENABLED` are out
of the prover's reach. Safety of the other packages (`EkuboExecutes`, `CurveMirrored`) is not out of its reach, but not proved yet. The
invariant of types of the eight packages together, `IntegrationTypeOK`, is proved of those of them that have theorems.

## 6. Deviations of the code from its documentation

Each is shown by a run that TLC finds violated.

- `contract_tokens`: `ContractChange::is_empty` (`models.rs:636`) ignores
  `token_balances`; a record with nothing else is dropped.
- `balance_self_transfer`: a transfer of a component to itself yields two
  deltas of one ordinal and key; `store_balance_changes` panics unless ordinals ascend
  (`balances.rs:78`).
- `native_balances`: `extract_contract_changes` takes native balance changes
  from calls *to* the contract only (`contract.rs:111`), so debits by value
  transfers, recorded on the caller's side, are missed.
- `harness_executions`: `run_execution` returns `Ok(())` although executions
  failed (`test_runner.rs:1326`).

- `ambient_balances`: `map_pool_changes` sorts the deltas of a block by
  `call.index`, which starts anew in every transaction (`1_map_pool_changes.rs:117`);
  when a later transaction has the smaller index, it reports the smaller sum, and
  the consumer is left with an old balance.

Met while modelling, and not given a run:

- Balancer v3 accounts the reserves after a buffer wrap under the token set of
  a component key without the prefix `pool:` (`modules.rs:484`), which no store has,
  so never: the consumer's reserves of the two tokens are stale until they are next
  paid in or out (`ReservesMatchVault` says so).
- Lido stores a slot's write under the ordinal at which its call begins
  (`2_store_storage_variables.rs:68`): a call that writes after a call it made has returned has
  its value replaced by the earlier one (`LateWrites = TRUE` violates
  `StoreFollowsSlots`).
- Ekubo's zips rely on `logs_with_calls` of the `substreams-ethereum` library listing logs
  in the order of their ordinals; were they listed call by call, outer calls first,
  the lists would not match (`CallOrder = TRUE` violates `ExecutesLikeThePool`).
- Curve: a pool that pays ETH to itself gives two deltas of one ordinal, on
  which the store panics as in `balance_self_transfer`; the model's pools do not.
- Uniswap v3 from traces reads balances with `get_last` (`5_map_pool_events.rs:56`): of
  two transactions of a block, the first reports the balance after the second. It
  emits the magnitude without the sign (`to_bytes_be().1`), so that a negative sum, of a
  pool with an unseen past, is reported as positive.
- The template for factories credits the receiver in both branches of a
  transfer (`ethereum-template-factory/src/modules.rs`).

- `TransactionChanges::is_empty` (`models.rs:645`) ignores entry points; a
  transaction with nothing else is lost.
- `merge_block` (`3_map_pool_events.rs:163-193`) drops the initial balances or
  attributes of pools created beside another pool or another pool's `Sync`.
- The first `add_entity_change` of a component in a transaction marks every
  creation in it as created (`models.rs:155-161`), also one that follows a
  deletion of the same name in the same call; a later deletion is then
  swallowed. The comment in `set_attribute` (465-468) excludes exactly this
  (`RepeatInFirst = TRUE`). The integrations modelled here do not repeat a name in one call.
- A contract first reported as updated and then as created in one transaction
  stays an update (`models.rs:47-60` never merges the kind), although "the new
  change" is documented to be prioritised (`UpdateFirst = TRUE`).
- `build_spkg` backs up whatever `substreams.yaml` holds (`utils.rs:18-20`): after
  a run that was killed, or left by the missing-CLI error, that is the modified
  file. Two runs of `Harness` show it.
- `empty_database` drops `tycho_indexer_0` whatever `--db-url` names.
- `run_simulation` returns at the first state of an update whose component is
  missing or fails (`test_runner.rs:1036-1102`): the states after it, in the order of a
  hash map, are passed over, and what was prepared for those before it is dropped.
- The message of the 0.5 % tolerance says 0.05 % (`test_runner.rs:1290`).
- Balance deltas and store ordinals: `utils.proto:12` calls the ordinal unique;
  a transfer's two deltas share one.

## 7. What is not modelled, and what is assumed

External, modelled from how `src/` uses them: the chain and its contracts (an
event is emitted exactly when its contract's state changes as the event says),
the substreams runtime (stores apply operations in the order of their ordinals
and expose deltas), the consumer (applies messages by transaction index), the
operating system, `tycho-indexer` and its RPC server. `run_test` ignores an error of
`SHARED_TYCHO_DB.clear()` (`test_runner.rs:871`); the model takes it that an engine that
cannot be cleared cannot be decoded into either, so that such a test does not pass.

`ContractExtraction` takes the shape of a trace from the block that the tests use
(`crates/tycho-substreams/assets/ethereum-block-23490768.binpb.base64`): storage under a delegate call is recorded under
the caller's address, the debit of a value transfer is recorded on the call
with the caller as its address, a balance of zero comes without a new value,
slot words always have 32 bytes.

Calls that are reverted: `logs_with_calls` and the logs of a block leave them out, which
the models take over; where a module of this repository filters by itself
(`state_reverted`), that filter is modelled.

Not modelled, see `PROJECT.json` for each:

- Uniswap v4: its ticks and liquidity are `LiquidityPipeline`'s; its balances are computed
  from square-root prices, which small integers would not test.
- PancakeSwap v3, Slipstreams, Velodrome: copies of the two v3 packages with other events
  and fees. Balancer v2: Balancer v3 without reserves and pause states.
  Maverick, sFrax, sFraxEth, the template for factories: the shape of `Erc4626`.
- Of the partly modelled: Ekubo's component balances (with the fee adjustment of
  `4_map_balance_changes.rs`), attributes and entry points fixed at creation in
  Balancer v3 and Curve, the creation of pools and the balances in the logs-only v3
  package (the shapes of `UniswapV2` and `BalancePipeline`).
- The EVM adapters (arithmetic over third-party contracts), generated code (`pb`,
  `abi`: by far most lines of the repository), pure conversions (`attributes.rs`,
  hexadecimal and decimal helpers), calls of nodes in the harness, whose outcomes are
  inputs of `Harness`.

## 8. The plan

Done, in this order: the builder (the core: every integration goes through
it), its abstract specification and proofs; extraction; the three pipelines
that integrations are variations of; the lifecycle of the harness and its
proofs; the integrations whose stores and deltas differ from these: Lido, Ambient,
Balancer v3, Ekubo, ERC4626, Curve, Uniswap v3 from traces.

Proved after that: the whole builder, both extractions, Uniswap v2, full mode,
the stores of Uniswap v3 and the mirror per transaction that rests on them; the
ERC4626 vaults, Uniswap v3 from traces, Ambient, Balancer v3 and Lido.

Next, by importance:

1. *Proofs*: Curve and Ekubo.
2. *Abstract specifications*: `StateMirror` for the pipelines, per transaction.
3. *Ekubo's balances*, and the differences of the v3 forks as constants of
   `UniswapV3Storage`.
