--------------------------- MODULE MCIntegrations --------------------------
(***************************************************************************)
(* The integrations for TLC.  Each is a package of its own; one of them    *)
(* runs in a behaviour, from the first block on.  All but Uniswap v2 have  *)
(* the same seven variables: the chain, the block being mined, the phase,  *)
(* the stores, the deltas, the message and the indexer.                    *)
(***************************************************************************)
EXTENDS UniswapV2, TLC

CONSTANTS pair1, pair2, r1, r2,             \* Uniswap v2
          ambient1, ambient2,               \* Ambient
          pool1, pool2, token1, token2, oracle1, NoOracle,    \* the others
          NoValue, Unset, NoEntity

(* The bounds of the integrations that the proofs leave open.              *)
CONSTANTS WrittenSlots, StartSlots, DepositSize, MaxWord, MaxLidoCalls, MaxLidoWrites,
          Vault, Assets, MaxNet, MaxYield, MaxVaultEvents, MaxAmount, MaxStorageEvents,
          AmbientPool, MaxFlow, MaxIndex, MaxFlowCalls,
          BalancerPool, VaultToken, PoolTokens, MaxPoolBalance, MaxReserve, MaxVaultCalls

VARIABLES
    integration,    \* the package that runs
    chain, block, stores, deltas, message

pipelineVars == <<chain, block, stores, deltas, message>>
NotRunning == <<>>

Lido == INSTANCE LidoState WITH
    Written <- WrittenSlots, Initial <- StartSlots, MaxValue <- MaxWord,
    MaxCalls <- MaxLidoCalls, MaxWrites <- MaxLidoWrites, LateWrites <- FALSE
Ambient == INSTANCE AmbientPipeline WITH
    Pool <- AmbientPool, MaxBalance <- MaxFlow, MaxCalls <- MaxFlowCalls
Balancer == INSTANCE BalancerV3 WITH
    Pool <- BalancerPool, Token <- VaultToken, TokensOf <- PoolTokens,
    MaxBalance <- MaxPoolBalance, MaxEvents <- MaxVaultCalls
Ekubo == INSTANCE EkuboTwamm WITH
    Tick <- {0, 1}, TickRange <- {<<0, 1>>}, Order <- {<<0, 0, 2>>, <<0, 2, 3>>, <<1, 1, 3>>},
    MaxRate <- 1, MaxTime <- 3, MaxCalls <- 2, CallOrder <- FALSE
Vaults == INSTANCE Erc4626 WITH
    Amount <- Assets, MaxEvents <- MaxVaultEvents
Curve == INSTANCE CurvePools WITH
    Pool <- {pool1}, TokensOf <- [p \in {pool1} |-> {"ETH", "sUSD"}], Oracle <- {oracle1},
    MaxBalance <- 1, MaxSteps <- 3
V3Storage == INSTANCE UniswapV3Storage WITH
    MaxEvents <- MaxStorageEvents

ASSUME IntegrationBounds ==
    /\ Lido!LidoBounds /\ Ambient!AmbientBounds /\ Balancer!BalancerBounds
    /\ Ekubo!EkuboBounds /\ Vaults!Erc4626Bounds /\ Curve!CurveBounds
    /\ V3Storage!StorageBounds

ZeroSlots ==
    [slot \in {"buffered_eth", "cl_balance_position", "cl_validators_position",
               "deposited_validators_position"} |-> 0]
OnePair == [p \in {pool1} |-> <<token1, token2>>]

-----------------------------------------------------------------------------
V2NotRunning ==
    /\ created = NotRunning /\ reserves = NotRunning /\ events = NotRunning /\ tx = NotRunning
    /\ txEnd = NotRunning /\ store = NotRunning /\ changes = NotRunning /\ applied = MaxTxs
PipelineNotRunning ==
    /\ chain = NotRunning /\ block = NotRunning /\ stores = NotRunning
    /\ deltas = NotRunning /\ message = NotRunning

IntegrationInit ==
    \/ integration = "uniswap-v2" /\ Init /\ PipelineNotRunning
    \/ integration = "lido" /\ Lido!Init /\ V2NotRunning
    \/ integration = "ambient" /\ Ambient!Init /\ V2NotRunning
    \/ integration = "balancer-v3" /\ Balancer!Init /\ V2NotRunning
    \/ integration = "ekubo-v2" /\ Ekubo!Init /\ V2NotRunning
    \/ integration = "erc4626" /\ Vaults!Init /\ V2NotRunning
    \/ integration = "curve" /\ Curve!Init /\ V2NotRunning
    \/ integration = "uniswap-v3" /\ V3Storage!Init /\ V2NotRunning

V2Unchanged == UNCHANGED <<created, reserves, events, tx, txEnd, store, changes, applied>>

IntegrationNext ==
    /\ UNCHANGED integration
    /\ \/ integration = "uniswap-v2" /\ Next /\ UNCHANGED pipelineVars
       \/ integration = "lido" /\ Lido!Next /\ V2Unchanged
       \/ integration = "ambient" /\ Ambient!Next /\ V2Unchanged
       \/ integration = "balancer-v3" /\ Balancer!Next /\ V2Unchanged
       \/ integration = "ekubo-v2" /\ Ekubo!Next /\ V2Unchanged
       \/ integration = "erc4626" /\ Vaults!Next /\ V2Unchanged
       \/ integration = "curve" /\ Curve!Next /\ V2Unchanged
       \/ integration = "uniswap-v3" /\ V3Storage!Next /\ V2Unchanged

IntegrationSpec == IntegrationInit /\ [][IntegrationNext]_<<integration, vars, pipelineVars>>

Pairs == Permutations({pair1, pair2}) \cup Permutations({r1, r2})
             \cup Permutations({ambient1, ambient2})

-----------------------------------------------------------------------------
(* Properties                                                              *)

(* The variables of the integration that runs have their types.            *)
IntegrationTypeOK ==
    CASE integration = "uniswap-v2" -> TypeOK
      [] integration = "lido" -> Lido!TypeOK
      [] integration = "ambient" -> Ambient!TypeOK
      [] integration = "balancer-v3" -> Balancer!TypeOK
      [] integration = "ekubo-v2" -> Ekubo!TypeOK
      [] integration = "erc4626" -> Vaults!TypeOK
      [] integration = "curve" -> Curve!TypeOK
      [] integration = "uniswap-v3" -> V3Storage!TypeOK

(* Uniswap v2: after each transaction the consumer reads the reserves that *)
(* the pool had then.                                                      *)
UniswapMirrored == integration = "uniswap-v2" => MirroredPerTransaction

(* Lido: every transaction reports the values at its end, to both          *)
(* components alike, though the deltas of a block are replayed at once.    *)
LidoMirrored ==
    integration = "lido" =>
        Lido!ReportedPerTransaction /\ Lido!BothMirrored /\ Lido!StoreFollowsSlots

(* Ambient: the contract and its pools are mirrored after each transaction *)
(* in whatever order calls come, and the balances of each pool whose calls *)
(* do not fall back in their index through the block.                      *)
AmbientMirrored ==
    integration = "ambient" => Ambient!BalancesPerTransaction /\ Ambient!ContractMirrored

(* Balancer v3: pools, pause states, balances, contracts and the vault's   *)
(* reserves are mirrored, and a changed pool is marked as updated.         *)
BalancerMirrored ==
    integration = "balancer-v3" =>
        Balancer!PoolsMirrored /\ Balancer!ReservesMatchVault /\ Balancer!MarkedWhenChanged

(* Ekubo v2: after every transaction, and whatever later time the consumer *)
(* executes virtual orders up to, it sells at the rate of the pool; and    *)
(* ticks and orders at zero are deleted, those that are held and no other. *)
EkuboExecutes == integration = "ekubo-v2" => Ekubo!ExecutesLikeThePool /\ Ekubo!HoldsNoZeros

(* ERC4626: the entry points of a vault come once, with its first use.     *)
VaultsTraced == integration = "erc4626" => Vaults!TracedFromFirstUse

(* Curve: the deltas of logs and calls together are legal for the store,   *)
(* and give the balances, in ETH and tokens, after every transaction; the  *)
(* oracle that is set has its entry point.                                 *)
CurveMirrored == integration = "curve" => Curve!DeltasLegal /\ Curve!PoolsMirrored

(* Uniswap v3 from traces: each transaction leaves the consumer with the   *)
(* tracked storage of the pool; balances are right at the end of a block.  *)
V3StorageMirrored ==
    integration = "uniswap-v3" =>
        V3Storage!StorageMirrored /\ V3Storage!BalanceMirroredPerBlock
=============================================================================
