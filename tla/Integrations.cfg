SPECIFICATION IntegrationSpec
CONSTANTS
    pair1 = pair1
    pair2 = pair2
    r1 = r1
    r2 = r2
    ambient1 = ambient1
    ambient2 = ambient2
    pool1 = pool1
    pool2 = pool2
    token1 = token1
    token2 = token2
    Pool = {pair1, pair2}
    Reserves = {NoReserves, r1, r2}
    NoReserves = NoReserves
    Absent = Absent
    MaxEvents = 4
    MaxTxs = 2
    oracle1 = oracle1
    NoOracle = NoOracle
    NoValue = NoValue
    Unset = Unset
    NoEntity = NoEntity
    WrittenSlots = {"buffered_eth", "cl_balance_position", "total_shares"}
    StartSlots <- ZeroSlots
    DepositSize = 2
    MaxWord = 1
    MaxLidoCalls = 2
    MaxLidoWrites = 2
    Vault = {pool1, pool2}
    Assets = {0, 1}
    MaxNet = 1
    MaxYield = 1
    MaxVaultEvents = 3
    MaxAmount = 1
    MaxStorageEvents = 2
    AmbientPool = {ambient1, ambient2}
    MaxFlow = 1
    MaxIndex = 3
    MaxFlowCalls = 3
    BalancerPool = {pool1}
    VaultToken = {token1, token2}
    PoolTokens <- OnePair
    MaxPoolBalance = 1
    MaxReserve = 1
    MaxVaultCalls = 2
SYMMETRY Pairs
INVARIANTS IntegrationTypeOK UniswapMirrored KnownPoolsOnly LidoMirrored AmbientMirrored
INVARIANTS BalancerMirrored EkuboExecutes VaultsTraced CurveMirrored V3StorageMirrored
