SPECIFICATION ExtractionSpec
CONSTANTS
    pool1 = pool1
    pool2 = pool2
    weth = weth
    Component = {pool1, pool2}
    Outside = Outside
    Token = {weth}
    Amount = {1, 2}
    MaxBalance = 2
    MaxUnseen = 1
    MaxLogs = 3
    MaxTxs = 2
    SelfTransfer = FALSE
    NoChange = NoChange
    vault = vault
    other = other
    s1 = s1
    w0 = w0
    w1 = w1
    code1 = code1
    Address = {vault, other}
    Included = {vault}
    Slot = {s1}
    Word = {w0, w1}
    ZeroWord = w0
    Code = {code1}
    MaxNative = 1
    MaxCalls = 3
    MaxChanges = 3
    Empty = Empty
    Untouched = Untouched
    NoContract = NoContract
SYMMETRY Pools
INVARIANTS BalancesPerTransaction BalancesMirrored StoreIsExact
INVARIANTS StorageExtracted BlockStorageExact
PROPERTY ExtractedFromBefore
