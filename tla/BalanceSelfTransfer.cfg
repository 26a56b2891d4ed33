SPECIFICATION Spec
CONSTANTS
    pool1 = pool1
    pool2 = pool2
    weth = weth
    Component = {pool1, pool2}
    Outside = Outside
    Token = {weth}
    Amount = {1, 2}
    MaxBalance = 2
    MaxUnseen = 1
    MaxLogs = 3
    MaxTxs = 2
    SelfTransfer = TRUE
    NoChange = NoChange
SYMMETRY Pools
INVARIANT NeverPanics
