SPECIFICATION Spec
CONSTANTS
    Pool = {p1}
    MaxBalance = 1
    MaxTxs = 2
    MaxIndex = 3
    MaxCalls = 3
INVARIANT BalancesMirrored
