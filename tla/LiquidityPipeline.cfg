SPECIFICATION Spec
CONSTANTS
    pool1 = pool1
    Pool = {pool1}
    TickRange <- Adjacent
    Tick = {0, 1, 2}
    Fee = {1}
    MaxPosition = 1
    MaxEvents = 3
    MaxTxs = 2
    Absent = Absent
    Unset = Unset
    NoEntity = NoEntity
    NoTick = NoTick
    NoLiquidity = NoLiquidity
INVARIANTS MirroredPerTransaction DeletesHeldTicksOnly StoresExact
