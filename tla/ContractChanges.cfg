SPECIFICATION Spec
CONSTANTS
    a1 = a1
    s1 = s1
    s2 = s2
    w0 = w0
    w1 = w1
    w2 = w2
    b0 = b0
    b1 = b1
    code1 = code1
    usdc = usdc
    Address = {a1}
    Slot = {s1, s2}
    Word = {w0, w1, w2}
    Balance = {b0, b1}
    Code = {code1}
    Token = {usdc}
    ZeroWord = w0
    ZeroBalance = b0
    UpdateFirst = FALSE
    Empty = Empty
    Untouched = Untouched
    NoContract = NoContract
INVARIANTS TypeOK PendingIsExact PreviousValueIsKnown MergeInv
PROPERTY MirrorsChain
