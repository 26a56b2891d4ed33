SPECIFICATION Spec
CONSTANTS
    vault = vault
    other = other
    s1 = s1
    w0 = w0
    w1 = w1
    w2 = w2
    code1 = code1
    Address = {vault, other}
    Included = {vault}
    Outside = Outside
    Slot = {s1}
    Word = {w0, w1}
    ZeroWord = w0
    Code = {code1}
    MaxBalance = 1
    MaxCalls = 3
    MaxChanges = 3
    Empty = Empty
    Untouched = Untouched
    NoContract = NoContract
INVARIANT NativeBalanceExtracted
