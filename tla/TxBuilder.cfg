SPECIFICATION Spec
CONSTANTS
    c1 = c1
    paused = paused
    marker = marker
    v0 = v0
    v1 = v1
    a1 = a1
    s1 = s1
    w0 = w0
    w1 = w1
    b0 = b0
    b1 = b1
    usdc = usdc
    d1 = d1
    d2 = d2
    e1 = e1
    Component = {c1}
    Name = {paused, marker}
    Value = {v0, v1}
    Paused = paused
    Marker = marker
    MessageName = {}
    Zero = v0
    One = v1
    RepeatInFirst = FALSE
    Absent = Absent
    Unset = Unset
    NoEntity = NoEntity
    Address = {a1}
    Slot = {s1}
    Word = {w0, w1}
    Balance = {b0, b1}
    Code = {}
    Token = {usdc}
    ZeroWord = w0
    ZeroBalance = b0
    UpdateFirst = FALSE
    Empty = Empty
    Untouched = Untouched
    NoContract = NoContract
    Description = {d1, d2}
    EntryPoint = {e1}
    NoComponent = NoComponent
    NoBalance = NoBalance
PROPERTY SuppressesNothing
SYMMETRY DescriptionSymmetry
