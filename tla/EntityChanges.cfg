SPECIFICATION Spec
CONSTANTS
    c1 = c1
    tick = tick
    paused = paused
    marker = marker
    v0 = v0
    v1 = v1
    Component = {c1}
    Name = {tick, paused, marker}
    Value = {v0, v1}
    Paused = paused
    Marker = marker
    MessageName = {tick, paused}
    Zero = v0
    One = v1
    RepeatInFirst = FALSE
    Absent = Absent
    Unset = Unset
    NoEntity = NoEntity
INVARIANTS TypeOK PendingIsExact NoPhantomDeletion NettingInv
PROPERTY MirrorsProtocol
