SPECIFICATION Spec
CONSTANTS
    s1 = s1
    s2 = s2
    a1 = a1
    Query <- MCQuery
    Publishers = {p1, p2}
    Streams = {s1, s2}
    EventTypes = {e1}
    Apps = {a1, a2}
    Unset = unset
    ChanSize = 2
    BufferSize = 2
    MaxEvents = 3
INVARIANT
    OnlySlowMiss
CHECK_DEADLOCK FALSE
