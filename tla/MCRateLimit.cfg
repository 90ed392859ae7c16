SPECIFICATION Spec
CONSTANTS
    r1 = r1
    v1 = v1
    v2 = v2
    Requests = {r1, r2}
    Servers = {v1, v2}
    ServerOf <- MCServerOf
    Limit = 2
    Window = 6
    Skew <- MCSkew
    MaxSkew = 1
    MaxLag = 1
    MaxClock = 7
INVARIANTS
    FallbackLimit
    OverrunBounded
CHECK_DEADLOCK FALSE
