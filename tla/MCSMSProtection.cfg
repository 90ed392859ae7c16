SPECIFICATION Spec
CONSTANTS
    Checks = {q1, q2}
    Phones = {t1, t2}
    IPs = {i1}
    Fingerprints = {f1}
    Apps = {a1}
    Missing = missing
    Second = 2
    Gap = 2
    Hour = 4
    Day = 4
    PhoneLimit = 2
    IPLimit = 2
    FPLimit = 1
    MaxLag = 1
    MaxClock = 5
SYMMETRY Symmetry
INVARIANTS
    PhoneGap
    LimitsHold
    CostIsCharged
PROPERTIES
    WaitIsEnough
CHECK_DEADLOCK FALSE
