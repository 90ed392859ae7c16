SPECIFICATION FairSpec
CONSTANTS
    Ids = {c1}
    Requests = {r1, r2, r3}
    Secrets = {s1, s2}
    AppSecrets = {s1}
    Second = 3
    TokenTTL = 2
    Retention = 3
    MaxClock = 5
INVARIANTS
    AtMostOnce
    NoTokenLost
PROPERTIES
    StaleMarksLeave
    RedeemsOnce
CHECK_DEADLOCK FALSE
