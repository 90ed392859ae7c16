SPECIFICATION Spec
CONSTANTS
    Prechecks = {h1, h2}
    IPs = {i1}
    Fingerprints = {f1}
    Missing = missing
    IPLabels <- MCIPLabels
    Profiles <- MCProfiles
    ScenePolicies <- MCPolicies
    IPTiers <- MCIPTiers
    FPTiers <- MCFPTiers
    Minute = 1
    Hour = 2
    MaxLag = 1
    MaxClock = 3
    MaxRequests = 4
SYMMETRY Symmetry
INVARIANTS
    RatesComplete
PROPERTIES
    BurstEscalates
CHECK_DEADLOCK FALSE
