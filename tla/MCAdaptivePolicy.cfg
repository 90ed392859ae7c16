SPECIFICATION AdaptiveSpec
CONSTANTS
    Scenes = {login}
    MinSample = 2
    MaxAdjustment = 20
    MaxOutcomes = 6
INVARIANTS
    AdaptationDirection
    RatesAreShares
PROPERTIES
    AdjustmentJustified
CHECK_DEADLOCK FALSE
