SPECIFICATION ClientsSpec
CONSTANTS
    Executions = {first, second}
    Targets = 2
    MaxSubmits = 2
    MaxClicks = 3
    NoOne = noOne
    Presentations = {first, second}
    MaxPosts = 3
    MaxCalls = 3
INVARIANTS
    OneOutcome
    ResumedOnce
PROPERTIES
    OverlayGoes
    Settles
CHECK_DEADLOCK FALSE
