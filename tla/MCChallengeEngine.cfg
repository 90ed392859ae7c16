SPECIFICATION Spec
CONSTANTS
    p1 = p1
    p2 = p2
    Ids = {c1, c2}
    Callers = {v1, v2}
    SliderTargets = {60}
    PuzzleTargets = {50}
    ClickIds = {p1, p2}
    Answers <- MCAnswers
    Second = 2
    AnswerTTL = 1
    MaxClock = 3
SYMMETRY Symmetry
INVARIANTS
    TypeOK
    OneUse
PROPERTIES
    ApprovedIffSolved
    BurntStaysBurnt
    LiveChallengeStays
CHECK_DEADLOCK FALSE
