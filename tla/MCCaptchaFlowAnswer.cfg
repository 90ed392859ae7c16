SPECIFICATION Spec
CONSTANTS
    p1 = p1
    seed0 = seed0
    seed4 = seed4
    Seeded <- MCSeeded
    Ids = {c1, c2, c3}
    Handlers = {h1, h2}
    Requests = {r1}
    SliderTargets = {60}
    PuzzleTargets = {57}
    ClickIds = {p1}
    Answers <- MCAnswers
    Second = 1
    AnswerTTL = 1
    Secrets = {s1}
    AppSecrets = {s1}
    TokenTTL = 1
    Retention = 1
    MaxClock = 2
INVARIANT
    RightAnswerAccepted
CHECK_DEADLOCK FALSE
