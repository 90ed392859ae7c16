SPECIFICATION ConsoleSpec
CONSTANTS
    r1 = r1
    r2 = r2
    e1 = e1
    p1 = p1
    p2 = p2
    Regs = {r1, r2}
    Email <- MCEmail
    Password <- MCPassword
    Logins = {l1}
    DemoTenant = demoTenant
    DemoApp = demoApp
    NewApps = {newApp}
    NewKeys = {newKey}
    Nobody = nobody
    Seeds <- MCSeeds
    NewEvents = {6, 7}
    Kept = 5
    MaxMitigated = 3
    Keys = {ip}
    Sources = {s1, s2}
    Severities <- MCSeverities
    Reporters = {q1, q2}
    MaxClock = 2
    MaxLag = 1
    MaxReports = 4
    anyApp = anyApp
    anyType = anyType
    app = app
    passed = passed
    failed = failed
    ev1 = ev1
    ev2 = ev2
    SubIds = {anyApp, anyType}
    Form <- MCForm
    Events = {ev1, ev2}
    Kind <- MCKind
    Wildcard = wildcard
INVARIANTS
    KeysResolve
    LoginOwnTenant
    ReplacedOnlyByOverlap
    DashboardCounts
    SeenWithinLag
    RightAudience
PROPERTIES
    BoostFollowsReports
    KeepsPromise
    EverySettled
CHECK_DEADLOCK FALSE
