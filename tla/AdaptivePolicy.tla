--------------------------- MODULE AdaptivePolicy ---------------------------
(***************************************************************************)
(* internal/service/policy/adaptive.go: the outcomes of a scene's          *)
(* challenges shift the thresholds of its policy.  Every call holds the    *)
(* engine's mutex throughout.                                              *)
(***************************************************************************)
EXTENDS Policy, FiniteSets

CONSTANTS
    Scenes,
    MinSample,       \* 20 challenges before anything is adjusted
    MaxAdjustment,   \* 20
    MaxOutcomes      \* bound on the outcomes recorded for a scene

ASSUME SampleAssumption == MinSample \in Nat /\ MaxAdjustment \in Nat /\ MaxOutcomes \in Nat

VARIABLES
    metrics,      \* scene |-> its sceneMetrics
    adjustments   \* scene |-> the shift of its thresholds

adaptiveVars == <<metrics, adjustments>>

Step == 5

Counters == {"totalChallenges", "totalPassed", "botsChallenged", "botsPassed",
             "humansChallenged", "humansFailed"}

\* maybeAdjust keeps every adjustment within the cap, and an outcome is counted
\* once in each counter.
AdaptiveTypeOK ==
    /\ metrics \in [Scenes -> [Counters -> 0..MaxOutcomes]]
    /\ adjustments \in [Scenes -> (-MaxAdjustment)..MaxAdjustment]

AdaptiveInit ==
    /\ metrics = [s \in Scenes |-> [c \in Counters |-> 0]]
    /\ adjustments = [s \in Scenes |-> 0]

\* Variant: an unchallenged bot is not counted as challenged.
CountedPassedOnly(wasBot, wasChallenged, passed) ==
    (IF wasChallenged THEN {"totalChallenges"} ELSE {})
    \cup (IF wasChallenged /\ passed THEN {"totalPassed"} ELSE {})
    \cup (IF wasBot /\ wasChallenged THEN {"botsChallenged"} ELSE {})
    \cup (IF wasBot /\ (passed \/ ~wasChallenged) THEN {"botsPassed"} ELSE {})
    \cup (IF ~wasBot /\ wasChallenged THEN {"humansChallenged"} ELSE {})
    \cup (IF ~wasBot /\ wasChallenged /\ ~passed THEN {"humansFailed"} ELSE {})

\* The counters an outcome adds to; a bot let through counts as one that passed.
Counted(wasBot, wasChallenged, passed) ==
    (IF wasChallenged THEN {"totalChallenges"} ELSE {})
    \cup (IF wasChallenged /\ passed THEN {"totalPassed"} ELSE {})
    \cup (IF wasBot THEN {"botsChallenged"} ELSE {})
    \cup (IF wasBot /\ (passed \/ ~wasChallenged) THEN {"botsPassed"} ELSE {})
    \cup (IF ~wasBot /\ wasChallenged THEN {"humansChallenged"} ELSE {})
    \cup (IF ~wasBot /\ wasChallenged /\ ~passed THEN {"humansFailed"} ELSE {})

FalsePositivesHigh(m) == m["humansFailed"] * 100 > 5 * m["humansChallenged"]
BotPassesHigh(m)      == m["botsPassed"] * 100 > 10 * m["botsChallenged"]

Raised(adj)  == IF adj + Step > MaxAdjustment THEN MaxAdjustment ELSE adj + Step
Lowered(adj) == IF adj - Step < -MaxAdjustment THEN -MaxAdjustment ELSE adj - Step

\* Variant: the second branch is taken only if the first was not.
AdjustEither(m, adj) ==
    IF m["totalChallenges"] < MinSample THEN adj
    ELSE IF FalsePositivesHigh(m) THEN Raised(adj)
    ELSE IF BotPassesHigh(m) THEN Lowered(adj)
    ELSE adj

\* maybeAdjust.  Both branches start from the adjustment read before the first of
\* them, and a branch that changes nothing does not store: when both rates are
\* high the second wins, except at the lower cap, where the first one's stays.
Adjust(m, adj) ==
    IF m["totalChallenges"] < MinSample THEN adj
    ELSE IF BotPassesHigh(m) /\ Lowered(adj) # adj THEN Lowered(adj)
    ELSE IF FalsePositivesHigh(m) THEN Raised(adj)
    ELSE adj

RecordOutcome(scene, wasBot, wasChallenged, passed) ==
    LET m == [c \in Counters |->
                metrics[scene][c] + (IF c \in Counted(wasBot, wasChallenged, passed) THEN 1 ELSE 0)]
    IN
    /\ \A c \in Counters : m[c] <= MaxOutcomes
    /\ metrics' = [metrics EXCEPT ![scene] = m]
    /\ adjustments' = [adjustments EXCEPT ![scene] = Adjust(m, @)]

AdaptiveNext ==
    \E scene \in Scenes, wasBot, wasChallenged, passed \in BOOLEAN :
        RecordOutcome(scene, wasBot, wasChallenged, passed)

AdaptiveSpec == AdaptiveInit /\ [][AdaptiveNext]_adaptiveVars

\* Variant: the adjustment is subtracted.
AdaptReversed(policy, adj) ==
    [policy EXCEPT !.low = @ - adj, !.high = @ - adj]

\* GetAdaptedPolicy.
Adapt(policy, adj) ==
    LET low  == IF policy.low + adj < 0 THEN 0 ELSE policy.low + adj
        high == IF policy.high + adj < low + 1 THEN low + 1 ELSE policy.high + adj
    IN  IF adj = 0 THEN policy
        ELSE [policy EXCEPT !.low = low, !.high = IF high > 100 THEN 100 ELSE high]
-----------------------------------------------------------------------------
Policies == {templates[i] : i \in DOMAIN templates}

SeverityOf(score, policy) == Severity[Evaluate(score, policy, "unlisted")]

\* Raised thresholds never treat a score more severely than the policy itself, and
\* lowered ones never less, in spite of the clamping.
AdaptationDirection ==
    \A scene \in Scenes, p \in Policies, score \in Scores :
        LET adj == adjustments[scene] IN
        /\ adj >= 0 => SeverityOf(score, Adapt(p, adj)) <= SeverityOf(score, p)
        /\ adj <= 0 => SeverityOf(score, Adapt(p, adj)) >= SeverityOf(score, p)

\* The rates are shares: no more fail or pass than were challenged, and the passed
\* challenges are the humans' and the bots' together.
RatesAreShares ==
    \A scene \in Scenes :
        LET m == metrics[scene] IN
        /\ m["humansFailed"] <= m["humansChallenged"]
        /\ m["botsPassed"] <= m["botsChallenged"]
        /\ m["totalPassed"] <= m["botsPassed"] + m["humansChallenged"] - m["humansFailed"]

\* Thresholds go up only on false positives and down only on passing bots, by at
\* most one step an outcome.  When both rates are high the second branch overwrites
\* the first, so that passing bots decide; only from the lower cap, where that branch
\* has nothing to store, do the thresholds go up while bots pass too often.
AdjustmentJustified ==
    [][\A scene \in Scenes :
          LET old == adjustments[scene]  new == adjustments'[scene]  m == metrics'[scene] IN
          /\ new > old => /\ FalsePositivesHigh(m) /\ new - old <= Step
                          /\ BotPassesHigh(m) => old = -MaxAdjustment
          /\ new < old => BotPassesHigh(m) /\ old - new <= Step]_adaptiveVars
=============================================================================
