----------------------------- MODULE RiskEngine -----------------------------
(***************************************************************************)
(* internal/service/risk and the decision that internal/handler/precheck.go*)
(* takes with it: a request is scored by the signals it shows and by how   *)
(* often its IP and its fingerprint were seen in the last minute, and the  *)
(* scene's policy maps the score to an action.  evaluateRates reads the    *)
(* time, waits for the engine's mutex, and records and counts with the     *)
(* time it read.  The rest of the scoring keeps no state.                  *)
(***************************************************************************)
EXTENDS SlidingWindow, Policy, FiniteSetsExt

CONSTANTS
    Prechecks,      \* concurrent precheck requests
    IPs, Fingerprints,
    Missing,        \* the empty fingerprint
    IPLabels,       \* IP |-> the labels evaluateIP and ProxyDetector.Check give it
    Profiles,       \* sets of labels of a user agent with some behaviour data
    ScenePolicies,  \* policies of the scenes, NoPolicy among them
    IPTiers,        \* <<5, 15, 30>> requests a minute
    FPTiers,        \* <<3, 10, 20>>
    Minute, Hour,   \* in clock units
    MaxLag,         \* bound on the time a request waits for the mutex
    MaxClock,       \* bound on the clock
    MaxRequests     \* bound on the requests of an IP

\* The hour that is kept is longer than the minute that is counted and the wait
\* for the mutex together.
ASSUME TimeAssumption ==
    /\ Minute \in Nat \ {0} /\ Hour \in Nat /\ MaxLag \in Nat /\ Minute + MaxLag <= Hour
    /\ MaxClock \in Nat /\ MaxRequests \in Nat

\* An IP is no fingerprint, and a missing fingerprint is neither.
ASSUME KeyAssumption == IPs \cap Fingerprints = {} /\ Missing \notin IPs \cup Fingerprints

\* What each label adds to the score.  A private address has no label of its own.
Points ==
    [invalid_ip |-> 15, blacklisted_ip |-> 30, private_ip |-> 2, datacenter_ip |-> 15,
     ip_rate_elevated |-> 8, ip_rate_high |-> 20, ip_rate_extreme |-> 30,
     fp_rate_elevated |-> 5, fp_rate_high |-> 15, fp_rate_extreme |-> 25,
     missing_fingerprint |-> 5, missing_ua |-> 12, bot_ua |-> 15, short_ua |-> 5,
     no_behavior_data |-> 10, low_mouse_entropy |-> 15, moderate_mouse_entropy |-> 5,
     instant_interaction |-> 15, fast_interaction |-> 5, no_keystrokes |-> 5,
     no_scroll |-> 3, devtools_open |-> 8,
     tor_exit_node |-> 25, vpn_range |-> 15, datacenter_ip_extended |-> 12,
     headless_browser |-> 20, webdriver_detected |-> 25, automation_framework |-> 20,
     impossible_mouse_rate |-> 15, zero_jitter |-> 10, no_plugins |-> 5]

Labels == DOMAIN Points

\* What evaluateRates alone gives.
RateLabels == {"ip_rate_elevated", "ip_rate_high", "ip_rate_extreme",
               "fp_rate_elevated", "fp_rate_high", "fp_rate_extreme"}

\* An address and a profile show other labels.
ASSUME LabelAssumption ==
    /\ IPLabels \in [IPs -> SUBSET (Labels \ RateLabels)]
    /\ Profiles \subseteq SUBSET (Labels \ RateLabels)

VARIABLES
    clock,
    ipCounters, fpCounters,  \* key |-> times of its requests
    precheck,                \* where each precheck is
    decision,                \* the last decision taken (history)
    seen                     \* key |-> times of all its requests, never pruned (history)

vars == <<clock, ipCounters, fpCounters, precheck, decision, seen>>

Times == 0..MaxClock
Idle  == [pc |-> "idle"]
Asks  == [ip : IPs, fp : Fingerprints \cup {Missing}, profile : Profiles,
          policy : ScenePolicies, at : Times]
NoDecision == [labels |-> {}]

\* Engine.Evaluate's clamp holds: a decision has a score from 0 to 100 and an
\* action, whatever labels came together.
TypeOK ==
    /\ clock \in Times
    /\ \A ip \in IPs : ipCounters[ip] \in Seq(Times)
    /\ \A fp \in Fingerprints : fpCounters[fp] \in Seq(Times)
    /\ precheck \in [Prechecks -> {Idle} \cup [pc : {"rating"}, ask : Asks]]
    /\ decision \in {NoDecision} \cup
          [ask : Asks, labels : SUBSET Labels, score : Scores, action : Actions]
    /\ \A key \in IPs \cup Fingerprints : seen[key] \in Seq(Times)

Init ==
    /\ clock = 0
    /\ ipCounters = [ip \in IPs |-> <<>>]
    /\ fpCounters = [fp \in Fingerprints |-> <<>>]
    /\ precheck = [h \in Prechecks |-> Idle]
    /\ decision = NoDecision
    /\ seen = [key \in IPs \cup Fingerprints |-> <<>>]

\* Time passes, but no request waits for the mutex longer than MaxLag.
Tick ==
    /\ clock < MaxClock
    /\ \A h \in Prechecks : precheck[h] # Idle => clock - precheck[h].ask.at < MaxLag
    /\ clock' = clock + 1
    /\ UNCHANGED <<ipCounters, fpCounters, precheck, decision, seen>>

Arrive(h, ip, fp, profile, policy) ==
    /\ precheck[h] = Idle
    /\ Len(seen[ip]) < MaxRequests
    /\ precheck' = [precheck EXCEPT ![h] = [pc |-> "rating", ask |->
          [ip |-> ip, fp |-> fp, profile |-> profile, policy |-> policy, at |-> clock]]]
    /\ UNCHANGED <<clock, ipCounters, fpCounters, decision, seen>>

\* Variant: only the minute that is counted is kept.
RecordedMinute(times, now) == PruneOld(Append(times, now), now, Minute)

\* The list of a key once this request is in it.
Recorded(times, now) == PruneOld(Append(times, now), now, Hour)

RateLabel(n, tiers, elevated, high, extreme) ==
    CASE n > tiers[3] -> {extreme}
      [] n > tiers[2] /\ n <= tiers[3] -> {high}
      [] n > tiers[1] /\ n <= tiers[2] -> {elevated}
      [] OTHER -> {}

\* Variant: a time after the request's own is taken for an error and not counted.
InLastMinutePast(times, now) ==
    CountSince(times, now - Minute) - CountSince(times, now + 1)

InLastMinute(times, now) == CountSince(times, now - Minute)

IPRate(times, now) ==
    RateLabel(InLastMinute(times, now), IPTiers, "ip_rate_elevated", "ip_rate_high", "ip_rate_extreme")

FPRate(times, now) ==
    RateLabel(InLastMinute(times, now), FPTiers, "fp_rate_elevated", "fp_rate_high", "fp_rate_extreme")

\* The sum of the six layers, clamped.
Score(labels) ==
    LET total == MapThenSumSet(LAMBDA l : Points[l], labels) IN IF total > 100 THEN 100 ELSE total

\* Engine.Evaluate under the mutex, and the policy on its score.  An address that
\* does not parse is on no list.
Decide(h) ==
    LET ask   == precheck[h].ask
        ipList == Recorded(ipCounters[ask.ip], ask.at)
        fpList == IF ask.fp = Missing THEN <<>> ELSE Recorded(fpCounters[ask.fp], ask.at)
        labels == IPLabels[ask.ip] \cup ask.profile \cup IPRate(ipList, ask.at)
                    \cup (IF ask.fp = Missing THEN {"missing_fingerprint"} ELSE FPRate(fpList, ask.at))
    IN
    /\ precheck[h].pc = "rating"
    /\ ipCounters' = [ipCounters EXCEPT ![ask.ip] = ipList]
    /\ fpCounters' = IF ask.fp = Missing THEN fpCounters
                     ELSE [fpCounters EXCEPT ![ask.fp] = fpList]
    /\ decision' = [ask |-> ask, labels |-> labels, score |-> Score(labels),
                    action |-> Evaluate(Score(labels), ask.policy, ask.ip)]
    /\ seen' = [key \in DOMAIN seen |->
                  IF key \in {ask.ip, ask.fp} THEN Append(seen[key], ask.at) ELSE seen[key]]
    /\ precheck' = [precheck EXCEPT ![h] = Idle]
    /\ UNCHANGED clock

Next ==
    \/ Tick
    \/ \E h \in Prechecks :
          \/ \E ip \in IPs, fp \in Fingerprints \cup {Missing},
                profile \in Profiles, policy \in ScenePolicies :
                Arrive(h, ip, fp, profile, policy)
          \/ Decide(h)

Spec == Init /\ [][Next]_vars
-----------------------------------------------------------------------------
\* Pruning never costs a request its count: the rate a decision was taken with is
\* the one all requests so far make, also when they were recorded in another order
\* than they were stamped.
RatesComplete ==
    decision # NoDecision =>
        LET ask == decision.ask IN
        /\ IPRate(seen[ask.ip], ask.at) \subseteq decision.labels
        /\ ask.fp # Missing => FPRate(seen[ask.fp], ask.at) \subseteq decision.labels
        /\ Cardinality(decision.labels \cap {"ip_rate_elevated", "ip_rate_high", "ip_rate_extreme"}) <= 1

SameClient(d, e) == [d EXCEPT !.at = e.at] = e

\* A burst never gets easier: of two consecutive decisions on one client's
\* requests, the second is at least as severe unless it is stamped later.
BurstEscalates ==
    [][decision # NoDecision /\ decision' # NoDecision =>
          (SameClient(decision.ask, decision'.ask) /\ decision'.ask.at <= decision.ask.at
              => /\ decision'.score >= decision.score
                 /\ Severity[decision'.action] >= Severity[decision.action])]_vars
=============================================================================
