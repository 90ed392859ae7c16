------------------------------- MODULE Policy -------------------------------
(***************************************************************************)
(* internal/service/policy/engine.go and templates.go: the action a policy *)
(* maps a risk score to, and the ready-made policies of six industries.    *)
(* Scores and thresholds are whole points.                                 *)
(***************************************************************************)
EXTENDS Integers

Scores == 0..100

Actions == {"pass", "invisible", "challenge", "deny"}

Severity == [pass |-> 0, invisible |-> 1, challenge |-> 2, deny |-> 3]
NoPolicy == [enabled |-> FALSE]

Template(low, high, actionLow, actionMid, actionHigh) ==
    [enabled |-> TRUE, low |-> low, high |-> high, whitelist |-> {}, blacklist |-> {},
     actionLow |-> actionLow, actionMid |-> actionMid, actionHigh |-> actionHigh]

templates ==
    [ecommerce |-> Template(25, 60, "pass", "challenge", "deny"),
     fintech   |-> Template(15, 40, "invisible", "challenge", "deny"),
     gaming    |-> Template(30, 65, "pass", "challenge", "deny"),
     social    |-> Template(20, 55, "pass", "challenge", "deny"),
     education |-> Template(35, 70, "pass", "invisible", "challenge"),
     ticketing |-> Template(10, 35, "invisible", "challenge", "deny")]

\* The action of a policy that names none.
Coalesce(action, fallback) == IF action = "" THEN fallback ELSE action

DefaultAction(score) ==
    CASE score <= 20 -> "pass"
      [] score \in 21..50 -> "invisible"
      [] score \in 51..75 -> "challenge"
      [] OTHER -> "deny"

\* The case of a score: the low threshold is tried first.
ByThreshold(score, policy) ==
    IF score <= policy.low THEN Coalesce(policy.actionLow, "pass")
    ELSE IF score <= policy.high THEN Coalesce(policy.actionMid, "challenge")
    ELSE Coalesce(policy.actionHigh, "deny")

\* Engine.Evaluate.  A list stands for the parsable addresses its entries match.
Evaluate(score, policy, ip) ==
    IF ~policy.enabled THEN DefaultAction(score)
    ELSE IF ip \in policy.whitelist THEN "pass"
    ELSE IF ip \in policy.blacklist THEN "deny"
    ELSE ByThreshold(score, policy)
=============================================================================
