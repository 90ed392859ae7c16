---------------------------- MODULE MCRiskEngine ----------------------------
(* Two prechecks race behind one bad address; a clean browser and a         *)
(* headless one; tiers that a handful of requests can pass.                 *)
EXTENDS RiskEngine, TLC

MCIPLabels == [ip \in IPs |-> {"blacklisted_ip", "datacenter_ip"}]

MCProfiles == {{}, {"bot_ua", "headless_browser", "webdriver_detected", "low_mouse_entropy"}}

MCPolicies == {NoPolicy, templates["ticketing"]}

MCIPTiers == <<1, 2, 3>>

MCFPTiers == <<0, 1, 2>>

Symmetry == Permutations(Prechecks)
=============================================================================
