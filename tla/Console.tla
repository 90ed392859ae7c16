------------------------------ MODULE Console -------------------------------
(* The parts of the server behind the console's endpoints: accounts and    *)
(* apps, the threat monitor, the threat network, webhooks.  They share no  *)
(* variable, so interleaving the steps of two parts reaches nothing that   *)
(* either can tell: each part is explored while the others are as they     *)
(* start.  What is proved of a part is proved of its own specification.    *)
EXTENDS Webhook

CONSTANTS
    Regs, Email, Password, Logins, DemoTenant, DemoApp, NewApps, NewKeys, Nobody,
    Seeds, NewEvents, Kept, MaxMitigated,
    Keys, Sources, Severities, Reporters, MaxClock, MaxLag, MaxReports

\* A report waits for the lock for a time that has a bound.
ASSUME LagAssumption == MaxLag \in Nat

\* The seeded events have a status each, and some events are kept.
ASSUME SeedAssumption ==
    Seeds \in Seq({"active", "mitigated", "resolved"}) /\ Kept \in Nat \ {0}

VARIABLES
    users, roles, apiKeys, issued, apps, siteKeys, secretKeys, registering, found, login, answers,
    events, status, writing, dash, counts, touched,
    clock, request, records

accountVars == <<users, roles, apiKeys, issued, apps, siteKeys, secretKeys,
                 registering, found, login, answers>>
monitorVars == <<events, status, writing, dash, counts, touched>>
networkVars == <<clock, request, records>>
consoleVars == <<accountVars, monitorVars, networkVars, vars>>

Access  == INSTANCE Accounts
Monitor == INSTANCE ThreatMonitor
Network == INSTANCE ThreatNetwork

AccountsIdle == Access!Init
MonitorIdle  == Monitor!Init
NetworkIdle  == Network!Init
HooksIdle    == Init

ConsoleInit == AccountsIdle /\ MonitorIdle /\ NetworkIdle /\ HooksIdle

ConsoleNext ==
    \/ /\ Access!Next /\ MonitorIdle /\ NetworkIdle /\ HooksIdle
       /\ UNCHANGED <<monitorVars, networkVars, vars>>
    \/ /\ Monitor!Next /\ AccountsIdle /\ NetworkIdle /\ HooksIdle
       /\ UNCHANGED <<accountVars, networkVars, vars>>
    \/ /\ Network!Next /\ AccountsIdle /\ MonitorIdle /\ HooksIdle
       /\ UNCHANGED <<accountVars, monitorVars, vars>>
    \/ /\ Next /\ AccountsIdle /\ MonitorIdle /\ NetworkIdle
       /\ UNCHANGED <<accountVars, monitorVars, networkVars>>

ConsoleSpec == ConsoleInit /\ [][ConsoleNext]_consoleVars /\ Fairness
-----------------------------------------------------------------------------
\* Accounts: the key indexes agree with the apps.
KeysResolve == Access!KeysResolve

\* Accounts: a login is told the tenant of the registration it gave the password of.
LoginOwnTenant == Access!LoginOwnTenant

\* Accounts: only an overlapping registration replaces an account.
ReplacedOnlyByOverlap == Access!ReplacedOnlyByOverlap

\* ThreatMonitor: the summary adds up, but for what was mitigated meanwhile.
DashboardCounts == Monitor!DashboardCounts

\* ThreatNetwork: reports only ever raise a boost, time lowers it.
BoostFollowsReports == Network!BoostFollowsReports

\* ThreatNetwork: first and last times are right to within the wait for the lock.
SeenWithinLag == Network!SeenWithinLag
=============================================================================
