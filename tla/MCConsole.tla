----------------------------- MODULE MCConsole ------------------------------
(* Two registrations of one address with different passwords; seeded and   *)
(* new threats in a list that is full; two reporters with severities below *)
(* and above the range, and one that is refused; two events and two        *)
(* subscriptions, one of them with a URL that does not parse.              *)
EXTENDS Console, TLC

CONSTANTS
    r1, r2, e1, p1, p2, anyApp, anyType, app, passed, failed, ev1, ev2

MCEmail == r1 :> e1 @@ r2 :> e1

MCPassword == r1 :> p1 @@ r2 :> p2

MCSeeds == <<"active", "mitigated", "active", "resolved", "active">>

MCSeverities == {-5, 0, 20}

MCForm ==
    anyApp :> [app |-> Wildcard, events |-> {passed}, goodURL |-> TRUE]
    @@ anyType :> [app |-> app, events |-> {Wildcard}, goodURL |-> FALSE]

MCKind == ev1 :> [app |-> app, type |-> passed] @@ ev2 :> [app |-> app, type |-> failed]
=============================================================================
