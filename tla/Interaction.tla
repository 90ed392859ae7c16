---------------------------- MODULE Interaction -----------------------------
(***************************************************************************)
(* What the server promises about one CAPTCHA interaction, with no         *)
(* handlers, engine, tokens or clock: it is opened once, resolved once,    *)
(* and a customer's backend is told success at most once, only of one that *)
(* was passed, and never of one that was denied.  A restart forgets how    *)
(* interactions stood, and the new process may tell once more.             *)
(***************************************************************************)
EXTENDS Naturals

CONSTANT Ids    \* the interactions there may be

VARIABLES
    verdict,    \* interaction |-> how it stands
    denied,     \* the interactions that were denied when they were opened
    successes   \* interaction |-> how often this process has reported success

vars == <<verdict, denied, successes>>

Init ==
    /\ verdict = [i \in Ids |-> "none"]
    /\ denied = {}
    /\ successes = [i \in Ids |-> 0]

Open(i) ==
    /\ verdict[i] = "none"
    /\ verdict' = [verdict EXCEPT ![i] = "pending"]
    /\ denied' \in {denied, denied \cup {i}}
    /\ UNCHANGED successes

Resolve(i) ==
    /\ verdict[i] = "pending"
    /\ \/ i \notin denied /\ verdict' = [verdict EXCEPT ![i] = "passed"]
       \/ verdict' = [verdict EXCEPT ![i] = "failed"]
    /\ UNCHANGED <<denied, successes>>

Report(i) ==
    /\ verdict[i] \in {"passed", "forgotten"} /\ i \notin denied
    /\ successes[i] = 0
    /\ successes' = [successes EXCEPT ![i] = 1]
    /\ UNCHANGED <<verdict, denied>>

Restart ==
    /\ verdict' = [i \in Ids |-> IF verdict[i] = "none" THEN "none" ELSE "forgotten"]
    /\ successes' = [i \in Ids |-> 0]
    /\ UNCHANGED denied

Next == Restart \/ \E i \in Ids : Open(i) \/ Resolve(i) \/ Report(i)

Spec == Init /\ [][Next]_vars
=============================================================================
