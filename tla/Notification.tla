---------------------------- MODULE Notification ----------------------------
(***************************************************************************)
(* What webhook delivery promises the owner of an endpoint, with no        *)
(* network, no goroutines and no store: a notification that is owed is     *)
(* tried a bounded number of times.  It ends confirmed, and then the       *)
(* endpoint has it and is not tried again, or abandoned, and then every    *)
(* try was used up.  A try brings at most one copy, and copies may come    *)
(* late: the endpoint sees each notification at most MaxTries times.       *)
(***************************************************************************)
EXTENDS Integers

CONSTANTS
    Notes,      \* the notifications there may be
    MaxTries    \* how often each of them is tried

VARIABLES
    status,     \* notification |-> "none", "owed", "confirmed" or "abandoned"
    tries,      \* notification |-> tries begun
    copies      \* notification |-> copies the endpoint has received

vars == <<status, tries, copies>>

Init ==
    /\ status = [n \in Notes |-> "none"]
    /\ tries  = [n \in Notes |-> 0]
    /\ copies = [n \in Notes |-> 0]

\* An event happened that a subscription asks for; its other subscribers are owed
\* theirs at the same moment or later.
Owe(n) ==
    /\ status[n] = "none"
    /\ status' = [status EXCEPT ![n] = "owed"]
    /\ UNCHANGED <<tries, copies>>

Try(n) ==
    /\ status[n] = "owed"
    /\ tries[n] < MaxTries
    /\ tries' = [tries EXCEPT ![n] = @ + 1]
    /\ UNCHANGED <<status, copies>>

\* A copy arrives, of any try made so far.
Receive(n) ==
    /\ copies[n] < tries[n]
    /\ copies' = [copies EXCEPT ![n] = @ + 1]
    /\ UNCHANGED <<status, tries>>

Confirm(n) ==
    /\ status[n] = "owed"
    /\ copies[n] > 0
    /\ status' = [status EXCEPT ![n] = "confirmed"]
    /\ UNCHANGED <<tries, copies>>

Abandon(n) ==
    /\ status[n] = "owed"
    /\ tries[n] = MaxTries
    /\ status' = [status EXCEPT ![n] = "abandoned"]
    /\ UNCHANGED <<tries, copies>>

Next == \E n \in Notes : Owe(n) \/ Try(n) \/ Receive(n) \/ Confirm(n) \/ Abandon(n)

Spec == Init /\ [][Next]_vars
=============================================================================
