---------------------------- MODULE OneTimeToken ----------------------------
(***************************************************************************)
(* What a token-verification service promises, with none of its machinery: *)
(* a token that was signed can be redeemed once during the life of the     *)
(* server process, and not once it is older than its time to live.  There  *)
(* are no requests, no marks and no cleanup here.                          *)
(***************************************************************************)
EXTENDS Integers

CONSTANTS
    Tokens,      \* what may be signed; a token t carries its time stamp t.ts
    TokenTTL,    \* a token older than this is refused
    MaxClock     \* bound on the clock

VARIABLES
    clock,       \* the current time
    issued,      \* the tokens signed so far
    spent        \* the tokens redeemed by the running server process

vars == <<clock, issued, spent>>

Init == clock = 0 /\ issued = {} /\ spent = {}

Tick == clock < MaxClock /\ clock' = clock + 1 /\ UNCHANGED <<issued, spent>>

\* A token is signed with a stamp that is not in the future.
Issue(t) == t.ts <= clock /\ issued' = issued \cup {t} /\ UNCHANGED <<clock, spent>>

Redeem(t) ==
    /\ t \in issued \ spent
    /\ clock - t.ts <= TokenTTL
    /\ spent' = spent \cup {t}
    /\ UNCHANGED <<clock, issued>>

\* A new process knows nothing of what the last one accepted.
Forget == spent' = {} /\ UNCHANGED <<clock, issued>>

Next == Tick \/ Forget \/ \E t \in Tokens : Issue(t) \/ Redeem(t)

Spec == Init /\ [][Next]_vars
=============================================================================
