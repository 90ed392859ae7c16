----------------------------- MODULE SiteVerify -----------------------------
(***************************************************************************)
(* internal/service/verify/service.go: redeeming a token at /v1/siteverify.*)
(* Each request runs in a goroutine of its own.  The only lock is held     *)
(* while the used-token map is read and marked, so time may pass and other *)
(* requests may run between any two steps of a request.  A background loop *)
(* drops old marks.  The signing key is configuration and survives a       *)
(* restart; the used-token map and the verify results are in memory and do *)
(* not.  Error codes and the metadata copied into the reply are left out.  *)
(***************************************************************************)
EXTENDS Integers, FiniteSets, Functions

CONSTANTS
    Ids,          \* challenge ids (uuids) a token can carry
    Requests,     \* concurrent /v1/siteverify requests
    Secrets,      \* secret keys a customer backend may send
    AppSecrets,   \* the ones that belong to a registered app
    Second,       \* clock ticks in one second, the precision of a token's stamp
    TokenTTL,     \* ten minutes
    Retention,    \* fifteen minutes, how long a mark is kept
    MaxClock      \* bound on the clock

ASSUME SecondAssumption == Second \in Nat \ {0}
ASSUME RetentionAssumption == TokenTTL \in Nat /\ Retention \in Nat /\ TokenTTL <= Retention
ASSUME MaxClockAssumption == MaxClock \in Nat
ASSUME SecretsAssumption == AppSecrets \subseteq Secrets

VARIABLES
    clock,        \* time.Now()
    issued,       \* the tokens signed with the key so far
    usedTokens,   \* token |-> when it was marked (a partial function)
    results,      \* token |-> number of verify results this process stored for it
    call          \* where each request is, and the token it carries

vars == <<clock, issued, usedTokens, results, call>>

Times  == 0..MaxClock
Tokens == [id : Ids, ts : Times]

Idle == [pc |-> "idle"]
Busy == [pc : {"checked", "marked", "fresh"}, token : Tokens]

\* RFC3339 keeps whole seconds: the stamp of a token signed now.
Stamp == clock - (clock % Second)

\* time.Since(ts) > 10*time.Minute
Expired(t) == clock - t.ts > TokenTTL

\* Request r has marked t and not answered yet.
Holds(r, t) == call[r].pc \in {"marked", "fresh"} /\ call[r].token = t

\* Marks, results and requests carry only tokens and times that can exist: a mark
\* is never dated in the future, and a token's stamp is on the clock.
TypeOK ==
    /\ clock \in Times
    /\ issued \subseteq Tokens
    /\ DOMAIN usedTokens \subseteq Tokens
    /\ usedTokens \in [DOMAIN usedTokens -> Times]
    /\ results \in [Tokens -> Nat]
    /\ call \in [Requests -> {Idle} \cup Busy]

Init ==
    /\ clock = 0
    /\ issued = {}
    /\ usedTokens = [t \in {} |-> 0]
    /\ results = [t \in Tokens |-> 0]
    /\ call = [r \in Requests |-> Idle]
-----------------------------------------------------------------------------
Tick ==
    /\ clock < MaxClock
    /\ clock' = clock + 1
    /\ UNCHANGED <<issued, usedTokens, results, call>>

\* Engine.signToken and Service.GenerateToken.
SignToken(id) ==
    /\ issued' = issued \cup {[id |-> id, ts |-> Stamp]}
    /\ UNCHANGED <<clock, usedTokens, results, call>>

\* A request arrives: an unknown secret or a wrong signature is refused at once.
Submit(r, secret, t) ==
    /\ call[r] = Idle
    /\ secret \in AppSecrets
    /\ t \in issued
    /\ call' = [call EXCEPT ![r] = [pc |-> "checked", token |-> t]]
    /\ UNCHANGED <<clock, issued, usedTokens, results>>

\* Under the lock: a token already marked is refused, any other is marked now.
MarkUsed(r) ==
    /\ call[r].pc = "checked"
    /\ LET t == call[r].token IN
         \/ /\ t \in DOMAIN usedTokens
            /\ call' = [call EXCEPT ![r] = Idle]
            /\ UNCHANGED usedTokens
         \/ /\ t \notin DOMAIN usedTokens
            /\ call' = [call EXCEPT ![r].pc = "marked"]
            /\ usedTokens' = [u \in DOMAIN usedTokens \cup {t} |->
                                 IF u = t THEN clock ELSE usedTokens[u]]
    /\ UNCHANGED <<clock, issued, results>>

\* Variant: the age is not read.
SkipAge(r) ==
    /\ call[r].pc = "marked"
    /\ call' = [call EXCEPT ![r].pc = "fresh"]
    /\ UNCHANGED <<clock, issued, usedTokens, results>>

\* Variant: a token of exactly ten minutes is refused too.
CheckAgeStrict(r) ==
    /\ call[r].pc = "marked"
    /\ \/ /\ clock - call[r].token.ts >= TokenTTL
          /\ call' = [call EXCEPT ![r] = Idle]
       \/ /\ clock - call[r].token.ts < TokenTTL
          /\ call' = [call EXCEPT ![r].pc = "fresh"]
    /\ UNCHANGED <<clock, issued, usedTokens, results>>

\* The age is read after the lock is released; an expired token stays marked.
CheckAge(r) ==
    /\ call[r].pc = "marked"
    /\ \/ /\ Expired(call[r].token)
          /\ call' = [call EXCEPT ![r] = Idle]
       \/ /\ ~Expired(call[r].token)
          /\ call' = [call EXCEPT ![r].pc = "fresh"]
    /\ UNCHANGED <<clock, issued, usedTokens, results>>

\* The session's metadata is copied, a verify result stored, and success answered.
Succeed(r) ==
    /\ call[r].pc = "fresh"
    /\ results' = [results EXCEPT ![call[r].token] = @ + 1]
    /\ call' = [call EXCEPT ![r] = Idle]
    /\ UNCHANGED <<clock, issued, usedTokens>>

\* Variant: a mark is dropped as soon as the clock has moved.
CleanupEarly ==
    /\ usedTokens' = Restrict(usedTokens, {t \in DOMAIN usedTokens : usedTokens[t] >= clock})
    /\ UNCHANGED <<clock, issued, results, call>>

\* Variant: the comparison with the cutoff is turned round.
CleanupReversed ==
    /\ usedTokens' = Restrict(usedTokens, {t \in DOMAIN usedTokens : clock - usedTokens[t] >= 0})
    /\ UNCHANGED <<clock, issued, results, call>>

\* One turn of cleanupLoop.
Cleanup ==
    /\ usedTokens' = Restrict(usedTokens,
                              {t \in DOMAIN usedTokens : clock - usedTokens[t] <= Retention})
    /\ UNCHANGED <<clock, issued, results, call>>

\* The process dies and a new one starts: everything in memory is gone.
Restart ==
    /\ usedTokens' = [t \in {} |-> 0]
    /\ results' = [t \in Tokens |-> 0]
    /\ call' = [r \in Requests |-> Idle]
    /\ UNCHANGED <<clock, issued>>

Step(r) == MarkUsed(r) \/ CheckAge(r) \/ Succeed(r)

Next ==
    \/ Tick
    \/ Cleanup
    \/ Restart
    \/ \E id \in Ids : SignToken(id)
    \/ \E r \in Requests : Step(r) \/ \E s \in Secrets, t \in Tokens : Submit(r, s, t)

\* Goroutines are scheduled fairly, and the ticker of cleanupLoop keeps firing.
Fairness == WF_vars(Cleanup) /\ \A r \in Requests : WF_vars(Step(r))

Spec == Init /\ [][Next]_vars

FairSpec == Spec /\ Fairness
-----------------------------------------------------------------------------
\* Replay prevention (SiteVerify, lines 71-79): however requests and cleanup
\* interleave, and however long a request stalls between its mark and its age
\* check, one process answers success at most once for a token.
AtMostOnce == \A t \in Tokens : results[t] <= 1

\* The map cannot be filled with made-up tokens: only a token that was signed
\* is ever marked (the signature is checked before the mark).
MarksOnlySigned == DOMAIN usedTokens \subseteq issued

\* A mark never costs a customer a good token: one that is marked was answered
\* with success, or is being answered, or was too old anyway.
NoTokenLost ==
    \A t \in DOMAIN usedTokens :
        results[t] > 0 \/ Expired(t) \/ \E r \in Requests : Holds(r, t)

\* The used-token map does not grow for ever: a mark past its retention is
\* dropped by cleanupLoop.
StaleMarksLeave ==
    \A t \in Tokens :
        (t \in DOMAIN usedTokens /\ clock - usedTokens[t] > Retention)
            ~> t \notin DOMAIN usedTokens

\* A token counts as spent from the moment its request passes the age check.
Spent == {t \in Tokens : results[t] > 0 \/ \E r \in Requests :
                            call[r].pc = "fresh" /\ call[r].token = t}

Abstract == INSTANCE OneTimeToken WITH spent <- Spent

\* The service is the one-time token it promises to be.
RedeemsOnce == Abstract!Spec
=============================================================================
