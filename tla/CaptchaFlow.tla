---------------------------- MODULE CaptchaFlow -----------------------------
(***************************************************************************)
(* One CAPTCHA interaction from end to end, as cmd/server wires it:        *)
(* internal/handler/precheck.go and challenge.go over the session store of *)
(* internal/repository/memory.go, the challenge engine and siteverify.     *)
(* Every HTTP request is a goroutine; each call of the store, the engine   *)
(* or the verify service locks for itself, and requests interleave between *)
(* the calls.  A request the handlers refuse (404, 409) changes nothing.   *)
(* The risk score is abstracted to the policy's decision.  The engine's    *)
(* CleanExpired has no caller, so it is no part of this system.            *)
(***************************************************************************)
EXTENDS Integers, Sequences, FiniteSets, FiniteSetsExt, Functions

CONSTANTS
    Ids,         \* uuids, of sessions and of engine challenges
    Handlers,    \* concurrent precheck, render and verify requests
    Requests,    \* concurrent siteverify requests
    SliderTargets, PuzzleTargets, ClickIds, Answers, Second, AnswerTTL,  \* of the engine
    Secrets, AppSecrets, TokenTTL, Retention,                            \* of siteverify
    Seeded,      \* session id |-> ChallengeSession that MemoryStore.seed stores for the statistics
    MaxClock     \* bound on the clock

\* What the engine and siteverify assume of their constants.
ASSUME TargetAssumption == SliderTargets \subseteq 60..249 /\ PuzzleTargets \subseteq 50..269
ASSUME TimeAssumption == Second \in Nat \ {0} /\ AnswerTTL \in Nat /\ MaxClock \in Nat
ASSUME RetentionAssumption == TokenTTL \in Nat /\ Retention \in Nat /\ TokenTTL <= Retention
ASSUME SecretsAssumption == AppSecrets \subseteq Secrets

VARIABLES
    clock,
    answers, signed, configs, calls,  \* of the engine
    usedTokens, results, call,        \* of siteverify
    sessions,    \* session id |-> ChallengeSession, the store's map (a partial function)
    handler,     \* where each handler is
    decided,     \* session id |-> what the policy decided (history)
    announced,   \* session ids that clients have been told (history)
    madeFor      \* engine id |-> the session it was generated for (history)

engineVars == <<answers, signed, configs, calls>>
verifyVars == <<usedTokens, results, call>>
flowVars   == <<sessions, handler, decided, announced, madeFor>>
vars == <<clock, engineVars, verifyVars, flowVars>>

Engine == INSTANCE ChallengeEngine WITH Callers <- Handlers
Verify == INSTANCE SiteVerify WITH issued <- signed

ASSUME AnswersAssumption == Answers \subseteq Engine!AnswerShapes

Actions  == {"pass", "invisible", "challenge", "deny"}
Statuses == {"pending", "passed", "failed", "expired"}
Idle == [pc |-> "idle"]

\* ch-seed-0 .. ch-seed-4 are no uuids, and none of them is pending.
ASSUME SeededAssumption ==
    /\ DOMAIN Seeded \cap Ids = {}
    /\ \A sid \in DOMAIN Seeded :
          Seeded[sid] \in [type : {"slider"}, status : Statuses \ {"pending"}]

\* Engine.SelectChallengeType of the policy engine, for some score.
SelectChallengeType(action) ==
    CASE action = "challenge" -> {"slider", "click"}
      [] action = "deny" -> {"puzzle"}
      [] OTHER -> {"invisible"}

\* The engine, siteverify and the session store keep their own types when they are
\* combined; every engine challenge belongs to a session a precheck decided on.
TypeOK ==
    /\ Engine!TypeOK
    /\ Verify!TypeOK
    /\ DOMAIN sessions \subseteq Ids \cup DOMAIN Seeded
    /\ \A sid \in DOMAIN sessions : sessions[sid] \in [type : Engine!Types, status : Statuses]
    /\ handler \in [Handlers -> {Idle} \cup [pc : {"granting", "granted"}, sid : Ids]
                                 \cup [pc : {"rendering"}, sid : Ids, type : Engine!Types]
                                 \cup [pc : {"verifying"}, sid : Ids, answer : Answers]]
    /\ DOMAIN decided \subseteq Ids /\ Range(decided) \subseteq Actions
    /\ announced \subseteq DOMAIN decided
    /\ DOMAIN madeFor = DOMAIN configs /\ Range(madeFor) \subseteq DOMAIN decided

Init ==
    /\ Engine!Init
    /\ Verify!Init
    /\ sessions = Seeded
    /\ handler = [h \in Handlers |-> Idle]
    /\ decided = [sid \in {} |-> 0]
    /\ announced = {}
    /\ madeFor = [id \in {} |-> 0]

\* The session ids a client may send: those it was told and those anyone may guess.
\* (Any other id is answered 404.)
Known == announced \cup DOMAIN Seeded

Fresh == Ids \ (DOMAIN decided \cup DOMAIN configs)

\* MemoryStore.UpdateChallengeStatus.
UpdateStatus(sid, status) ==
    sessions' = IF sid \in DOMAIN sessions
                  THEN [sessions EXCEPT ![sid].status = status] ELSE sessions
-----------------------------------------------------------------------------
(* POST /v1/risk/precheck *)

\* The decision is taken and the session saved; a challenge or a denial is
\* answered with the session's id, a pass goes on to its token.
PrecheckSave(h, sid, action) ==
    /\ handler[h] = Idle
    /\ sid \in Fresh
    /\ \E type \in SelectChallengeType(action) :
          sessions' = Engine!Put(sessions, sid, [type |-> type, status |-> "pending"])
    /\ decided' = Engine!Put(decided, sid, action)
    /\ \/ /\ action \in {"pass", "invisible"}
          /\ handler' = [handler EXCEPT ![h] = [pc |-> "granting", sid |-> sid]]
          /\ UNCHANGED announced
       \/ /\ action \in {"challenge", "deny"}
          /\ announced' = announced \cup {sid}
          /\ UNCHANGED handler
    /\ UNCHANGED <<clock, engineVars, verifyVars, madeFor>>

\* The token is made under an engine id of its own.
PrecheckSign(h, id) ==
    /\ handler[h].pc = "granting"
    /\ id \in Fresh
    /\ Engine!GenerateChallenge(id, "invisible")
    /\ madeFor' = Engine!Put(madeFor, id, handler[h].sid)
    /\ handler' = [handler EXCEPT ![h].pc = "granted"]
    /\ UNCHANGED <<verifyVars, sessions, decided, announced>>

\* Variant: the reply leaves without the status being stored.
PrecheckPassUnstored(h) ==
    /\ handler[h].pc = "granted"
    /\ announced' = announced \cup {handler[h].sid}
    /\ handler' = [handler EXCEPT ![h] = Idle]
    /\ UNCHANGED <<clock, engineVars, verifyVars, sessions, decided, madeFor>>

\* The session is marked passed, then the token is sent.
PrecheckPass(h) ==
    /\ handler[h].pc = "granted"
    /\ UpdateStatus(handler[h].sid, "passed")
    /\ announced' = announced \cup {handler[h].sid}
    /\ handler' = [handler EXCEPT ![h] = Idle]
    /\ UNCHANGED <<clock, engineVars, verifyVars, decided, madeFor>>
-----------------------------------------------------------------------------
(* POST /v1/challenge/render *)

\* The handlers read the status through the store's pointer, outside its lock; half of
\* "pending" and half of another status is not "pending", as the other one is not.
Pending(sid) == sid \in DOMAIN sessions /\ sessions[sid].status = "pending"

RenderRead(h, sid) ==
    /\ handler[h] = Idle
    /\ sid \in Known
    /\ Pending(sid)
    /\ handler' = [handler EXCEPT ![h] =
                     [pc |-> "rendering", sid |-> sid, type |-> sessions[sid].type]]
    /\ UNCHANGED <<clock, engineVars, verifyVars, sessions, decided, announced, madeFor>>

\* The engine stores the answer under a new id; the config is sent with the
\* session's id in its place.
RenderGenerate(h, id) ==
    /\ handler[h].pc = "rendering"
    /\ id \in Fresh
    /\ Engine!GenerateChallenge(id, handler[h].type)
    /\ madeFor' = Engine!Put(madeFor, id, handler[h].sid)
    /\ handler' = [handler EXCEPT ![h] = Idle]
    /\ UNCHANGED <<verifyVars, sessions, decided, announced>>
-----------------------------------------------------------------------------
(* POST /v1/challenge/verify *)

\* Variant: the status is not looked at.
VerifyReadAny(h, sid, answer) ==
    /\ handler[h] = Idle
    /\ sid \in Known
    /\ sid \in DOMAIN sessions
    /\ handler' = [handler EXCEPT ![h] = [pc |-> "verifying", sid |-> sid, answer |-> answer]]
    /\ UNCHANGED <<clock, engineVars, verifyVars, sessions, decided, announced, madeFor>>

VerifyRead(h, sid, answer) ==
    /\ handler[h] = Idle
    /\ sid \in Known
    /\ Pending(sid)
    /\ handler' = [handler EXCEPT ![h] = [pc |-> "verifying", sid |-> sid, answer |-> answer]]
    /\ UNCHANGED <<clock, engineVars, verifyVars, sessions, decided, announced, madeFor>>

\* Variant: any answer rendered for the session is looked up.
ValidateRendered(h) ==
    /\ handler[h].pc = "verifying"
    /\ \/ \E id \in DOMAIN answers :
             madeFor[id] = handler[h].sid /\ Engine!Take(h, id, handler[h].answer)
       \/ Engine!Judge(h)
       \/ Engine!SignApproved(h)
    /\ UNCHANGED <<verifyVars, flowVars>>

\* ValidateChallenge, a step at a time, with the id of the request: the session's.
Validate(h) ==
    /\ handler[h].pc = "verifying"
    /\ \/ Engine!Take(h, handler[h].sid, handler[h].answer)
       \/ Engine!Judge(h)
       \/ Engine!SignApproved(h)
    /\ UNCHANGED <<verifyVars, flowVars>>

\* The verdict is stored and answered.
VerifyStore(h) ==
    /\ handler[h].pc = "verifying"
    /\ Engine!Return(h)
    /\ UpdateStatus(handler[h].sid, IF calls[h].valid THEN "passed" ELSE "failed")
    /\ handler' = [handler EXCEPT ![h] = Idle]
    /\ UNCHANGED <<verifyVars, decided, announced, madeFor>>
-----------------------------------------------------------------------------
(* POST /v1/siteverify: a customer backend sends a token its user was given. *)
Redeem(r) ==
    /\ \/ Verify!Step(r)
       \/ \E s \in Secrets, t \in signed :
             madeFor[t.id] \in announced /\ Verify!Submit(r, s, t)
    /\ UNCHANGED <<answers, configs, calls, flowVars>>

Cleanup == Verify!Cleanup /\ UNCHANGED <<answers, configs, calls, flowVars>>

Tick == Engine!Tick /\ UNCHANGED <<verifyVars, flowVars>>

\* The process dies with everything in memory, and the new one seeds its store;
\* tokens and clients remain.
Restart ==
    /\ Engine!Restart
    /\ Verify!Restart
    /\ sessions' = Seeded
    /\ handler' = [h \in Handlers |-> Idle]
    /\ UNCHANGED <<decided, announced, madeFor>>

Begin(h) ==
    \/ \E sid \in Ids, action \in Actions : PrecheckSave(h, sid, action)
    \/ \E sid \in Ids \cup DOMAIN Seeded :
          RenderRead(h, sid) \/ \E answer \in Answers : VerifyRead(h, sid, answer)

Next ==
    \/ Tick \/ Cleanup \/ Restart
    \/ \E h \in Handlers :
          \/ Begin(h) \/ PrecheckPass(h) \/ Validate(h) \/ VerifyStore(h)
          \/ \E id \in Ids : PrecheckSign(h, id) \/ RenderGenerate(h, id)
    \/ \E r \in Requests : Redeem(r)

Spec == Init /\ [][Next]_vars
-----------------------------------------------------------------------------
Verdict(sid) ==
    CASE sid \notin DOMAIN decided -> "none"
      [] sid \in DOMAIN decided \cap DOMAIN sessions -> sessions[sid].status
      [] OTHER -> "forgotten"

Promise == INSTANCE Interaction WITH
    verdict   <- [sid \in Ids |-> Verdict(sid)],
    denied    <- {sid \in DOMAIN decided : decided[sid] = "deny"},
    successes <- [sid \in Ids |-> MapThenSumSet(LAMBDA t : results[t],
                                                 {t \in signed : madeFor[t.id] = sid})]

\* The handlers, the engine and siteverify together implement Interaction: a resolved
\* session keeps its status, whatever answers to it are late or concurrent (the 409
\* checks of Render and Verify), and a customer is told success once, by one process,
\* of a passed session only.
ImplementsInteraction == Promise!Spec

\* When a customer's backend is told success, the session of that token is
\* recorded as passed (unless a restart lost the session).
RedeemedMeansPassed ==
    \A t \in signed : results[t] > 0 /\ madeFor[t.id] \in DOMAIN sessions
                        => sessions[madeFor[t.id]].status = "passed"

\* One interaction earns one success: over all the tokens signed for a session,
\* one server process answers success at most once.
OneSuccessPerSession ==
    \A t, u \in signed :
        results[t] > 0 /\ results[u] > 0 /\ madeFor[t.id] = madeFor[u.id]
            => t = u /\ results[t] = 1

\* A denied client gets no token, whatever it renders and answers afterwards.
DeniedGetNothing ==
    \A t \in signed : decided[madeFor[t.id]] # "deny"

\* "Override the challenge ID so the client maps it back to the session": the
\* right answer to a challenge rendered for a session, in time, is accepted.
RightAnswerAccepted ==
    \A h \in Handlers :
        handler[h].pc = "verifying" /\ calls[h] = [pc |-> "done", valid |-> FALSE] =>
            ~ \E id \in DOMAIN answers :
                 /\ madeFor[id] = handler[h].sid
                 /\ clock <= answers[id].expiresAt
                 /\ Engine!Accepts(answers[id], handler[h].answer)
=============================================================================
