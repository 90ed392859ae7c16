------------------------- MODULE CaptchaFlowProofs --------------------------
(***************************************************************************)
(* The whole interaction, for any ids, handlers, requests and answers.     *)
(* Its engine is ChallengeEngine and its siteverify SiteVerify, so what    *)
(* was proved of them alone holds of them here.  What they cannot know is  *)
(* how ids travel: a session's id is never an engine id, so an answer that *)
(* arrives with a session's id finds no record (NothingTaken), and tokens  *)
(* come from PrecheckSign alone, one for a session the policy let through. *)
(***************************************************************************)
EXTENDS CaptchaFlow, TLAPS

EngineP == INSTANCE ChallengeEngineProofs WITH Callers <- Handlers
VerifyP == INSTANCE SiteVerifyProofs WITH issued <- signed

HandlerStates == {Idle} \cup [pc : {"granting", "granted"}, sid : Ids]
                        \cup [pc : {"rendering"}, sid : Ids, type : Engine!Types]
                        \cup [pc : {"verifying"}, sid : Ids, answer : Answers]

\* Sessions, handlers and engine ids all belong to sessions that a precheck decided on,
\* except the seeded sessions, which stay as they were seeded.
FlowType ==
    /\ DOMAIN sessions \subseteq DOMAIN decided \cup DOMAIN Seeded
    /\ \A sid \in DOMAIN Seeded : sid \in DOMAIN sessions /\ sessions[sid] = Seeded[sid]
    /\ \A sid \in DOMAIN sessions : sessions[sid] \in [type : Engine!Types, status : Statuses]
    /\ handler \in [Handlers -> HandlerStates]
    /\ \A h \in Handlers : handler[h] # Idle => handler[h].sid \in DOMAIN sessions \cap DOMAIN decided
    /\ DOMAIN decided \subseteq Ids
    /\ \A sid \in DOMAIN decided : decided[sid] \in Actions
    /\ announced \subseteq DOMAIN decided
    /\ DOMAIN madeFor = DOMAIN configs
    /\ \A id \in DOMAIN madeFor : madeFor[id] \in DOMAIN decided
-----------------------------------------------------------------------------
\* GenerateChallenge returns a config for the id it was given, and for no other.
LEMMA GenerateConfigs ==
    ASSUME NEW id, NEW type, Engine!GenerateChallenge(id, type)
    PROVE  /\ DOMAIN configs' = DOMAIN configs \cup {id}
           /\ UNCHANGED <<clock, calls>>
BY DEF Engine!GenerateChallenge, Engine!GenerateInvisible, Engine!GenerateVisual, Engine!Put

\* A stored status changes no more than the status, of no session but its own.
LEMMA UpdateProperties ==
    ASSUME FlowType, NEW sid \in Ids, NEW status \in Statuses, UpdateStatus(sid, status)
    PROVE  /\ DOMAIN sessions' = DOMAIN sessions
           /\ \A x \in DOMAIN sessions :
                /\ sessions'[x] \in [type : Engine!Types, status : Statuses]
                /\ sessions'[x].type = sessions[x].type
                /\ sessions'[x].status = IF x = sid THEN status ELSE sessions[x].status
           /\ \A x \in DOMAIN Seeded : sessions'[x] = sessions[x]
BY SeededAssumption DEF FlowType, UpdateStatus

LEMMA SelectType ==
    ASSUME NEW action, NEW type \in SelectChallengeType(action)
    PROVE  type \in Engine!Types
BY DEF SelectChallengeType, Engine!Types, Engine!Visual

\* What a handler finds pending was saved by a precheck: no seeded session is.
LEMMA PendingDecided ==
    ASSUME FlowType, NEW sid, Pending(sid)
    PROVE  sid \in DOMAIN sessions \cap DOMAIN decided /\ sid \in Ids
BY SeededAssumption DEF FlowType, Pending

LEMMA SeededTyped ==
    \A sid \in DOMAIN Seeded : Seeded[sid] \in [type : Engine!Types, status : Statuses]
BY SeededAssumption DEF Engine!Types, Engine!Visual

LEMMA FlowTypeInit == Init => FlowType
BY SeededTyped DEF Init, Engine!Init, FlowType, HandlerStates

LEMMA FlowTypeStep == FlowType /\ [Next]_vars => FlowType'
<1> SUFFICES ASSUME FlowType, [Next]_vars PROVE FlowType' OBVIOUS
<1> USE DEF FlowType
<1>1. ASSUME UNCHANGED <<sessions, handler, decided, announced, madeFor, configs>> PROVE FlowType'
  BY <1>1
<1>2. CASE Tick BY <1>1, <1>2 DEF Tick, Engine!Tick, flowVars
<1>3. CASE Cleanup BY <1>1, <1>3 DEF Cleanup, flowVars
<1>4. CASE Restart BY <1>4, SeededTyped DEF Restart, Engine!Restart, HandlerStates
<1>5. CASE UNCHANGED vars BY <1>1, <1>5 DEF vars, flowVars, engineVars
<1>6. ASSUME NEW r \in Requests, Redeem(r) PROVE FlowType' BY <1>1, <1>6 DEF Redeem, flowVars
<1>7. ASSUME NEW h \in Handlers, Validate(h) PROVE FlowType'
  BY <1>1, <1>7 DEF Validate, flowVars, Engine!Take, Engine!Judge, Engine!SignApproved
<1>8. ASSUME NEW h \in Handlers, NEW sid \in Ids, NEW action \in Actions,
             PrecheckSave(h, sid, action)
      PROVE  FlowType'
  <2>1. sid \in Ids /\ sid \notin DOMAIN decided BY <1>8 DEF PrecheckSave, Fresh
  <2>2. PICK type \in Engine!Types :
          sessions' = Engine!Put(sessions, sid, [type |-> type, status |-> "pending"])
    BY <1>8, SelectType DEF PrecheckSave
  <2>3. decided' = Engine!Put(decided, sid, action) /\ UNCHANGED <<madeFor, configs>>
    BY <1>8 DEF PrecheckSave, engineVars
  <2>4. /\ DOMAIN sessions' = DOMAIN sessions \cup {sid}
        /\ \A x \in DOMAIN sessions' : sessions'[x] \in [type : Engine!Types, status : Statuses]
        /\ \A x \in DOMAIN Seeded : x \in DOMAIN sessions' /\ sessions'[x] = Seeded[x]
    BY <2>1, <2>2, SeededAssumption DEF Engine!Put, Statuses
  <2>5. /\ DOMAIN decided' = DOMAIN decided \cup {sid}
        /\ \A x \in DOMAIN decided' : decided'[x] \in Actions
    BY <2>3 DEF Engine!Put
  <2>6. /\ handler' \in [Handlers -> HandlerStates]
        /\ \A g \in Handlers : handler'[g] # Idle =>
              handler'[g].sid \in DOMAIN sessions' \cap DOMAIN decided'
    BY <1>8, <2>4, <2>5 DEF PrecheckSave, HandlerStates
  <2>7. announced' \subseteq DOMAIN decided' BY <1>8, <2>5 DEF PrecheckSave
  <2> QED BY <2>1, <2>3, <2>4, <2>5, <2>6, <2>7
<1>9. ASSUME NEW h \in Handlers, NEW id \in Ids, PrecheckSign(h, id) PROVE FlowType'
  <2>1. /\ DOMAIN configs' = DOMAIN configs \cup {id} /\ handler[h].pc = "granting"
        /\ madeFor' = Engine!Put(madeFor, id, handler[h].sid)
        /\ handler' = [handler EXCEPT ![h].pc = "granted"]
        /\ UNCHANGED <<sessions, decided, announced>>
    BY <1>9, GenerateConfigs DEF PrecheckSign
  <2>2. handler[h] \in [pc : {"granting", "granted"}, sid : Ids] /\ handler[h] # Idle
    BY <2>1 DEF HandlerStates, Idle
  <2>3. handler' \in [Handlers -> HandlerStates] /\ handler'[h].sid = handler[h].sid
    BY <2>1, <2>2 DEF HandlerStates
  <2>4. /\ DOMAIN madeFor' = DOMAIN madeFor \cup {id}
        /\ \A x \in DOMAIN madeFor' : madeFor'[x] \in DOMAIN decided
    BY <2>1, <2>2 DEF Engine!Put
  <2>5. \A g \in Handlers : handler'[g] # Idle =>
          handler'[g].sid \in DOMAIN sessions \cap DOMAIN decided
    BY <2>1, <2>2, <2>3
  <2> QED BY <2>1, <2>3, <2>4, <2>5
<1>10. ASSUME NEW h \in Handlers, PrecheckPass(h) PROVE FlowType'
  <2>1. /\ UpdateStatus(handler[h].sid, "passed") /\ handler[h].pc = "granted"
        /\ announced' = announced \cup {handler[h].sid}
        /\ handler' = [handler EXCEPT ![h] = Idle]
        /\ UNCHANGED <<decided, madeFor, configs>>
    BY <1>10 DEF PrecheckPass, engineVars
  <2>2. handler[h].sid \in DOMAIN decided /\ handler[h].sid \in Ids BY <2>1 DEF Idle
  <2>3. /\ DOMAIN sessions' = DOMAIN sessions
        /\ \A x \in DOMAIN sessions : sessions'[x] \in [type : Engine!Types, status : Statuses]
        /\ \A x \in DOMAIN Seeded : sessions'[x] = sessions[x]
    BY <2>1, <2>2, UpdateProperties DEF Statuses
  <2>4. handler' \in [Handlers -> HandlerStates] BY <2>1 DEF HandlerStates
  <2> QED BY <2>1, <2>3, <2>2, <2>4
<1>11. ASSUME NEW h \in Handlers, NEW sid, RenderRead(h, sid) PROVE FlowType'
  <2>1. sid \in DOMAIN sessions \cap DOMAIN decided /\ sid \in Ids
    BY <1>11, PendingDecided DEF RenderRead
  <2>2. [pc |-> "rendering", sid |-> sid, type |-> sessions[sid].type] \in HandlerStates
    BY <2>1 DEF HandlerStates
  <2> QED BY <1>11, <2>1, <2>2 DEF RenderRead, engineVars
<1>12. ASSUME NEW h \in Handlers, NEW id \in Ids, RenderGenerate(h, id) PROVE FlowType'
  <2>1. /\ DOMAIN configs' = DOMAIN configs \cup {id} /\ handler[h].pc = "rendering"
        /\ madeFor' = Engine!Put(madeFor, id, handler[h].sid)
        /\ handler' = [handler EXCEPT ![h] = Idle]
        /\ UNCHANGED <<sessions, decided, announced>>
    BY <1>12, GenerateConfigs DEF RenderGenerate
  <2>2. handler[h].sid \in DOMAIN decided BY <2>1 DEF Idle
  <2>3. handler' \in [Handlers -> HandlerStates] BY <2>1 DEF HandlerStates
  <2>4. /\ DOMAIN madeFor' = DOMAIN madeFor \cup {id}
        /\ \A x \in DOMAIN madeFor' : madeFor'[x] \in DOMAIN decided
    BY <2>1, <2>2 DEF Engine!Put
  <2> QED BY <2>1, <2>3, <2>4
<1>13. ASSUME NEW h \in Handlers, NEW sid, NEW answer \in Answers, VerifyRead(h, sid, answer)
       PROVE  FlowType'
  <2>1. sid \in DOMAIN sessions \cap DOMAIN decided /\ sid \in Ids
    BY <1>13, PendingDecided DEF VerifyRead
  <2>2. [pc |-> "verifying", sid |-> sid, answer |-> answer] \in HandlerStates
    BY <2>1 DEF HandlerStates
  <2> QED BY <1>13, <2>1, <2>2 DEF VerifyRead, engineVars
<1>14. ASSUME NEW h \in Handlers, VerifyStore(h) PROVE FlowType'
  <2>1. PICK status \in Statuses : UpdateStatus(handler[h].sid, status)
    BY <1>14 DEF VerifyStore, Statuses
  <2>2. handler[h].sid \in Ids BY <1>14 DEF VerifyStore, Idle
  <2>3. /\ DOMAIN sessions' = DOMAIN sessions
        /\ \A x \in DOMAIN sessions : sessions'[x] \in [type : Engine!Types, status : Statuses]
        /\ \A x \in DOMAIN Seeded : sessions'[x] = sessions[x]
    BY <2>1, <2>2, UpdateProperties
  <2> QED BY <1>14, <2>3 DEF VerifyStore, Engine!Return, HandlerStates
<1> QED
  BY <1>2, <1>3, <1>4, <1>5, <1>6, <1>7, <1>8, <1>9, <1>10, <1>11, <1>12, <1>13, <1>14
  DEF Next, Begin
-----------------------------------------------------------------------------
(* The engine and siteverify inside the flow *)

\* The proofs about the engine and siteverify speak of the same components.
LEMMA EngineSame ==
    /\ Engine!Init => EngineP!Init
    /\ [Engine!Next]_(Engine!vars) => [EngineP!Next]_(EngineP!vars)
BY DEF Engine!Init, EngineP!Init, Engine!Next, EngineP!Next, Engine!vars, EngineP!vars,
   Engine!Tick, EngineP!Tick, Engine!CleanExpired, EngineP!CleanExpired,
   Engine!Restart, EngineP!Restart, Engine!GenerateChallenge, EngineP!GenerateChallenge,
   Engine!GenerateInvisible, EngineP!GenerateInvisible, Engine!GenerateVisual,
   EngineP!GenerateVisual, Engine!Returned, EngineP!Returned, Engine!Deadlines,
   EngineP!Deadlines, Engine!RecordsFor, EngineP!RecordsFor, Engine!Put, EngineP!Put,
   Engine!Sign, EngineP!Sign, Engine!Stamp, EngineP!Stamp, Engine!Visual, EngineP!Visual,
   Engine!Types, EngineP!Types, Engine!Take, EngineP!Take, Engine!Judge, EngineP!Judge,
   Engine!Accepts, EngineP!Accepts, Engine!SliderAccepts, EngineP!SliderAccepts,
   Engine!ClickAccepts, EngineP!ClickAccepts, Engine!Tolerance, EngineP!Tolerance,
   Engine!SubmittedX, EngineP!SubmittedX, Engine!SignApproved, EngineP!SignApproved,
   Engine!Return, EngineP!Return, Engine!Idle, EngineP!Idle, Engine!Range, EngineP!Range,
   Engine!Restrict, EngineP!Restrict

LEMMA VerifySame ==
    /\ Verify!Init => VerifyP!Init
    /\ [Verify!Next]_(Verify!vars) => [VerifyP!Next]_(VerifyP!vars)
BY DEF Verify!Init, VerifyP!Init, Verify!Next, VerifyP!Next, Verify!vars, VerifyP!vars,
   Verify!Tick, VerifyP!Tick, Verify!Cleanup, VerifyP!Cleanup, Verify!Restart, VerifyP!Restart,
   Verify!SignToken, VerifyP!SignToken, Verify!Stamp, VerifyP!Stamp, Verify!Step, VerifyP!Step,
   Verify!Submit, VerifyP!Submit, Verify!MarkUsed, VerifyP!MarkUsed, Verify!CheckAge,
   VerifyP!CheckAge, Verify!Expired, VerifyP!Expired, Verify!Succeed, VerifyP!Succeed,
   Verify!Tokens, VerifyP!Tokens, Verify!Times, VerifyP!Times, Verify!Idle, VerifyP!Idle,
   Verify!Restrict, VerifyP!Restrict

\* A token is signed in a step of the engine that siteverify sees as one of its own.
LEMMA EngineStep == FlowType /\ [Next]_vars => [Engine!Next]_(Engine!vars)
<1> SUFFICES ASSUME FlowType, [Next]_vars PROVE Engine!Next \/ UNCHANGED Engine!vars OBVIOUS
<1>1. CASE Tick BY <1>1 DEF Tick, Engine!Next
<1>2. CASE Restart BY <1>2 DEF Restart, Engine!Next
<1>3. ASSUME UNCHANGED <<clock, engineVars>> PROVE UNCHANGED Engine!vars
  BY <1>3 DEF engineVars, Engine!vars
<1>4. ASSUME NEW id \in Ids, NEW type \in Engine!Types, Engine!GenerateChallenge(id, type)
      PROVE  Engine!Next
  BY <1>4 DEF Engine!Next
<1>5. CASE Cleanup
  BY <1>3, <1>5 DEF Cleanup, Verify!Cleanup, engineVars
<1>6. ASSUME NEW r \in Requests, Redeem(r) PROVE UNCHANGED Engine!vars
  BY <1>3, <1>6
  DEF Redeem, engineVars, Verify!Step, Verify!MarkUsed, Verify!CheckAge, Verify!Succeed, Verify!Submit
<1>7. ASSUME NEW h \in Handlers, Validate(h) PROVE Engine!Next
  <2>1. handler[h].sid \in Ids /\ handler[h].answer \in Answers
    BY <1>7 DEF Validate, FlowType, HandlerStates, Idle
  <2> QED BY <1>7, <2>1 DEF Validate, Engine!Next
<1>8. ASSUME NEW h \in Handlers, VerifyStore(h) PROVE Engine!Next
  BY <1>8 DEF VerifyStore, Engine!Next
<1>9. ASSUME NEW h \in Handlers, NEW id \in Ids, PrecheckSign(h, id) PROVE Engine!Next
  BY <1>4, <1>9 DEF PrecheckSign, Engine!Types
<1>10. ASSUME NEW h \in Handlers, NEW id \in Ids, RenderGenerate(h, id) PROVE Engine!Next
  <2>1. handler[h].type \in Engine!Types
    BY <1>10 DEF RenderGenerate, FlowType, HandlerStates, Idle
  <2> QED BY <1>4, <1>10, <2>1 DEF RenderGenerate
<1>11. ASSUME NEW h \in Handlers, Begin(h) \/ PrecheckPass(h) PROVE UNCHANGED Engine!vars
  BY <1>3, <1>11 DEF Begin, PrecheckSave, RenderRead, VerifyRead, PrecheckPass
<1>12. CASE UNCHANGED vars BY <1>3, <1>12 DEF vars
<1> QED
  BY <1>1, <1>2, <1>5, <1>6, <1>7, <1>8, <1>9, <1>10, <1>11, <1>12 DEF Next

\* What an engine step that is not a Tick or a Restart is to siteverify: it signs a
\* token or does not concern it.
LEMMA SignsOrNot ==
    ASSUME NEW id \in Ids, NEW type, Engine!GenerateChallenge(id, type), UNCHANGED verifyVars
    PROVE  Verify!Next \/ UNCHANGED Verify!vars
<1>1. UNCHANGED clock /\ (signed' = signed \/ Engine!Sign(id))
  BY DEF Engine!GenerateChallenge, Engine!GenerateInvisible, Engine!GenerateVisual
<1>2. CASE Engine!Sign(id)
  <2>1. Verify!SignToken(id)
    BY <1>1, <1>2 DEF Verify!SignToken, Engine!Sign, Engine!Stamp, Verify!Stamp, verifyVars
  <2> QED BY <2>1 DEF Verify!Next
<1>3. CASE signed' = signed BY <1>1, <1>3 DEF verifyVars, Verify!vars
<1> QED BY <1>1, <1>2, <1>3

LEMMA VerifyStep ==
    FlowType /\ EngineP!TypeOK /\ [Next]_vars => [Verify!Next]_(Verify!vars)
<1> SUFFICES ASSUME FlowType, EngineP!TypeOK, [Next]_vars
             PROVE  Verify!Next \/ UNCHANGED Verify!vars
  OBVIOUS
<1>1. CASE Tick
  BY <1>1 DEF Tick, Engine!Tick, verifyVars, Verify!Next, Verify!Tick
<1>2. CASE Restart BY <1>2 DEF Restart, Verify!Next
<1>3. ASSUME UNCHANGED <<clock, signed, verifyVars>> PROVE UNCHANGED Verify!vars
  BY <1>3 DEF verifyVars, Verify!vars
<1>5. CASE Cleanup BY <1>5 DEF Cleanup, Verify!Next
<1>6. ASSUME NEW r \in Requests, Redeem(r) PROVE Verify!Next
  <2>1. signed \subseteq Verify!Tokens
    BY DEF EngineP!TypeOK, EngineP!Tokens, EngineP!Times, Verify!Tokens, Verify!Times
  <2> QED BY <1>6, <2>1 DEF Redeem, Verify!Next
<1>7. ASSUME NEW h \in Handlers, Validate(h) PROVE Verify!Next \/ UNCHANGED Verify!vars
  <2>1. CASE Engine!SignApproved(h)
    <3>1. calls[h].id \in Ids
      BY <2>1 DEF Engine!SignApproved, EngineP!TypeOK, EngineP!CallStates, EngineP!Idle,
         EngineP!Held, EngineP!Done
    <3>2. Verify!SignToken(calls[h].id)
      BY <1>7, <2>1 DEF Validate, Engine!SignApproved, Engine!Sign, Engine!Stamp, Verify!Stamp,
         Verify!SignToken, verifyVars
    <3> QED BY <3>1, <3>2 DEF Verify!Next
  <2>2. CASE ~Engine!SignApproved(h)
    BY <1>3, <1>7, <2>2 DEF Validate, Engine!Take, Engine!Judge
  <2> QED BY <2>1, <2>2
<1>8. ASSUME NEW h \in Handlers, VerifyStore(h) PROVE UNCHANGED Verify!vars
  BY <1>3, <1>8 DEF VerifyStore, Engine!Return
<1>9. ASSUME NEW h \in Handlers, NEW id \in Ids, PrecheckSign(h, id)
      PROVE  Verify!Next \/ UNCHANGED Verify!vars
  BY <1>9, SignsOrNot DEF PrecheckSign
<1>10. ASSUME NEW h \in Handlers, NEW id \in Ids, RenderGenerate(h, id)
       PROVE  Verify!Next \/ UNCHANGED Verify!vars
  BY <1>10, SignsOrNot DEF RenderGenerate
<1>11. ASSUME NEW h \in Handlers, Begin(h) \/ PrecheckPass(h) PROVE UNCHANGED Verify!vars
  BY <1>3, <1>11 DEF Begin, PrecheckSave, RenderRead, VerifyRead, PrecheckPass, engineVars
<1>12. CASE UNCHANGED vars BY <1>3, <1>12 DEF vars, engineVars
<1> QED
  BY <1>1, <1>2, <1>5, <1>6, <1>7, <1>8, <1>9, <1>10, <1>11, <1>12 DEF Next

LEMMA FlowTyped == Spec => []FlowType
BY FlowTypeInit, FlowTypeStep, PTL DEF Spec

\* The engine the handlers drive is the engine specified alone: they call it as it
\* may be called, and leave its state alone otherwise.
THEOREM EngineKept == Spec => Engine!Spec
<1>1. Init => Engine!Init BY DEF Init
<1> QED BY <1>1, EngineStep, FlowTyped, PTL DEF Spec, Engine!Spec

LEMMA EngineHolds == Spec => []EngineP!IInv
<1>1. Engine!Spec => EngineP!Spec BY EngineSame, PTL DEF Engine!Spec, EngineP!Spec
<1>2. Answers \subseteq EngineP!AnswerShapes
  BY AnswersAssumption DEF EngineP!AnswerShapes, Engine!AnswerShapes
<1>3. EngineP!Spec => []EngineP!IInv
  BY <1>2, EngineP!Invariance, TargetAssumption, TimeAssumption, PTL
<1> QED BY <1>1, <1>3, EngineKept, PTL

\* Siteverify, fed with the engine's tokens and only those clients were told of, is
\* the siteverify specified alone.
THEOREM VerifyKept == Spec => Verify!Spec
<1>1. Init => Verify!Init BY DEF Init
<1>2. EngineP!IInv => EngineP!TypeOK BY DEF EngineP!IInv
<1> QED BY <1>1, <1>2, VerifyStep, FlowTyped, EngineHolds, PTL DEF Spec, Verify!Spec

LEMMA VerifyHolds == Spec => []VerifyP!IInv
<1>1. Verify!Spec => VerifyP!Spec BY VerifySame, PTL DEF Verify!Spec, VerifyP!Spec
<1>2. Second \in Nat \ {0} /\ MaxClock \in Nat BY TimeAssumption
<1>3. VerifyP!Spec => []VerifyP!IInv
  BY <1>2, VerifyP!Invariance, RetentionAssumption, SecretsAssumption, PTL
<1> QED BY <1>1, <1>3, VerifyKept, PTL
-----------------------------------------------------------------------------
(* The inductive invariant of the flow *)

\* The policy let the client of this session through without a challenge.
LetThrough(sid) == decided[sid] \in {"pass", "invisible"}

\* No uuid is both a session's and an engine challenge's.
Apart == DOMAIN decided \cap DOMAIN configs = {}

\* No call of the engine ever finds a record: answers come with a session's id.
NothingTaken == \A h \in Handlers :
    calls[h] \in {[pc |-> "idle"], [pc |-> "done", valid |-> FALSE]}

\* Only a client that was let through has an invisible session, and it is passed
\* before the client hears of it; a session saved for a challenge is pending or failed.
Standing == \A sid \in DOMAIN sessions \cap DOMAIN decided :
    /\ sessions[sid].type = "invisible" <=> LetThrough(sid)
    /\ LetThrough(sid) => sessions[sid].status = IF sid \in announced THEN "passed" ELSE "pending"
    /\ ~LetThrough(sid) => sessions[sid].status \in {"pending", "failed"}

Grants(h, sid) == handler[h].pc \in {"granting", "granted"} /\ handler[h].sid = sid
Serves(h, sid) == handler[h].pc \in {"rendering", "verifying"} /\ handler[h].sid = sid

\* One handler grants a session its token, before the client hears of the session.
Granting == \A h \in Handlers, sid \in Ids : Grants(h, sid) =>
    /\ LetThrough(sid)
    /\ sid \notin announced
    /\ handler[h].pc = "granting" => \A id \in DOMAIN madeFor : madeFor[id] # sid
    /\ \A g \in Handlers : Grants(g, sid) => g = h

\* The sessions that are rendered and verified are the others.
Serving == \A h \in Handlers, sid \in Ids : Serves(h, sid) =>
    /\ ~LetThrough(sid)
    /\ handler[h].pc = "rendering" => handler[h].type # "invisible"

\* A session has at most one token, and only if it was let through.
OneToken ==
    /\ \A t \in signed : t.id \in DOMAIN madeFor /\ LetThrough(madeFor[t.id])
    /\ \A t, u \in signed : madeFor[t.id] = madeFor[u.id] => t = u

\* Backends send, and are told of, tokens of sessions whose client has been answered.
Told ==
    /\ \A t \in Verify!Tokens : results[t] > 0 => t \in signed /\ madeFor[t.id] \in announced
    /\ \A r \in Requests : call[r].pc # "idle" =>
          call[r].token \in signed /\ madeFor[call[r].token.id] \in announced

FlowInv == Apart /\ NothingTaken /\ Standing /\ Granting /\ Serving /\ OneToken /\ Told

\* With what is known of the engine and of siteverify.
Reach == FlowType /\ FlowInv /\ EngineP!IInv /\ VerifyP!IInv
-----------------------------------------------------------------------------
LEMMA SaveInv ==
    ASSUME Reach, NEW h \in Handlers, NEW sid \in Ids, NEW action \in Actions,
           PrecheckSave(h, sid, action)
    PROVE  FlowInv'
<1> USE DEF Reach, FlowInv
<1>1. /\ handler[h] = Idle /\ sid \notin DOMAIN decided /\ sid \notin DOMAIN configs
      /\ decided' = Engine!Put(decided, sid, action)
      /\ UNCHANGED <<clock, answers, signed, configs, calls, usedTokens, results, call, madeFor>>
  BY DEF PrecheckSave, Fresh, engineVars, verifyVars
<1>2. PICK type \in SelectChallengeType(action) :
        sessions' = Engine!Put(sessions, sid, [type |-> type, status |-> "pending"])
  BY DEF PrecheckSave
<1>3. /\ DOMAIN decided' = DOMAIN decided \cup {sid} /\ decided'[sid] = action
      /\ \A x \in DOMAIN decided : decided'[x] = decided[x]
  BY <1>1 DEF Engine!Put
<1>4. /\ DOMAIN sessions' = DOMAIN sessions \cup {sid}
      /\ sessions'[sid] = [type |-> type, status |-> "pending"]
      /\ \A x \in DOMAIN sessions : x # sid => sessions'[x] = sessions[x]
  BY <1>2 DEF Engine!Put
<1>5. /\ LetThrough(sid)' <=> action \in {"pass", "invisible"}
      /\ \A x \in DOMAIN decided : LetThrough(x)' <=> LetThrough(x)
  BY <1>3 DEF LetThrough
<1>6. type = "invisible" <=> action \in {"pass", "invisible"}
  BY DEF SelectChallengeType, Actions
<1>7. \/ /\ action \in {"pass", "invisible"} /\ announced' = announced
         /\ handler' = [handler EXCEPT ![h] = [pc |-> "granting", sid |-> sid]]
      \/ /\ action \notin {"pass", "invisible"} /\ announced' = announced \cup {sid}
         /\ handler' = handler
  BY DEF PrecheckSave
<1> DEFINE Saved == DOMAIN sessions \cap DOMAIN decided
<1>8. sid \notin announced /\ sid \notin Saved BY <1>1 DEF FlowType
<1>9. Apart' BY <1>1, <1>3 DEF Apart
<1>10. NothingTaken' BY <1>1 DEF NothingTaken
<1>11. Standing'
  <2>1. \A x \in Saved : x \in announced' <=> x \in announced BY <1>7, <1>8
  <2>2. \A x \in Saved :
          /\ sessions'[x].type = "invisible" <=> LetThrough(x)'
          /\ LetThrough(x)' => sessions'[x].status = IF x \in announced' THEN "passed" ELSE "pending"
          /\ ~LetThrough(x)' => sessions'[x].status \in {"pending", "failed"}
    BY <1>4, <1>5, <1>8, <2>1 DEF Standing
  <2>3. /\ sessions'[sid].type = "invisible" <=> LetThrough(sid)'
        /\ LetThrough(sid)' => sessions'[sid].status = IF sid \in announced' THEN "passed" ELSE "pending"
        /\ ~LetThrough(sid)' => sessions'[sid].status \in {"pending", "failed"}
    BY <1>4, <1>5, <1>6, <1>7, <1>8
  <2>4. DOMAIN sessions' \cap DOMAIN decided' = Saved \cup {sid} BY <1>3, <1>4
  <2> QED BY <2>2, <2>3, <2>4 DEF Standing
<1>12. Granting' /\ Serving'
  <2>1. \A g \in Handlers, x \in Ids : Grants(g, x) \/ Serves(g, x) => x \in DOMAIN decided /\ x # sid
    BY <1>1 DEF FlowType, Grants, Serves, Idle
  <2>2. \A id \in DOMAIN madeFor : madeFor[id] # sid BY <1>1 DEF FlowType
  <2>3. \A g \in Handlers, x \in Ids : Serves(g, x)' => Serves(g, x) /\ handler'[g] = handler[g]
    BY <1>7 DEF FlowType, Serves
  <2>4. \A g \in Handlers, x \in Ids : Grants(g, x)' =>
          \/ Grants(g, x) /\ handler'[g] = handler[g] /\ x # sid
          \/ g = h /\ x = sid /\ action \in {"pass", "invisible"} /\ announced' = announced
    BY <1>7, <2>1 DEF FlowType, Grants
  <2>5. \A x \in Ids : x # sid => (x \in announced' <=> x \in announced) BY <1>7
  <2>6. Granting' BY <1>1, <1>5, <1>8, <2>1, <2>2, <2>4, <2>5 DEF Granting
  <2>7. Serving' BY <1>5, <2>1, <2>3 DEF Serving
  <2> QED BY <2>6, <2>7
<1>13. OneToken'
  <2>1. \A t \in signed : madeFor[t.id] \in DOMAIN decided BY DEF OneToken, FlowType
  <2> QED BY <1>1, <1>5, <2>1 DEF OneToken, LetThrough
<1>14. Told'
  <2>1. announced \subseteq announced' BY <1>7
  <2> QED BY <1>1, <2>1 DEF Told, Verify!Tokens
<1> QED BY <1>9, <1>10, <1>11, <1>12, <1>13, <1>14

\* The one step that signs a token.
LEMMA GrantInv ==
    ASSUME Reach, NEW h \in Handlers, NEW id \in Ids, PrecheckSign(h, id)
    PROVE  FlowInv'
<1> USE DEF Reach, FlowInv
<1>1. PICK sid \in Ids : Grants(h, sid) /\ handler[h].pc = "granting"
         /\ handler[h] \in [pc : {"granting", "granted"}, sid : Ids]
  BY DEF PrecheckSign, FlowType, HandlerStates, Idle, Grants
<1>2. /\ id \notin DOMAIN decided /\ id \notin DOMAIN configs
      /\ madeFor' = Engine!Put(madeFor, id, sid)
      /\ handler' = [handler EXCEPT ![h].pc = "granted"]
      /\ DOMAIN configs' = DOMAIN configs \cup {id}
      /\ UNCHANGED <<calls, usedTokens, results, call, sessions, decided, announced>>
  BY <1>1, GenerateConfigs DEF PrecheckSign, Fresh, verifyVars, Grants
<1>3. PICK ts : signed' = signed \cup {[id |-> id, ts |-> ts]}
  BY DEF PrecheckSign, Engine!GenerateChallenge, Engine!GenerateInvisible, Engine!Sign,
     Engine!Visual, Engine!Types
<1>4. /\ DOMAIN madeFor' = DOMAIN madeFor \cup {id} /\ madeFor'[id] = sid
      /\ \A x \in DOMAIN madeFor : x # id /\ madeFor'[x] = madeFor[x]
  BY <1>2 DEF Engine!Put, FlowType
<1>5. LetThrough(sid) /\ \A x \in DOMAIN madeFor : madeFor[x] # sid
  BY <1>1 DEF Granting
<1>6. Apart' BY <1>2 DEF Apart
<1>7. NothingTaken' /\ Standing' BY <1>2 DEF NothingTaken, Standing, LetThrough
<1>8. /\ handler'[h].pc = "granted" /\ handler'[h].sid = sid
      /\ \A g \in Handlers : g # h => handler'[g] = handler[g]
  BY <1>1, <1>2 DEF FlowType, Grants
<1>9. Granting'
  <2>1. \A g \in Handlers, x \in Ids : Grants(g, x)' <=> Grants(g, x)
    BY <1>1, <1>8 DEF Grants
  <2>2. \A g \in Handlers, x \in Ids : Grants(g, x) /\ handler'[g].pc = "granting" =>
          g # h /\ x # sid /\ handler[g].pc = "granting"
    BY <1>1, <1>8 DEF Granting
  <2> QED BY <1>2, <1>4, <2>1, <2>2 DEF Granting, LetThrough
<1>10. Serving' BY <1>2, <1>8 DEF Serving, Serves, LetThrough
<1>11. OneToken' BY <1>2, <1>3, <1>4, <1>5 DEF OneToken, LetThrough
<1>12. Told'
  <2>1. \A t \in signed : t \in signed' /\ madeFor'[t.id] = madeFor[t.id]
    BY <1>3, <1>4 DEF OneToken
  <2> QED BY <1>2, <2>1 DEF Told, Verify!Tokens, Verify!Times
<1> QED BY <1>6, <1>7, <1>9, <1>10, <1>11, <1>12

LEMMA PassInv == ASSUME Reach, NEW h \in Handlers, PrecheckPass(h) PROVE FlowInv'
<1> USE DEF Reach, FlowInv
<1>1. PICK sid \in Ids : Grants(h, sid) /\ handler[h].sid = sid
  BY DEF PrecheckPass, FlowType, HandlerStates, Idle, Grants
<1>2. /\ UpdateStatus(sid, "passed")
      /\ announced' = announced \cup {sid}
      /\ handler' = [handler EXCEPT ![h] = Idle]
      /\ UNCHANGED <<clock, answers, signed, configs, calls, usedTokens, results, call,
                     decided, madeFor>>
  BY <1>1 DEF PrecheckPass, engineVars, verifyVars
<1>3. /\ DOMAIN sessions' = DOMAIN sessions
      /\ \A x \in DOMAIN sessions :
           /\ sessions'[x].type = sessions[x].type
           /\ sessions'[x].status = IF x = sid THEN "passed" ELSE sessions[x].status
  BY <1>1, <1>2, UpdateProperties DEF Statuses
<1>4. LetThrough(sid) BY <1>1 DEF Granting
<1>5. Apart' /\ NothingTaken' BY <1>2 DEF Apart, NothingTaken
<1>6. Standing' BY <1>2, <1>3, <1>4 DEF Standing, LetThrough
<1>7. \A g \in Handlers, x \in Ids :
         /\ Grants(g, x)' => g # h /\ Grants(g, x) /\ handler'[g] = handler[g]
         /\ Serves(g, x)' => g # h /\ Serves(g, x) /\ handler'[g] = handler[g]
  BY <1>2 DEF FlowType, Grants, Serves, Idle
<1>8. Granting' BY <1>1, <1>2, <1>7 DEF Granting, LetThrough
<1>9. Serving' BY <1>2, <1>7 DEF Serving, LetThrough
<1>10. OneToken' BY <1>2 DEF OneToken, LetThrough
<1>11. Told' BY <1>2 DEF Told, Verify!Tokens
<1> QED BY <1>5, <1>6, <1>8, <1>9, <1>10, <1>11

\* A session whose client was let through is never pending when the client knows of it.
LEMMA PendingServed ==
    ASSUME FlowType, Standing, NEW sid \in Known, Pending(sid)
    PROVE  ~LetThrough(sid) /\ sessions[sid].type # "invisible"
<1>1. sid \in DOMAIN sessions \cap DOMAIN decided /\ sid \in announced
  BY PendingDecided, SeededAssumption DEF Known
<1> QED BY <1>1 DEF Standing, Pending

LEMMA ReadInv ==
    ASSUME Reach, NEW h \in Handlers, NEW sid,
           RenderRead(h, sid) \/ \E answer \in Answers : VerifyRead(h, sid, answer)
    PROVE  FlowInv'
<1> USE DEF Reach, FlowInv
<1>1. sid \in Known /\ Pending(sid) BY DEF RenderRead, VerifyRead
<1>2. ~LetThrough(sid) /\ sessions[sid].type # "invisible" BY <1>1, PendingServed
<1>3. UNCHANGED <<clock, answers, signed, configs, calls, usedTokens, results, call,
                  sessions, decided, announced, madeFor>>
  BY DEF RenderRead, VerifyRead, engineVars, verifyVars
<1>4. /\ handler'[h].pc \in {"rendering", "verifying"} /\ handler'[h].sid = sid
      /\ handler'[h].pc = "rendering" => handler'[h].type # "invisible"
      /\ \A g \in Handlers : g # h => handler'[g] = handler[g]
  BY <1>2 DEF RenderRead, VerifyRead, FlowType
<1>5. Granting' BY <1>3, <1>4 DEF Granting, Grants, LetThrough
<1>6. Serving' BY <1>2, <1>3, <1>4 DEF Serving, Serves, LetThrough
<1>7. Apart' /\ NothingTaken' /\ Standing' /\ OneToken' /\ Told'
  BY <1>3 DEF Apart, NothingTaken, Standing, OneToken, Told, LetThrough, Verify!Tokens
<1> QED BY <1>5, <1>6, <1>7

\* Rendering makes a record, never a token.
LEMMA RenderInv ==
    ASSUME Reach, NEW h \in Handlers, NEW id \in Ids, RenderGenerate(h, id)
    PROVE  FlowInv' /\ signed' = signed
<1> USE DEF Reach, FlowInv
<1>1. PICK sid \in Ids : Serves(h, sid) /\ handler[h].sid = sid
         /\ handler[h].type \in Engine!Types \ {"invisible"}
  BY DEF RenderGenerate, FlowType, HandlerStates, Idle, Serves, Serving
<1>2. /\ id \notin DOMAIN decided /\ id \notin DOMAIN configs
      /\ madeFor' = Engine!Put(madeFor, id, sid)
      /\ handler' = [handler EXCEPT ![h] = Idle]
      /\ DOMAIN configs' = DOMAIN configs \cup {id}
      /\ UNCHANGED <<calls, usedTokens, results, call, sessions, decided, announced>>
  BY <1>1, GenerateConfigs DEF RenderGenerate, Fresh, verifyVars
<1>3. signed' = signed
  BY <1>1 DEF RenderGenerate, Engine!GenerateChallenge, Engine!GenerateVisual, Engine!Types
<1>4. /\ DOMAIN madeFor' = DOMAIN madeFor \cup {id} /\ madeFor'[id] = sid
      /\ \A x \in DOMAIN madeFor : x # id /\ madeFor'[x] = madeFor[x]
  BY <1>2 DEF Engine!Put, FlowType
<1>5. ~LetThrough(sid) BY <1>1 DEF Serving
<1>6. Apart' BY <1>2 DEF Apart
<1>7. NothingTaken' /\ Standing' BY <1>2 DEF NothingTaken, Standing, LetThrough
<1>8. \A g \in Handlers, x \in Ids :
         /\ Grants(g, x)' => g # h /\ Grants(g, x) /\ handler'[g] = handler[g]
         /\ Serves(g, x)' => g # h /\ Serves(g, x) /\ handler'[g] = handler[g]
  BY <1>2 DEF FlowType, Grants, Serves, Idle
<1>9. Granting' BY <1>2, <1>4, <1>5, <1>8 DEF Granting, LetThrough
<1>10. Serving' BY <1>2, <1>8 DEF Serving, LetThrough
<1>11. OneToken' BY <1>2, <1>3, <1>4 DEF OneToken, LetThrough
<1>12. Told'
  <2>1. \A t \in signed : madeFor'[t.id] = madeFor[t.id] BY <1>4 DEF OneToken
  <2> QED BY <1>2, <1>3, <2>1 DEF Told, Verify!Tokens
<1> QED BY <1>3, <1>6, <1>7, <1>9, <1>10, <1>11, <1>12

\* The id of the request is a session's, so there is nothing to judge.
LEMMA ValidateInv ==
    ASSUME Reach, NEW h \in Handlers, Validate(h)
    PROVE  FlowInv' /\ UNCHANGED <<signed, flowVars>>
<1> USE DEF Reach, FlowInv
<1>1. UNCHANGED <<usedTokens, results, call, sessions, handler, decided, announced, madeFor>>
  BY DEF Validate, verifyVars, flowVars
<1>2. handler[h].sid \in DOMAIN decided BY DEF Validate, FlowType, Idle
<1>3. handler[h].sid \notin DOMAIN answers
  BY <1>2 DEF Apart, EngineP!IInv, EngineP!Generated
<1>4. calls[h].pc \in {"idle", "done"} BY DEF NothingTaken
<1>5. Engine!Take(h, handler[h].sid, handler[h].answer)
  BY <1>4 DEF Validate, Engine!Judge, Engine!SignApproved
<1>6. /\ calls' = [calls EXCEPT ![h] = [pc |-> "done", valid |-> FALSE]]
      /\ UNCHANGED <<signed, configs>>
  BY <1>3, <1>5 DEF Engine!Take
<1>7. NothingTaken' BY <1>6 DEF NothingTaken, EngineP!IInv, EngineP!TypeOK
<1>8. Apart' /\ Standing' /\ Granting' /\ Serving' /\ OneToken' /\ Told'
  BY <1>1, <1>6 DEF Apart, Standing, Granting, Grants, Serving, Serves, OneToken, Told,
     LetThrough, Verify!Tokens
<1> QED BY <1>1, <1>6, <1>7, <1>8 DEF flowVars

\* So the verdict is always "failed", and never about a session that was let through.
LEMMA StoreEffect ==
    ASSUME Reach, NEW h \in Handlers, VerifyStore(h)
    PROVE  \E sid \in DOMAIN sessions \cap DOMAIN decided :
             /\ sid \in Ids /\ ~LetThrough(sid) /\ Serves(h, sid)
             /\ UpdateStatus(sid, "failed")
             /\ calls' = [calls EXCEPT ![h] = [pc |-> "idle"]]
             /\ handler' = [handler EXCEPT ![h] = Idle]
             /\ UNCHANGED <<signed, configs, usedTokens, results, call, decided, announced, madeFor>>
<1> USE DEF Reach, FlowInv
<1>1. PICK sid \in Ids : Serves(h, sid) /\ handler[h].sid = sid /\ handler[h] # Idle
  <2>1. handler[h].pc = "verifying" /\ handler[h] # Idle BY DEF VerifyStore, Idle
  <2>2. handler[h].sid \in Ids BY <2>1 DEF FlowType, HandlerStates, Idle
  <2> QED BY <2>1, <2>2 DEF Serves
<1>2. sid \in DOMAIN sessions \cap DOMAIN decided BY <1>1 DEF FlowType
<1>3. calls[h] = [pc |-> "done", valid |-> FALSE]
  <2>1. calls[h].pc = "done" BY DEF VerifyStore, Engine!Return
  <2>2. calls[h] \in {[pc |-> "idle"], [pc |-> "done", valid |-> FALSE]} BY DEF NothingTaken
  <2>3. [pc |-> "idle"].pc # "done" OBVIOUS
  <2> QED BY <2>1, <2>2, <2>3
<1>4. UpdateStatus(sid, "failed") BY <1>1, <1>3 DEF VerifyStore
<1>5. ~LetThrough(sid) BY <1>1 DEF Serving
<1>6. calls' = [calls EXCEPT ![h] = [pc |-> "idle"]] /\ UNCHANGED <<signed, configs>>
  BY DEF VerifyStore, Engine!Return, Engine!Idle
<1> QED BY <1>1, <1>2, <1>4, <1>5, <1>6 DEF VerifyStore, verifyVars

LEMMA StoreInv == ASSUME Reach, NEW h \in Handlers, VerifyStore(h) PROVE FlowInv'
<1> USE DEF Reach, FlowInv
<1>1. PICK sid \in DOMAIN sessions :
        /\ sid \in Ids /\ ~LetThrough(sid)
        /\ UpdateStatus(sid, "failed")
        /\ calls' = [calls EXCEPT ![h] = [pc |-> "idle"]]
        /\ handler' = [handler EXCEPT ![h] = Idle]
        /\ UNCHANGED <<signed, configs, usedTokens, results, call, decided, announced, madeFor>>
  BY StoreEffect
<1>2. /\ DOMAIN sessions' = DOMAIN sessions
      /\ \A x \in DOMAIN sessions :
           /\ sessions'[x].type = sessions[x].type
           /\ sessions'[x].status = IF x = sid THEN "failed" ELSE sessions[x].status
  BY <1>1, UpdateProperties DEF Statuses
<1>3. Standing' BY <1>1, <1>2 DEF Standing, LetThrough
<1>4. \A g \in Handlers, x \in Ids :
         /\ Grants(g, x)' => Grants(g, x) /\ handler'[g] = handler[g]
         /\ Serves(g, x)' => Serves(g, x) /\ handler'[g] = handler[g]
  BY <1>1 DEF FlowType, Grants, Serves, Idle
<1>5. Granting' BY <1>1, <1>4 DEF Granting, LetThrough
<1>6. Serving' BY <1>1, <1>4 DEF Serving, LetThrough
<1>7. NothingTaken' BY <1>1 DEF NothingTaken, EngineP!IInv, EngineP!TypeOK
<1>8. Apart' /\ OneToken' /\ Told' BY <1>1 DEF Apart, OneToken, Told, LetThrough, Verify!Tokens
<1> QED BY <1>3, <1>5, <1>6, <1>7, <1>8

LEMMA RedeemInv == ASSUME Reach, NEW r \in Requests, Redeem(r) PROVE FlowInv'
<1> USE DEF Reach, FlowInv
<1>1. UNCHANGED <<clock, answers, signed, configs, calls, sessions, handler, decided, announced, madeFor>>
  BY DEF Redeem, flowVars, Verify!Step, Verify!MarkUsed, Verify!CheckAge, Verify!Succeed, Verify!Submit
<1>2. /\ results \in [Verify!Tokens -> Nat]
      /\ call \in [Requests -> {[pc |-> "idle"]} \cup
                               [pc : {"checked", "marked", "fresh"}, token : Verify!Tokens]]
  BY DEF VerifyP!IInv, VerifyP!TypeOK, VerifyP!Idle, VerifyP!Busy, VerifyP!Tokens, VerifyP!Times,
     Verify!Tokens, Verify!Times
<1>3. Told'
  <2> DEFINE Good(t) == t \in signed /\ madeFor[t.id] \in announced
  <2>1. \A q \in Requests : call[q].pc # "idle" => Good(call[q].token) BY DEF Told
  <2>2. ASSUME Verify!Step(r)
        PROVE  \A q \in Requests : call'[q].pc # "idle" =>
                 call[q].pc # "idle" /\ call'[q].token = call[q].token
    <3>1. call[r].pc # "idle"
      BY <2>2 DEF Verify!Step, Verify!MarkUsed, Verify!CheckAge, Verify!Succeed
    <3>2. call[r] \in [pc : {"checked", "marked", "fresh"}, token : Verify!Tokens]
      BY <1>2, <3>1
    <3>3. \/ call' = [call EXCEPT ![r] = [pc |-> "idle"]]
          \/ \E pc \in {"marked", "fresh"} : call' = [call EXCEPT ![r].pc = pc]
      BY <2>2 DEF Verify!Step, Verify!MarkUsed, Verify!CheckAge, Verify!Succeed, Verify!Idle
    <3> QED BY <1>2, <3>1, <3>2, <3>3
  <2>3. ASSUME NEW t \in signed, NEW secret \in Secrets,
               madeFor[t.id] \in announced, Verify!Submit(r, secret, t)
        PROVE  \A q \in Requests : call'[q].pc # "idle" =>
                 \/ call[q].pc # "idle" /\ call'[q].token = call[q].token
                 \/ call'[q].token = t
    BY <1>2, <2>3 DEF Verify!Submit, Verify!Idle
  <2>4. \A q \in Requests : call'[q].pc # "idle" => Good(call'[q].token)
    BY <2>1, <2>2, <2>3 DEF Redeem
  <2>5. \A t \in Verify!Tokens : results'[t] > 0 => Good(t)
    <3>1. CASE Verify!Succeed(r)
      <4>1. /\ results' = [results EXCEPT ![call[r].token] = @ + 1]
            /\ call[r].pc = "fresh"
        BY <3>1 DEF Verify!Succeed
      <4>2. Good(call[r].token) BY <2>1, <4>1
      <4>3. \A t \in Verify!Tokens : t # call[r].token => results'[t] = results[t] BY <1>2, <4>1
      <4> QED BY <4>2, <4>3 DEF Told
    <3>2. CASE ~Verify!Succeed(r)
      <4>1. results' = results
        BY <3>2 DEF Redeem, Verify!Step, Verify!MarkUsed, Verify!CheckAge, Verify!Submit
      <4> QED BY <4>1 DEF Told
    <3> QED BY <3>1, <3>2
  <2> QED BY <1>1, <2>4, <2>5 DEF Told, Verify!Tokens, Verify!Times
<1>4. Apart' /\ NothingTaken' /\ Standing' /\ Granting' /\ Serving' /\ OneToken'
  BY <1>1 DEF Apart, NothingTaken, Standing, Granting, Grants, Serving, Serves, OneToken, LetThrough
<1> QED BY <1>3, <1>4

\* Sessions, handlers, calls and results are forgotten; what was decided is history.
LEMMA RestartInv == ASSUME Reach, Restart PROVE FlowInv'
<1> USE DEF Reach, FlowInv
<1>1. /\ UNCHANGED <<signed, decided, announced, madeFor>>
      /\ DOMAIN configs' = DOMAIN configs /\ sessions' = Seeded
      /\ \A h \in Handlers : handler'[h] = Idle /\ calls'[h] = [pc |-> "idle"]
      /\ \A r \in Requests : call'[r] = [pc |-> "idle"]
      /\ \A t \in Verify!Tokens : results'[t] = 0
  BY DEF Restart, Engine!Restart, Verify!Restart, Engine!Idle, Verify!Idle
<1>2. Apart' /\ NothingTaken' /\ Standing' /\ OneToken'
  BY <1>1, SeededAssumption DEF FlowType, Apart, NothingTaken, Standing, OneToken, LetThrough
<1>3. Granting' /\ Serving' BY <1>1 DEF Granting, Grants, Serving, Serves, Idle
<1>4. Told' BY <1>1 DEF Told, Verify!Tokens, Verify!Times
<1> QED BY <1>2, <1>3, <1>4

LEMMA FlowInvInit == Init => FlowInv
<1> SUFFICES ASSUME Init PROVE FlowInv OBVIOUS
<1> QED
  BY SeededAssumption DEF Init, Engine!Init, Verify!Init, FlowInv, Apart, NothingTaken, Standing, Granting, Grants,
     Serving, Serves, OneToken, Told, Idle, Engine!Idle, Verify!Idle

LEMMA FlowInvStep == Reach /\ [Next]_vars => FlowInv'
<1> SUFFICES ASSUME Reach, [Next]_vars PROVE FlowInv' OBVIOUS
<1>1. ASSUME UNCHANGED <<signed, configs, calls, results, call, flowVars>> PROVE FlowInv'
  BY <1>1 DEF Reach, FlowInv, Apart, NothingTaken, Standing, Granting, Grants, Serving, Serves,
     OneToken, Told, LetThrough, flowVars, Verify!Tokens, Verify!Times
<1>2. CASE Tick BY <1>1, <1>2 DEF Tick, Engine!Tick, verifyVars
<1>3. CASE Cleanup BY <1>1, <1>3 DEF Cleanup, Verify!Cleanup
<1>4. CASE UNCHANGED vars BY <1>1, <1>4 DEF vars, engineVars, verifyVars
<1>5. ASSUME NEW h \in Handlers, Begin(h) PROVE FlowInv'
  BY <1>5, SaveInv, ReadInv DEF Begin
<1> QED
  BY <1>2, <1>3, <1>4, <1>5, RestartInv, PassInv, ValidateInv, StoreInv, GrantInv, RenderInv,
     RedeemInv
  DEF Next

\* The flow's own invariant, with the engine's and siteverify's.
THEOREM Invariance == Spec => []Reach
<1>1. Reach <=> FlowType /\ FlowInv /\ EngineP!IInv /\ VerifyP!IInv BY DEF Reach
<1> QED BY <1>1, FlowInvInit, FlowInvStep, FlowTyped, EngineHolds, VerifyHolds, PTL DEF Spec
-----------------------------------------------------------------------------
(* What it says of an interaction *)

\* Combined, the engine, siteverify and the session store keep their types.
THEOREM TypeCorrect == Spec => []TypeOK
<1>1. Reach => TypeOK
  <2> SUFFICES ASSUME Reach PROVE TypeOK OBVIOUS
  <2> USE DEF Reach
  <2>1. Engine!TypeOK
    BY DEF EngineP!IInv, EngineP!TypeOK, Engine!TypeOK, EngineP!Times, Engine!Times,
       EngineP!Records, Engine!Records, EngineP!Tokens, Engine!Tokens, EngineP!Types, Engine!Types,
       EngineP!Visual, Engine!Visual, EngineP!CallStates, Engine!CallStates, EngineP!Idle,
       Engine!Idle, EngineP!Held, Engine!Held, EngineP!Done, Engine!Done,
       EngineP!Configs, Engine!Configs
  <2>2. Verify!TypeOK
    BY DEF VerifyP!IInv, VerifyP!TypeOK, Verify!TypeOK, VerifyP!Times, Verify!Times,
       VerifyP!Tokens, Verify!Tokens, VerifyP!Idle, Verify!Idle, VerifyP!Busy, Verify!Busy
  <2>3. DOMAIN sessions \subseteq Ids \cup DOMAIN Seeded BY DEF FlowType
  <2>4. handler \in [Handlers -> {Idle} \cup [pc : {"granting", "granted"}, sid : Ids]
                                  \cup [pc : {"rendering"}, sid : Ids, type : Engine!Types]
                                  \cup [pc : {"verifying"}, sid : Ids, answer : Answers]]
    BY DEF FlowType, HandlerStates
  <2>5. Range(decided) \subseteq Actions /\ Range(madeFor) \subseteq DOMAIN decided
    BY DEF FlowType, Range
  <2> QED BY <2>1, <2>2, <2>3, <2>4, <2>5 DEF TypeOK, FlowType
<1> QED BY <1>1, Invariance, PTL

\* Whatever a denied client renders and answers, no token is ever signed for it.
THEOREM DeniedStayDenied == Spec => []DeniedGetNothing
<1>1. Reach => DeniedGetNothing
  BY DEF Reach, FlowInv, OneToken, LetThrough, DeniedGetNothing
<1> QED BY <1>1, Invariance, PTL

\* A backend that is told success finds the session passed, if the server still has it.
THEOREM SuccessIsPassed == Spec => []RedeemedMeansPassed
<1>1. ASSUME Reach PROVE RedeemedMeansPassed
  <2> USE <1>1 DEF Reach, FlowInv
  <2> SUFFICES ASSUME NEW t \in signed, results[t] > 0, madeFor[t.id] \in DOMAIN sessions
               PROVE  sessions[madeFor[t.id]].status = "passed"
    BY DEF RedeemedMeansPassed
  <2>1. t \in Verify!Tokens
    BY DEF EngineP!IInv, EngineP!TypeOK, EngineP!Tokens, EngineP!Times, Verify!Tokens, Verify!Times
  <2>2. madeFor[t.id] \in announced BY <2>1 DEF Told
  <2>3. LetThrough(madeFor[t.id]) /\ madeFor[t.id] \in DOMAIN decided BY DEF OneToken, FlowType
  <2> QED BY <2>2, <2>3 DEF Standing
<1> QED BY <1>1, Invariance, PTL

\* All the tokens and requests of one session together earn one success.
THEOREM OneSuccess == Spec => []OneSuccessPerSession
<1>1. ASSUME Reach PROVE OneSuccessPerSession
  <2> USE <1>1 DEF Reach, FlowInv
  <2> SUFFICES ASSUME NEW t \in signed, NEW u \in signed, results[t] > 0, results[u] > 0,
                      madeFor[t.id] = madeFor[u.id]
               PROVE  t = u /\ results[t] = 1
    BY DEF OneSuccessPerSession
  <2>1. t = u BY DEF OneToken
  <2>2. t \in VerifyP!Tokens
    BY DEF EngineP!IInv, EngineP!TypeOK, EngineP!Tokens, EngineP!Times, VerifyP!Tokens, VerifyP!Times
  <2>3. results[t] \in Nat /\ results[t] <= 1
    BY <2>2 DEF VerifyP!IInv, VerifyP!TypeOK, VerifyP!AtMostOnce
  <2> QED BY <2>1, <2>3
<1> QED BY <1>1, Invariance, PTL
-----------------------------------------------------------------------------
(* The flow implements Interaction *)

Sum(res, S) == MapThenSumSet(LAMBDA t : res[t], S)

\* The recursive function behind MapThenSumSet.
Summing(res, S, it) == it = [s \in SUBSET S |->
    IF s = {} THEN 0 ELSE LET x == CHOOSE x \in s : TRUE IN res[x] + it[s \ {x}]]

LEMMA SumIsSumming ==
    ASSUME NEW res, NEW S, \E it : Summing(res, S, it)
    PROVE  \E it : Summing(res, S, it) /\ Sum(res, S) = it[S]
<1> DEFINE iter == CHOOSE it : it = [s \in SUBSET S |->
        IF s = {} THEN 0 ELSE LET x == CHOOSE x \in s : TRUE IN res[x] + it[s \ {x}]]
<1>1. Summing(res, S, iter) BY DEF Summing
<1>2. Sum(res, S) = iter[S] BY DEF Sum, MapThenSumSet, MapThenFoldSet
<1> HIDE DEF iter
<1> QED BY <1>1, <1>2

LEMMA SumOfNone == ASSUME NEW res PROVE Sum(res, {}) = 0
<1>1. Summing(res, {}, [s \in SUBSET {} |-> 0]) BY DEF Summing
<1>2. PICK it : Summing(res, {}, it) /\ Sum(res, {}) = it[{}] BY <1>1, SumIsSumming
<1> QED BY <1>2 DEF Summing

LEMMA SumOfOne == ASSUME NEW res, NEW x, res[x] \in Int PROVE Sum(res, {x}) = res[x]
<1> DEFINE g == [s \in SUBSET {x} |-> IF s = {} THEN 0 ELSE res[x]]
<1>1. (CHOOSE y \in {x} : TRUE) = x /\ {x} \ {x} = {} /\ {x} # {} OBVIOUS
<1>2. Summing(res, {x}, g)
  <2>1. \A s \in SUBSET {x} : s = {} \/ s = {x} OBVIOUS
  <2>2. g[{}] = 0 /\ res[x] + 0 = res[x] OBVIOUS
  <2> QED BY <1>1, <2>1, <2>2 DEF Summing
<1> HIDE DEF g
<1>3. PICK it : Summing(res, {x}, it) /\ Sum(res, {x}) = it[{x}] BY <1>2, SumIsSumming
<1>4. it[{}] = 0 /\ it[{x}] = res[x] + it[{}] BY <1>1, <1>3 DEF Summing
<1> QED BY <1>3, <1>4

\* The refinement mapping of ImplementsInteraction, with a name for each part.
Verdicts == [sid \in Ids |-> Verdict(sid)]
Denied == {sid \in DOMAIN decided : decided[sid] = "deny"}
TokensOf(sid) == {t \in signed : madeFor[t.id] = sid}
Successes == [sid \in Ids |-> Sum(results, TokensOf(sid))]

Mapped == INSTANCE Interaction WITH
    verdict <- Verdicts, denied <- Denied, successes <- Successes

LEMMA MappedSame ==
    /\ Mapped!Init => Promise!Init
    /\ [Mapped!Next]_(Mapped!vars) => [Promise!Next]_(Promise!vars)
BY DEF Mapped!Init, Promise!Init, Mapped!Next, Promise!Next, Mapped!vars, Promise!vars,
   Mapped!Open, Promise!Open, Mapped!Resolve, Promise!Resolve, Mapped!Report, Promise!Report,
   Mapped!Restart, Promise!Restart, Verdicts, Denied, Successes, TokensOf, Sum

\* How a session stands, by the two maps it is read from.
Stands(dec, ses, sid) ==
    CASE sid \notin DOMAIN dec -> "none"
      [] sid \in DOMAIN dec \cap DOMAIN ses -> ses[sid].status
      [] OTHER -> "forgotten"

LEMMA StandsCases ==
    ASSUME NEW dec, NEW ses, NEW sid
    PROVE  /\ sid \notin DOMAIN dec => Stands(dec, ses, sid) = "none"
           /\ sid \in DOMAIN ses \cap DOMAIN dec => Stands(dec, ses, sid) = ses[sid].status
           /\ sid \in DOMAIN dec \ DOMAIN ses => Stands(dec, ses, sid) = "forgotten"
<1>1. CASE sid \notin DOMAIN dec BY <1>1 DEF Stands
<1>2. CASE sid \in DOMAIN ses /\ sid \in DOMAIN dec BY <1>2 DEF Stands
<1>3. CASE sid \in DOMAIN dec \ DOMAIN ses BY <1>3 DEF Stands
<1> QED BY <1>1, <1>2, <1>3

LEMMA VerdictsStand ==
    /\ Verdicts = [sid \in Ids |-> Stands(decided, sessions, sid)]
    /\ Verdicts' = [sid \in Ids |-> Stands(decided', sessions', sid)]
BY DEF Verdicts, Verdict, Stands

LEMMA MappedInit == Init => Mapped!Init
<1> SUFFICES ASSUME Init PROVE Mapped!Init OBVIOUS
<1>1. DOMAIN decided = {} /\ signed = {} BY DEF Init, Engine!Init
<1>2. \A sid : Stands(decided, sessions, sid) = "none" BY <1>1, StandsCases
<1>3. \A sid : TokensOf(sid) = {} BY <1>1 DEF TokensOf
<1>4. Successes = [sid \in Ids |-> 0] BY <1>3, SumOfNone DEF Successes
<1>5. Verdicts = [sid \in Ids |-> "none"] BY <1>2, VerdictsStand
<1> QED BY <1>1, <1>4, <1>5 DEF Mapped!Init, Denied

LEMMA SuccessesSum ==
    /\ Successes = [sid \in Ids |-> Sum(results, {t \in signed : madeFor[t.id] = sid})]
    /\ Successes' = [sid \in Ids |-> Sum(results', {t \in signed' : madeFor'[t.id] = sid})]
BY DEF Successes, TokensOf, Sum, MapThenSumSet, MapThenFoldSet

\* Nothing the interaction shows has changed.
LEMMA MappedStutter ==
    UNCHANGED <<sessions, decided, results, signed, madeFor>> => UNCHANGED Mapped!vars
BY SuccessesSum, VerdictsStand DEF Mapped!vars, Denied

\* A step that signs nothing and tells nothing leaves the successes alone.
LEMMA SuccessesKept ==
    ASSUME Reach, UNCHANGED <<results, signed>>,
           \A id \in DOMAIN madeFor : madeFor'[id] = madeFor[id]
    PROVE  Successes' = Successes
<1>1. \A t \in signed : t.id \in DOMAIN madeFor BY DEF Reach, FlowInv, OneToken
<1>2. \A sid : {t \in signed' : madeFor'[t.id] = sid} = {t \in signed : madeFor[t.id] = sid}
  BY <1>1
<1> QED BY <1>2, SuccessesSum

\* A stored status is the new verdict of its session, and of no other.
LEMMA VerdictStored ==
    ASSUME Reach, NEW sid \in DOMAIN sessions \cap DOMAIN decided, NEW status \in Statuses,
           UpdateStatus(sid, status), UNCHANGED decided
    PROVE  /\ Verdicts[sid] = sessions[sid].status
           /\ Verdicts' = [Verdicts EXCEPT ![sid] = status]
<1>1. DOMAIN decided \subseteq Ids BY DEF Reach, FlowType
<1>2. /\ DOMAIN sessions' = DOMAIN sessions
      /\ \A x \in DOMAIN sessions :
           sessions'[x].status = IF x = sid THEN status ELSE sessions[x].status
  BY <1>1, UpdateProperties DEF Reach
<1>3. \A x \in Ids : Stands(decided', sessions', x) =
                       IF x = sid THEN status ELSE Stands(decided, sessions, x)
  <2> SUFFICES ASSUME NEW x \in Ids
               PROVE  Stands(decided', sessions', x) =
                        IF x = sid THEN status ELSE Stands(decided, sessions, x)
    OBVIOUS
  <2>1. CASE x \in DOMAIN sessions \cap DOMAIN decided BY <1>2, <2>1, StandsCases
  <2>2. CASE x \notin DOMAIN sessions BY <1>2, <2>2 DEF Stands
  <2>3. CASE x \notin DOMAIN decided BY <2>3, StandsCases
  <2> QED BY <2>1, <2>2, <2>3
<1>4. Stands(decided, sessions, sid) = sessions[sid].status /\ sid \in Ids BY <1>1, StandsCases
<1>5. Verdicts[sid] = sessions[sid].status BY <1>4, VerdictsStand
<1>6. Verdicts' = [x \in Ids |-> IF x = sid THEN status ELSE Verdicts[x]]
  BY <1>3, VerdictsStand
<1>7. DOMAIN Verdicts = Ids BY VerdictsStand
<1> HIDE DEF Verdicts
<1> QED BY <1>5, <1>6, <1>7

\* The tokens of a session are none or one.
LEMMA FewTokens ==
    ASSUME Reach, NEW sid
    PROVE  \/ {t \in signed : madeFor[t.id] = sid} = {}
           \/ \E u \in signed : {t \in signed : madeFor[t.id] = sid} = {u}
BY DEF Reach, FlowInv, OneToken

\* The siteverify's table of results covers every token signed.
LEMMA TokensTyped ==
    Reach => signed \subseteq Verify!Tokens /\ results \in [Verify!Tokens -> Nat]
BY DEF Reach, VerifyP!IInv, VerifyP!TypeOK, VerifyP!Tokens, VerifyP!Times, Verify!Tokens,
   Verify!Times, EngineP!IInv, EngineP!TypeOK, EngineP!Tokens, EngineP!Times

\* Saving a session opens the interaction.
LEMMA SaveOpens ==
    ASSUME Reach, NEW h \in Handlers, NEW sid \in Ids, NEW action \in Actions,
           PrecheckSave(h, sid, action)
    PROVE  Mapped!Next
<1>1. /\ sid \notin DOMAIN decided /\ decided' = Engine!Put(decided, sid, action)
      /\ UNCHANGED <<results, signed, madeFor>>
  BY DEF PrecheckSave, Fresh, engineVars, verifyVars
<1>2. PICK type : sessions' = Engine!Put(sessions, sid, [type |-> type, status |-> "pending"])
  BY DEF PrecheckSave
<1>3. /\ DOMAIN decided' = DOMAIN decided \cup {sid} /\ decided'[sid] = action
      /\ \A x \in DOMAIN decided : decided'[x] = decided[x]
  BY <1>1 DEF Engine!Put
<1>4. /\ DOMAIN sessions' = DOMAIN sessions \cup {sid} /\ sessions'[sid].status = "pending"
      /\ \A x \in DOMAIN sessions : x # sid => sessions'[x] = sessions[x]
  BY <1>2 DEF Engine!Put
<1>6. \A x \in Ids : Stands(decided', sessions', x) =
                       IF x = sid THEN "pending" ELSE Stands(decided, sessions, x)
  <2> SUFFICES ASSUME NEW x \in Ids
               PROVE  Stands(decided', sessions', x) =
                        IF x = sid THEN "pending" ELSE Stands(decided, sessions, x)
    OBVIOUS
  <2>1. CASE x = sid
    <3>1. sid \in DOMAIN sessions' \cap DOMAIN decided' BY <1>3, <1>4
    <3>2. Stands(decided', sessions', sid) = sessions'[sid].status BY <3>1, StandsCases
    <3> QED BY <1>4, <2>1, <3>2
  <2>2. CASE x # sid BY <1>3, <1>4, <2>2 DEF Stands
  <2> QED BY <2>1, <2>2
<1>7. Verdicts[sid] = "none" /\ Verdicts' = [Verdicts EXCEPT ![sid] = "pending"]
  <2>1. Stands(decided, sessions, sid) = "none" BY <1>1, StandsCases
  <2> QED BY <1>6, <2>1, VerdictsStand
<1>8. Denied' \in {Denied, Denied \cup {sid}} BY <1>1, <1>3 DEF Denied
<1>9. Successes' = Successes BY <1>1, SuccessesKept
<1> QED BY <1>7, <1>8, <1>9 DEF Mapped!Next, Mapped!Open

\* A token just signed has earned nothing.
LEMMA SignStutters ==
    ASSUME Reach, Reach', NEW h \in Handlers, NEW id \in Ids, PrecheckSign(h, id)
    PROVE  UNCHANGED Mapped!vars
<1>1. PICK sid \in Ids : Grants(h, sid) /\ handler[h].sid = sid /\ handler[h].pc = "granting"
  BY DEF PrecheckSign, Reach, FlowType, HandlerStates, Idle, Grants
<1>2. /\ id \notin DOMAIN configs /\ madeFor' = Engine!Put(madeFor, id, sid)
      /\ UNCHANGED <<results, sessions, decided>>
  BY <1>1 DEF PrecheckSign, Fresh, verifyVars
<1>3. PICK ts : signed' = signed \cup {[id |-> id, ts |-> ts]}
  BY DEF PrecheckSign, Engine!GenerateChallenge, Engine!GenerateInvisible, Engine!Sign,
     Engine!Visual, Engine!Types
<1> DEFINE new == [id |-> id, ts |-> ts]
<1>4. madeFor'[id] = sid /\ \A x \in DOMAIN madeFor : x # id /\ madeFor'[x] = madeFor[x]
  BY <1>2 DEF Engine!Put, Reach, FlowType
<1>5. \A t \in signed : t.id \in DOMAIN madeFor /\ t.id # id /\ madeFor[t.id] # sid
  BY <1>1, <1>4 DEF Reach, FlowInv, OneToken, Granting
<1>6. results[new] = 0
  <2>1. new \in Verify!Tokens /\ new \notin signed
    <3>1. new \in signed' /\ new \notin signed BY <1>3, <1>5
    <3>2. signed' \subseteq Verify!Tokens
      BY DEF Reach, EngineP!IInv, EngineP!TypeOK, EngineP!Tokens, EngineP!Times, Verify!Tokens,
         Verify!Times
    <3> QED BY <3>1, <3>2
  <2>2. results[new] \in Nat /\ ~(results[new] > 0)
    BY <2>1, TokensTyped DEF Reach, FlowInv, Told
  <2> QED BY <2>2
<1>7. \A x \in Ids : Sum(results', {t \in signed' : madeFor'[t.id] = x}) =
                       Sum(results, {t \in signed : madeFor[t.id] = x})
  <2> SUFFICES ASSUME NEW x \in Ids
               PROVE  Sum(results, {t \in signed' : madeFor'[t.id] = x}) =
                        Sum(results, {t \in signed : madeFor[t.id] = x})
    BY <1>2
  <2>1. CASE x = sid
    <3>1. {t \in signed : madeFor[t.id] = x} = {} BY <1>5, <2>1
    <3>2. {t \in signed' : madeFor'[t.id] = x} = {new} BY <1>3, <1>4, <1>5, <2>1
    <3> HIDE DEF new
    <3>3. results[new] \in Int BY <1>6
    <3>4. Sum(results, {new}) = results[new] BY <3>3, SumOfOne
    <3> QED BY <1>6, <3>1, <3>2, <3>4, SumOfNone
  <2>2. CASE x # sid
    <3>1. {t \in signed' : madeFor'[t.id] = x} = {t \in signed : madeFor[t.id] = x}
      BY <1>3, <1>4, <1>5, <2>2
    <3> QED BY <3>1
  <2> QED BY <2>1, <2>2
<1>8. Successes' = Successes BY <1>7, SuccessesSum
<1>9. Verdicts' = Verdicts BY <1>2, VerdictsStand
<1> QED BY <1>2, <1>8, <1>9 DEF Mapped!vars, Denied

\* The status stored before the token is sent resolves the interaction.
LEMMA PassResolves == ASSUME Reach, NEW h \in Handlers, PrecheckPass(h) PROVE Mapped!Next
<1>1. PICK sid \in DOMAIN sessions \cap DOMAIN decided :
        Grants(h, sid) /\ handler[h].sid = sid /\ sid \in Ids
  BY DEF PrecheckPass, Reach, FlowType, HandlerStates, Idle, Grants
<1>2. UpdateStatus(sid, "passed") /\ UNCHANGED <<results, signed, madeFor, decided>>
  BY <1>1 DEF PrecheckPass, engineVars, verifyVars
<1>3. LetThrough(sid) /\ sessions[sid].status = "pending"
  BY <1>1 DEF Reach, FlowInv, Granting, Standing
<1>4. Verdicts[sid] = "pending" /\ Verdicts' = [Verdicts EXCEPT ![sid] = "passed"]
  BY <1>2, <1>3, VerdictStored DEF Statuses
<1>5. sid \notin Denied /\ Denied' = Denied BY <1>2, <1>3 DEF LetThrough, Denied
<1>6. Successes' = Successes BY <1>2, SuccessesKept
<1> QED BY <1>1, <1>4, <1>5, <1>6 DEF Mapped!Next, Mapped!Resolve

\* A rendered challenge is nobody's business but the engine's.
LEMMA RenderStutters ==
    ASSUME Reach, NEW h \in Handlers, NEW id \in Ids, RenderGenerate(h, id)
    PROVE  UNCHANGED Mapped!vars
<1>1. /\ id \notin DOMAIN configs /\ madeFor' = Engine!Put(madeFor, id, handler[h].sid)
      /\ UNCHANGED <<results, sessions, decided, signed>>
  BY RenderInv DEF RenderGenerate, Fresh, verifyVars
<1>2. \A x \in DOMAIN madeFor : madeFor'[x] = madeFor[x] BY <1>1 DEF Engine!Put, Reach, FlowType
<1>3. Successes' = Successes BY <1>1, <1>2, SuccessesKept
<1>4. Verdicts' = Verdicts BY <1>1, VerdictsStand
<1> QED BY <1>1, <1>3, <1>4 DEF Mapped!vars, Denied

\* A verdict resolves a pending interaction, and repeats what was said of a failed one.
LEMMA StoreResolves ==
    ASSUME Reach, NEW h \in Handlers, VerifyStore(h)
    PROVE  Mapped!Next \/ UNCHANGED Mapped!vars
<1>1. PICK sid \in DOMAIN sessions \cap DOMAIN decided :
        /\ sid \in Ids /\ ~LetThrough(sid) /\ UpdateStatus(sid, "failed")
        /\ UNCHANGED <<signed, results, decided, madeFor>>
  BY StoreEffect
<1>2. Verdicts[sid] = sessions[sid].status /\ Verdicts' = [Verdicts EXCEPT ![sid] = "failed"]
  BY <1>1, VerdictStored DEF Statuses
<1>3. sessions[sid].status \in {"pending", "failed"}
  BY <1>1 DEF Reach, FlowInv, Standing, FlowType, Statuses
<1>4. Denied' = Denied BY <1>1 DEF Denied
<1>5. Successes' = Successes BY <1>1, SuccessesKept
<1>6. CASE sessions[sid].status = "pending"
  BY <1>1, <1>2, <1>4, <1>5, <1>6 DEF Mapped!Next, Mapped!Resolve
<1>7. CASE sessions[sid].status = "failed"
  <2>1. Verdicts' = Verdicts BY <1>1, <1>2, <1>7 DEF Verdicts
  <2> QED BY <2>1, <1>4, <1>5 DEF Mapped!vars
<1> QED BY <1>3, <1>6, <1>7

\* Success is reported of an interaction that was passed or forgotten, for the first time.
LEMMA RedeemReports ==
    ASSUME Reach, Reach', NEW r \in Requests, Redeem(r)
    PROVE  Mapped!Next \/ UNCHANGED Mapped!vars
<1>1. UNCHANGED <<signed, sessions, decided, announced, madeFor>>
  BY DEF Redeem, flowVars, Verify!Step, Verify!MarkUsed, Verify!CheckAge, Verify!Succeed, Verify!Submit
<1>2. Verdicts' = Verdicts /\ Denied' = Denied BY <1>1, VerdictsStand DEF Denied
<1>3. CASE ~Verify!Succeed(r)
  <2>1. results' = results
    BY <1>3 DEF Redeem, Verify!Step, Verify!MarkUsed, Verify!CheckAge, Verify!Submit
  <2> QED BY <1>1, <2>1, MappedStutter
<1>4. CASE Verify!Succeed(r)
  <2>1. PICK t \in signed : t = call[r].token /\ madeFor[t.id] \in announced
    BY <1>4 DEF Verify!Succeed, Reach, FlowInv, Told
  <2>2. PICK sid \in Ids : sid = madeFor[t.id] /\ sid \in announced /\ LetThrough(sid)
    BY <2>1 DEF Reach, FlowInv, OneToken, FlowType
  <2>3. t \in Verify!Tokens /\ results \in [Verify!Tokens -> Nat] /\ signed \subseteq Verify!Tokens
    BY TokensTyped
  <2>4. results' = [results EXCEPT ![t] = results[t] + 1] BY <1>4, <2>1 DEF Verify!Succeed
  <2>5. results[t] = 0
    <3>1. results'[t] <= 1
      BY <2>3 DEF Reach, VerifyP!IInv, VerifyP!AtMostOnce, VerifyP!Tokens, VerifyP!Times,
         Verify!Tokens, Verify!Times
    <3> QED BY <2>3, <2>4, <3>1
  <2>6. {u \in signed : madeFor[u.id] = sid} = {t}
    BY <2>2 DEF Reach, FlowInv, OneToken
  <2>7. Verdicts[sid] \in {"passed", "forgotten"}
    <3>1. sid \in DOMAIN decided BY <2>2 DEF Reach, FlowType
    <3>2. Stands(decided, sessions, sid) \in {"passed", "forgotten"}
      <4>1. CASE sid \in DOMAIN sessions
        <5>1. sessions[sid].status = "passed" BY <2>2, <3>1, <4>1 DEF Reach, FlowInv, Standing
        <5> QED BY <3>1, <4>1, <5>1, StandsCases
      <4>2. CASE sid \notin DOMAIN sessions BY <3>1, <4>2, StandsCases
      <4> QED BY <4>1, <4>2
    <3> QED BY <3>2, VerdictsStand
  <2>8. sid \notin Denied BY <2>2 DEF Denied, LetThrough
  <2>9. Successes[sid] = 0
    <3>1. Sum(results, {t}) = 0 BY <2>5, SumOfOne
    <3> QED BY <2>6, <3>1, SuccessesSum
  <2>10. Successes' = [Successes EXCEPT ![sid] = 1]
    <3>1. Sum(results', {t}) = 1
      <4>1. results'[t] = 1 BY <2>3, <2>4, <2>5
      <4> QED BY <4>1, SumOfOne
    <3>2. ASSUME NEW x \in Ids, x # sid
          PROVE  Sum(results', {u \in signed : madeFor[u.id] = x}) =
                   Sum(results, {u \in signed : madeFor[u.id] = x})
      <4>1. CASE {u \in signed : madeFor[u.id] = x} = {} BY <4>1, SumOfNone
      <4>2. ASSUME NEW u \in signed, {v \in signed : madeFor[v.id] = x} = {u}
            PROVE  Sum(results', {u}) = Sum(results, {u})
        <5>1. u # t /\ u \in Verify!Tokens BY <2>2, <2>3, <3>2, <4>2
        <5>2. results'[u] = results[u] /\ results[u] \in Int BY <2>3, <2>4, <5>1
        <5> QED BY <5>2, SumOfOne
      <4> QED BY <4>1, <4>2, FewTokens
    <3> QED BY <1>1, <2>6, <3>1, <3>2, SuccessesSum
  <2> QED BY <2>2, <2>7, <2>8, <2>9, <2>10, <1>2 DEF Mapped!Next, Mapped!Report
<1> QED BY <1>3, <1>4

\* A restart forgets how the interactions stood and what was reported of them.
LEMMA RestartForgets == ASSUME Reach, Restart PROVE Mapped!Next
<1>1. /\ UNCHANGED <<signed, decided, madeFor>>
      /\ sessions' = Seeded
      /\ results' = [t \in Verify!Tokens |-> 0]
  BY DEF Restart, Engine!Restart, Verify!Restart
<1>2. Denied' = Denied BY <1>1 DEF Denied
<1>3. Verdicts' = [x \in Ids |-> IF Verdicts[x] = "none" THEN "none" ELSE "forgotten"]
  <2>1. ASSUME NEW x \in Ids
        PROVE  Stands(decided', sessions', x) =
                 IF Stands(decided, sessions, x) = "none" THEN "none" ELSE "forgotten"
    <3>1. x \notin DOMAIN sessions' BY <1>1, SeededAssumption
    <3>2. CASE x \notin DOMAIN decided BY <1>1, <3>2, StandsCases
    <3>3. CASE x \in DOMAIN decided
      <4>1. Stands(decided', sessions', x) = "forgotten" BY <1>1, <3>1, <3>3, StandsCases
      <4>2. x \in DOMAIN sessions => sessions[x].status # "none" BY DEF Reach, FlowType, Statuses
      <4>3. Stands(decided, sessions, x) # "none" BY <3>3, <4>2, StandsCases
      <4> QED BY <4>1, <4>3
    <3> QED BY <3>2, <3>3
  <2> QED BY <2>1, VerdictsStand
<1>4. Successes' = [x \in Ids |-> 0]
  <2>1. ASSUME NEW x \in Ids PROVE Sum(results', {u \in signed : madeFor[u.id] = x}) = 0
    <3>1. CASE {u \in signed : madeFor[u.id] = x} = {} BY <3>1, SumOfNone
    <3>2. ASSUME NEW u \in signed PROVE Sum(results', {u}) = 0
      <4>1. results'[u] = 0 BY <1>1, TokensTyped
      <4> QED BY <4>1, SumOfOne
    <3> QED BY <3>1, <3>2, FewTokens
  <2> QED BY <1>1, <2>1, SuccessesSum
<1> QED BY <1>2, <1>3, <1>4 DEF Mapped!Next, Mapped!Restart

LEMMA MappedStep == Reach /\ Reach' /\ [Next]_vars => [Mapped!Next]_(Mapped!vars)
<1> SUFFICES ASSUME Reach, Reach', [Next]_vars PROVE Mapped!Next \/ UNCHANGED Mapped!vars
  OBVIOUS
<1>1. CASE Tick BY <1>1, MappedStutter DEF Tick, Engine!Tick, verifyVars, flowVars
<1>2. CASE Cleanup BY <1>2, MappedStutter DEF Cleanup, Verify!Cleanup, flowVars
<1>3. CASE UNCHANGED vars BY <1>3, MappedStutter DEF vars, engineVars, verifyVars, flowVars
<1>4. ASSUME NEW h \in Handlers, Begin(h) PROVE Mapped!Next \/ UNCHANGED Mapped!vars
  <2>1. ASSUME NEW sid, RenderRead(h, sid) \/ \E answer \in Answers : VerifyRead(h, sid, answer)
        PROVE  UNCHANGED Mapped!vars
    BY <2>1, MappedStutter DEF RenderRead, VerifyRead, engineVars, verifyVars
  <2> QED BY <1>4, <2>1, SaveOpens DEF Begin
<1>5. ASSUME NEW h \in Handlers, Validate(h) PROVE UNCHANGED Mapped!vars
  BY <1>5, ValidateInv, MappedStutter DEF Validate, flowVars, verifyVars
<1> QED
  BY <1>1, <1>2, <1>3, <1>4, <1>5, RestartForgets, PassResolves, StoreResolves, SignStutters,
     RenderStutters, RedeemReports
  DEF Next

\* Handlers, engine, siteverify and store together keep the promise of Interaction: every
\* interaction is resolved once, whatever answers are late or concurrent, and its customer
\* is told success once per process, of a session that was passed and never denied.
THEOREM Implements == Spec => ImplementsInteraction
<1>1. Mapped!Init /\ [][Mapped!Next]_(Mapped!vars) => Promise!Spec
  BY MappedSame, PTL DEF Promise!Spec
<1> QED BY <1>1, MappedInit, MappedStep, Invariance, PTL DEF Spec, ImplementsInteraction
=============================================================================
