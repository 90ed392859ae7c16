----------------------- MODULE ChallengeEngineProofs ------------------------
(***************************************************************************)
(* A challenge can be won at most once, for any number of ids, callers and *)
(* answers.  OneUse needs to know, besides itself, that whatever concerns  *)
(* an id (a record, a call, a token) concerns one that was generated, and  *)
(* that a fresh id is therefore free of all three (Generated).             *)
(***************************************************************************)
EXTENDS ChallengeEngine, TLAPS

\* Records, calls and tokens only exist for ids that GenerateChallenge returned, and
\* a record that is still there was lost in no restart.
Generated ==
    /\ DOMAIN answers \subseteq DOMAIN configs
    /\ \A id \in DOMAIN answers : ~configs[id].lost
    /\ \A c \in Callers : calls[c].pc \in {"taken", "approved"} => calls[c].id \in DOMAIN configs
    /\ \A t \in signed : t.id \in DOMAIN configs

IInv == TypeOK /\ Generated /\ OneUse
-----------------------------------------------------------------------------
\* The stamp of a token signed now is a time.
LEMMA StampBound == clock \in Times => Stamp \in Times
<1> SUFFICES ASSUME clock \in Times PROVE Stamp \in Times
  OBVIOUS
<1>1. clock % Second \in 0..(Second - 1) BY TimeAssumption DEF Times
<1>2. clock % Second <= clock BY TimeAssumption DEF Times
<1> QED BY <1>1, <1>2, TimeAssumption DEF Times, Stamp

\* What GenerateChallenge stores is a record of the type it was asked for.
LEMMA RecordsForType ==
    ASSUME clock \in Times, NEW type \in Visual, NEW rec \in RecordsFor(type)
    PROVE  rec \in Records /\ rec.type = type /\ rec.expiresAt \in Nat
<1>1. Deadlines \subseteq Nat BY TimeAssumption DEF Times, Deadlines
<1>2. CASE type = "slider" BY <1>1, <1>2 DEF RecordsFor, Records
<1>3. CASE type = "puzzle" BY <1>1, <1>3 DEF RecordsFor, Records
<1>4. CASE type = "click" BY <1>1, <1>4 DEF RecordsFor, Records
<1> QED BY <1>2, <1>3, <1>4 DEF Visual

\* The two outcomes of GenerateChallenge, in the terms the proofs below use.
LEMMA GenerateEffect ==
    ASSUME TypeOK, NEW id \in Ids, NEW type \in Types \cup {"unknown"}, GenerateChallenge(id, type)
    PROVE  /\ id \notin DOMAIN configs
           /\ UNCHANGED <<clock, calls>>
           /\ \E kind \in Types : \E rec \in Records :
                /\ rec.type = kind /\ rec.expiresAt \in Nat
                /\ answers' = Put(answers, id, rec)
                /\ configs' = Put(configs, id, Returned(rec))
                /\ \/ kind \in Visual /\ signed' = signed
                   \/ kind = "invisible" /\ signed' = signed \cup {[id |-> id, ts |-> Stamp]}
<1>1. id \notin DOMAIN configs /\ UNCHANGED <<clock, calls>> BY DEF GenerateChallenge
<1>2. CASE type = "invisible"
  <2>1. Deadlines \subseteq Nat BY TimeAssumption DEF TypeOK, Times, Deadlines
  <2>2. PICK rec \in [type : {"invisible"}, expiresAt : Deadlines] :
          /\ answers' = Put(answers, id, rec)
          /\ configs' = Put(configs, id, Returned(rec))
          /\ signed' = signed \cup {[id |-> id, ts |-> Stamp]}
    BY <1>2 DEF GenerateChallenge, GenerateInvisible, Sign, Visual, Types
  <2>3. rec \in Records /\ rec.expiresAt \in Nat /\ rec.type = "invisible"
    BY <2>1 DEF Records
  <2> QED BY <1>1, <2>2, <2>3 DEF Types
<1>3. ASSUME NEW kind \in Visual, GenerateVisual(id, kind)
      PROVE  \E rec \in Records :
                /\ rec.type = kind /\ rec.expiresAt \in Nat
                /\ answers' = Put(answers, id, rec)
                /\ configs' = Put(configs, id, Returned(rec))
                /\ signed' = signed
  BY <1>3, RecordsForType DEF GenerateVisual, TypeOK
<1>4. CASE type # "invisible"
  <2>1. \E kind \in Visual : GenerateVisual(id, kind)
    BY <1>4 DEF GenerateChallenge, Visual, Types
  <2> QED BY <1>1, <1>3, <2>1 DEF Types
<1> QED BY <1>2, <1>4
-----------------------------------------------------------------------------
\* Every step keeps the type invariant.
LEMMA TypeStep == TypeOK /\ [Next]_vars => TypeOK'
<1> SUFFICES ASSUME TypeOK, [Next]_vars PROVE TypeOK'
  OBVIOUS
<1>1. CASE Tick
  BY <1>1, TimeAssumption DEF Tick, TypeOK, Times, Tokens
<1>2. CASE CleanExpired
  BY <1>2 DEF CleanExpired, TypeOK, Restrict
<1>3. CASE Restart
  BY <1>3 DEF Restart, TypeOK, Configs, CallStates
<1>4. ASSUME NEW id \in Ids, NEW type \in Types \cup {"unknown"}, GenerateChallenge(id, type)
      PROVE  TypeOK'
  <2>1. PICK kind \in Types, rec \in Records :
          /\ rec.type = kind /\ rec.expiresAt \in Nat
          /\ answers' = Put(answers, id, rec)
          /\ configs' = Put(configs, id, Returned(rec))
          /\ \/ kind \in Visual /\ signed' = signed
             \/ kind = "invisible" /\ signed' = signed \cup {[id |-> id, ts |-> Stamp]}
    BY <1>4, GenerateEffect
  <2>2. UNCHANGED <<clock, calls>> BY <1>4 DEF GenerateChallenge
  <2>3. DOMAIN answers' \subseteq Ids /\ \A x \in DOMAIN answers' : answers'[x] \in Records
    BY <2>1 DEF TypeOK, Put
  <2>4. DOMAIN configs' \subseteq Ids /\ \A x \in DOMAIN configs' : configs'[x] \in Configs
    BY <2>1 DEF TypeOK, Put, Returned, Configs
  <2>5. signed' \subseteq Tokens BY <2>1, StampBound DEF TypeOK, Tokens
  <2> QED BY <2>2, <2>3, <2>4, <2>5 DEF TypeOK
<1>5. ASSUME NEW c \in Callers, NEW id \in Ids, NEW a \in Answers, Take(c, id, a) PROVE TypeOK'
  <2>1. ASSUME id \in DOMAIN answers
        PROVE  [pc |-> "taken", id |-> id, rec |-> answers[id], answer |-> a] \in Held
    BY <2>1 DEF TypeOK, Held
  <2>2. [pc |-> "done", valid |-> FALSE] \in Done BY DEF Done
  <2>3. calls' \in [Callers -> CallStates] BY <1>5, <2>1, <2>2 DEF Take, TypeOK, CallStates
  <2>4. DOMAIN answers' \subseteq DOMAIN answers /\ \A x \in DOMAIN answers' : answers'[x] = answers[x]
    BY <1>5 DEF Take, Restrict
  <2> QED BY <1>5, <2>3, <2>4 DEF Take, TypeOK
<1>6. ASSUME NEW c \in Callers, Judge(c) PROVE TypeOK'
  <2>1. calls[c] \in Held BY <1>6 DEF Judge, TypeOK, CallStates, Idle, Done
  <2>2. [calls[c] EXCEPT !.pc = "approved"] \in Held BY <2>1 DEF Held
  <2>3. [pc |-> "done", valid |-> FALSE] \in Done BY DEF Done
  <2>4. \/ calls' = [calls EXCEPT ![c] = [calls[c] EXCEPT !.pc = "approved"]]
        \/ calls' = [calls EXCEPT ![c] = [pc |-> "done", valid |-> FALSE]]
    BY <1>6 DEF Judge
  <2>5. calls' \in [Callers -> CallStates] BY <2>2, <2>3, <2>4 DEF TypeOK, CallStates
  <2> QED BY <1>6, <2>5 DEF Judge, TypeOK
<1>7. ASSUME NEW c \in Callers, SignApproved(c) PROVE TypeOK'
  <2>1. calls[c] \in Held BY <1>7 DEF SignApproved, TypeOK, CallStates, Idle, Done
  <2>2. [pc |-> "done", valid |-> TRUE] \in Done BY DEF Done
  <2>3. calls' \in [Callers -> CallStates] BY <1>7, <2>2 DEF SignApproved, TypeOK, CallStates
  <2>4. signed' \subseteq Tokens
    BY <1>7, <2>1, StampBound DEF SignApproved, Sign, TypeOK, Tokens, Held
  <2> QED BY <1>7, <2>3, <2>4 DEF SignApproved, TypeOK
<1>8. ASSUME NEW c \in Callers, Return(c) PROVE TypeOK'
  BY <1>8 DEF Return, TypeOK, CallStates
<1>9. CASE UNCHANGED vars
  BY <1>9 DEF vars, TypeOK
<1> QED BY <1>1, <1>2, <1>3, <1>4, <1>5, <1>6, <1>7, <1>8, <1>9 DEF Next

LEMMA InitInv == Init => IInv
<1> SUFFICES ASSUME Init PROVE IInv
  OBVIOUS
<1>1. TypeOK BY TimeAssumption DEF Init, TypeOK, Times, CallStates
<1>2. Generated BY DEF Init, Generated, Idle
<1>3. OneUse BY DEF Init, OneUse
<1> QED BY <1>1, <1>2, <1>3 DEF IInv

\* A challenge under a fresh id starts with its record alone, or, if it is
\* invisible, with a token that OneUse does not speak of.
LEMMA GenerateInv ==
    ASSUME IInv, NEW id \in Ids, NEW type \in Types \cup {"unknown"}, GenerateChallenge(id, type)
    PROVE  Generated' /\ OneUse'
<1> USE DEF IInv
<1>1. PICK kind \in Types, rec \in Records :
        /\ rec.type = kind /\ rec.expiresAt \in Nat
        /\ answers' = Put(answers, id, rec)
        /\ configs' = Put(configs, id, Returned(rec))
        /\ \/ kind \in Visual /\ signed' = signed
           \/ kind = "invisible" /\ signed' = signed \cup {[id |-> id, ts |-> Stamp]}
  BY GenerateEffect
<1>2. id \notin DOMAIN configs /\ UNCHANGED calls BY DEF GenerateChallenge
<1>3. DOMAIN configs' = DOMAIN configs \cup {id} /\ DOMAIN answers' = DOMAIN answers \cup {id}
  BY <1>1 DEF Put
<1>4. signed \subseteq signed' /\ \A t \in signed' : t \in signed \/ t.id = id BY <1>1
<1>5. Generated'
  <2>1. \A x \in DOMAIN answers' : ~configs'[x].lost
    BY <1>1, <1>2, <1>3 DEF Generated, Put, Returned
  <2> QED BY <1>2, <1>3, <1>4, <2>1 DEF Generated
<1>6. ASSUME NEW x \in DOMAIN configs', configs'[x].type \in Visual
      PROVE  /\ x \in DOMAIN answers' => \A c \in Callers : ~Has(c, x)'
             /\ x \in DOMAIN answers' => \A t \in signed' : t.id # x
             /\ \A c, d \in Callers : Has(c, x)' /\ Has(d, x)' => c = d
             /\ \A c \in Callers : Has(c, x)' => \A t \in signed' : t.id # x
             /\ \A t, u \in signed' : t.id = x /\ u.id = x => t = u
  <2>1. \A c \in Callers : Has(c, x)' <=> Has(c, x) BY <1>2 DEF Has
  <2>2. CASE x = id
    <3>1. \A c \in Callers : ~Has(c, x) BY <2>2, <1>2 DEF Generated, Has
    <3>2. kind \in Visual /\ signed' = signed
      BY <2>2, <1>1, <1>6, <1>3 DEF Put, Returned, Visual
    <3>3. \A t \in signed' : t.id # x BY <2>2, <3>2, <1>2 DEF Generated
    <3> QED BY <2>1, <3>1, <3>3
  <2>3. CASE x # id
    <3>1. x \in DOMAIN configs /\ configs'[x] = configs[x] /\ (x \in DOMAIN answers' <=> x \in DOMAIN answers)
      BY <2>3, <1>1, <1>3 DEF Put
    <3>2. \A t \in signed' : t.id = x => t \in signed BY <2>3, <1>4
    <3>3. configs[x].type \in Visual BY <3>1, <1>6
    <3> QED BY <2>1, <3>1, <3>2, <3>3 DEF OneUse
  <2> QED BY <2>2, <2>3
<1>7. OneUse' BY <1>6 DEF OneUse
<1> QED BY <1>5, <1>7

\* Taking the record out of the map passes the challenge on to one caller.
LEMMA TakeInv ==
    ASSUME IInv, NEW c \in Callers, NEW id \in Ids, NEW a \in Answers, Take(c, id, a)
    PROVE  Generated' /\ OneUse'
<1> USE DEF IInv
<1>1. UNCHANGED <<signed, configs>> BY DEF Take
<1>2. \A d \in Callers : d # c => calls'[d] = calls[d] BY DEF Take, TypeOK
<1>3. \A x : ~Has(c, x) BY DEF Take, Has, Idle
<1>a. CASE id \notin DOMAIN answers
  <2>1. UNCHANGED answers /\ calls'[c].pc = "done" BY <1>a DEF Take, TypeOK
  <2>2. \A d \in Callers : \A x : Has(d, x)' <=> Has(d, x) BY <1>2, <1>3, <2>1 DEF Has
  <2>3. Generated' BY <1>1, <1>2, <2>1 DEF Generated
  <2>4. OneUse' BY <1>1, <2>1, <2>2 DEF OneUse
  <2> QED BY <2>3, <2>4
<1>b. CASE id \in DOMAIN answers
  <2>1. DOMAIN answers' = DOMAIN answers \ {id} /\ calls'[c].pc = "taken" /\ calls'[c].id = id
    BY <1>b DEF Take, TypeOK, Restrict
  <2>2. \A d \in Callers : \A x : Has(d, x)' <=> Has(d, x) \/ (d = c /\ x = id)
    BY <1>2, <1>3, <2>1 DEF Has
  <2>3. Generated' BY <1>1, <1>2, <1>b, <2>1 DEF Generated
  <2>4. ASSUME NEW x \in DOMAIN configs', configs'[x].type \in Visual
        PROVE  /\ x \in DOMAIN answers' => \A d \in Callers : ~Has(d, x)'
               /\ x \in DOMAIN answers' => \A t \in signed' : t.id # x
               /\ \A d, e \in Callers : Has(d, x)' /\ Has(e, x)' => d = e
               /\ \A d \in Callers : Has(d, x)' => \A t \in signed' : t.id # x
               /\ \A t, u \in signed' : t.id = x /\ u.id = x => t = u
    <3>1. x \in DOMAIN configs /\ configs[x].type \in Visual BY <2>4, <1>1
    <3> QED BY <3>1, <1>1, <1>b, <2>1, <2>2 DEF OneUse
  <2>5. OneUse' BY <2>4 DEF OneUse
  <2> QED BY <2>3, <2>5
<1> QED BY <1>a, <1>b

LEMMA JudgeInv == ASSUME IInv, NEW c \in Callers, Judge(c) PROVE Generated' /\ OneUse'
<1> USE DEF IInv
<1>1. UNCHANGED <<answers, signed, configs>> BY DEF Judge
<1>2. \A d \in Callers : d # c => calls'[d] = calls[d] BY DEF Judge, TypeOK
<1>3. \/ calls'[c].pc = "done"
      \/ calls'[c].pc = "approved" /\ calls'[c].id = calls[c].id
  <2>1. calls[c] \in Held BY DEF Judge, TypeOK, CallStates, Idle, Done
  <2>2. \/ calls' = [calls EXCEPT ![c] = [calls[c] EXCEPT !.pc = "approved"]]
        \/ calls' = [calls EXCEPT ![c] = [pc |-> "done", valid |-> FALSE]]
    BY DEF Judge
  <2> QED BY <2>1, <2>2 DEF TypeOK, Held
<1>4. calls[c].pc = "taken" BY DEF Judge
<1>5. \A d \in Callers : \A x : Has(d, x)' => Has(d, x) BY <1>2, <1>3, <1>4 DEF Has
<1>6. Generated' BY <1>1, <1>2, <1>3, <1>4 DEF Generated
<1>7. OneUse' BY <1>1, <1>5 DEF OneUse
<1> QED BY <1>6, <1>7

\* The one caller that holds a challenge turns it into the one token.
LEMMA SignInv == ASSUME IInv, NEW c \in Callers, SignApproved(c) PROVE Generated' /\ OneUse'
<1> USE DEF IInv
<1> DEFINE id == calls[c].id
<1>1. UNCHANGED <<answers, configs>> BY DEF SignApproved
<1>2. calls'[c].pc = "done" /\ \A d \in Callers : d # c => calls'[d] = calls[d]
  BY DEF SignApproved, TypeOK
<1>3. signed' = signed \cup {[id |-> id, ts |-> Stamp]} BY DEF SignApproved, Sign
<1>4. Has(c, id) BY DEF SignApproved, Has
<1>5. \A d \in Callers : \A x : Has(d, x)' => Has(d, x) /\ d # c BY <1>2 DEF Has
<1>6. Generated' BY <1>1, <1>2, <1>3, <1>4 DEF Generated, Has
<1>7. ASSUME NEW x \in DOMAIN configs, configs[x].type \in Visual
      PROVE  /\ x \in DOMAIN answers => \A d \in Callers : ~Has(d, x)'
             /\ x \in DOMAIN answers => \A t \in signed' : t.id # x
             /\ \A d, e \in Callers : Has(d, x)' /\ Has(e, x)' => d = e
             /\ \A d \in Callers : Has(d, x)' => \A t \in signed' : t.id # x
             /\ \A t, u \in signed' : t.id = x /\ u.id = x => t = u
  <2>1. CASE x # id
    <3>1. \A t \in signed' : t.id = x => t \in signed BY <2>1, <1>3
    <3> QED BY <1>7, <1>5, <3>1 DEF OneUse
  <2>2. CASE x = id
    <3>1. x \notin DOMAIN answers /\ (\A d \in Callers : Has(d, x) => d = c) /\ \A t \in signed : t.id # x
      BY <1>7, <1>4, <2>2 DEF OneUse
    <3> QED BY <3>1, <1>3, <1>5, <2>2
  <2> QED BY <2>1, <2>2
<1>8. OneUse' BY <1>1, <1>7 DEF OneUse
<1> QED BY <1>6, <1>8

\* Cleanup, a restart and the end of a call only take records and calls away.
LEMMA LoseInv ==
    ASSUME IInv, UNCHANGED signed, DOMAIN answers' \subseteq DOMAIN answers,
           DOMAIN configs' = DOMAIN configs,
           \A id \in DOMAIN configs : configs'[id].type = configs[id].type,
           \A id \in DOMAIN answers' : configs'[id] = configs[id],
           \A c \in Callers : calls'[c] = calls[c] \/ calls'[c].pc = "idle"
    PROVE  Generated' /\ OneUse'
<1> USE DEF IInv
<1>1. \A d \in Callers : \A x : Has(d, x)' => Has(d, x) BY DEF Has
<1>2. Generated' BY DEF Generated
<1>3. OneUse' BY <1>1 DEF OneUse
<1> QED BY <1>2, <1>3
-----------------------------------------------------------------------------
\* The invariant holds in every reachable state.
THEOREM Invariance == Spec => []IInv
<1>1. ASSUME IInv, [Next]_vars PROVE Generated' /\ OneUse'
  <2> USE <1>1
  <2>1. CASE Tick BY <2>1, LoseInv DEF Tick
  <2>2. CASE CleanExpired BY <2>2, LoseInv DEF CleanExpired, Restrict
  <2>3. CASE Restart
    <3>1. DOMAIN answers' = {} /\ DOMAIN configs' = DOMAIN configs BY <2>3 DEF Restart
    <3>2. \A id \in DOMAIN configs : configs'[id].type = configs[id].type
      BY <2>3 DEF Restart, IInv, TypeOK, Configs
    <3> QED BY <2>3, <3>1, <3>2, LoseInv DEF Restart, Idle
  <2>4. ASSUME NEW c \in Callers, Return(c) PROVE Generated' /\ OneUse'
    BY <2>4, LoseInv DEF Return, Idle, IInv, TypeOK
  <2>5. CASE UNCHANGED vars BY <2>5, LoseInv DEF vars
  <2> QED BY <2>1, <2>2, <2>3, <2>4, <2>5, GenerateInv, TakeInv, JudgeInv, SignInv DEF Next
<1>2. IInv /\ [Next]_vars => IInv'
  BY <1>1, TypeStep DEF IInv
<1> QED BY <1>2, InitInv, PTL DEF Spec

\* Type correctness of every reachable state.
THEOREM TypeCorrect == Spec => []TypeOK
<1>1. IInv => TypeOK BY DEF IInv
<1> QED BY <1>1, Invariance, PTL

\* A visual challenge gives at most one token, and only to the call that took it.
THEOREM UsedOnce == Spec => []OneUse
<1>1. IInv => OneUse BY DEF IInv
<1> QED BY <1>1, Invariance, PTL

\* Once its record has left the map a challenge can never be answered again.
THEOREM NeverRevived == Spec => BurntStaysBurnt
<1>1. ASSUME [Next]_vars
      PROVE  [\A id \in DOMAIN configs : id \notin DOMAIN answers => id \notin DOMAIN answers']_vars
  <2>1. SUFFICES ASSUME NEW x \in DOMAIN configs, x \in DOMAIN answers', x \notin DOMAIN answers
                 PROVE  FALSE
    OBVIOUS
  <2>2. ASSUME NEW id \in Ids, NEW type \in Types \cup {"unknown"}, GenerateChallenge(id, type)
        PROVE  FALSE
    <3>1. id # x BY <2>2 DEF GenerateChallenge
    <3>2. DOMAIN answers' = DOMAIN answers \cup {id}
      BY <2>2 DEF GenerateChallenge, GenerateInvisible, GenerateVisual, Put
    <3> QED BY <3>1, <3>2, <2>1
  <2> QED
    BY <1>1, <2>1, <2>2 DEF Next, vars, Tick, CleanExpired, Restart, Take, Judge, SignApproved, Return, Restrict
<1> QED BY <1>1, PTL DEF Spec, BurntStaysBurnt
-----------------------------------------------------------------------------
(* What is approved was solved *)

\* The positions validateSliderAnswer accepts are those that solve the challenge: a
\* missing x counts as 0, and no target is so close to the edge.
LEMMA PositionSent ==
    ASSUME NEW rec \in Records, rec.type \in {"slider", "puzzle"}, NEW answer \in Answers
    PROVE  SliderAccepts(rec, answer) <=> Solved(rec, answer)
<1>1. rec.target \in Int /\ rec.target > 5
  <2>1. rec.target \in SliderTargets \/ rec.target \in PuzzleTargets BY DEF Records
  <2>2. (\A x \in SliderTargets : x \in 60..249) /\ (\A x \in PuzzleTargets : x \in 50..269)
    BY TargetAssumption
  <2> QED BY <2>1, <2>2
<1>2. PICK tolerance \in {4, 5} :
         tolerance = Tolerance(rec) /\ (tolerance = 5 <=> rec.type = "slider")
  BY DEF Tolerance
<1>3. CASE answer.shape = "bare object"
  <2>1. ~(0 - rec.target \in -tolerance..tolerance) BY <1>1, <1>2
  <2>2. ~SliderAccepts(rec, answer) BY <1>2, <1>3, <2>1 DEF SliderAccepts, SubmittedX
  <2> QED BY <1>3, <2>2 DEF Solved
<1>4. CASE answer.shape \in {"number", "object"}
  <2>1. PICK x \in Int : x = answer.x /\ x = SubmittedX(answer)
    BY <1>4, AnswersAssumption DEF AnswerShapes, SubmittedX
  <2>2. x - rec.target \in -tolerance..tolerance <=>
          \/ x \in rec.target - 4..rec.target + 4
          \/ tolerance = 5 /\ x \in {rec.target - 5, rec.target + 5}
    BY <1>1, <1>2
  <2>3. SliderAccepts(rec, answer) <=> x - rec.target \in -tolerance..tolerance
    BY <1>2, <1>4, <2>1 DEF SliderAccepts
  <2>4. Solved(rec, answer) <=>
          \/ x \in rec.target - 4..rec.target + 4
          \/ tolerance = 5 /\ x \in {rec.target - 5, rec.target + 5}
    BY <1>2, <1>4, <2>1 DEF Solved
  <2> QED BY <2>2, <2>3, <2>4
<1>5. CASE answer.shape \notin {"number", "object", "bare object"}
  BY <1>5 DEF SliderAccepts, Solved
<1> QED BY <1>3, <1>4, <1>5

\* The lists validateClickAnswer accepts are those with the right picture alone.
LEMMA RightPicture ==
    ASSUME NEW rec \in Records, rec.type = "click", NEW answer \in Answers
    PROVE  ClickAccepts(rec, answer) <=> Solved(rec, answer)
<1>1. Solved(rec, answer) <=> answer = [shape |-> "list", ids |-> <<rec.target>>]
  BY DEF Solved
<1>2. ASSUME ClickAccepts(rec, answer) PROVE answer = [shape |-> "list", ids |-> <<rec.target>>]
  <2>1. PICK ids \in Seq(ClickIds) : answer = [shape |-> "list", ids |-> ids]
    BY <1>2, AnswersAssumption DEF ClickAccepts, AnswerShapes
  <2>2. Len(ids) = 1 BY <1>2, <2>1 DEF ClickAccepts
  <2>3. DOMAIN ids = 1..Len(ids) OBVIOUS
  <2>4. ids[1] = rec.target BY <1>2, <2>1, <2>2, <2>3 DEF ClickAccepts, Range
  <2>5. ids = <<rec.target>> BY <2>2, <2>4
  <2> QED BY <2>1, <2>5
<1>3. ASSUME answer = [shape |-> "list", ids |-> <<rec.target>>] PROVE ClickAccepts(rec, answer)
  <2>1. Len(answer.ids) = 1 /\ Range(answer.ids) = {rec.target} BY <1>3 DEF Range
  <2> QED BY <1>3, <2>1 DEF ClickAccepts
<1> QED BY <1>1, <1>2, <1>3

LEMMA AcceptsSolved ==
    ASSUME NEW rec \in Records, NEW answer \in Answers
    PROVE  Accepts(rec, answer) <=> Solved(rec, answer)
<1>1. CASE rec.type \in {"slider", "puzzle"} BY <1>1, PositionSent DEF Accepts
<1>2. CASE rec.type = "click" BY <1>2, RightPicture DEF Accepts
<1>3. CASE rec.type = "invisible" BY <1>3 DEF Accepts, Solved
<1> QED BY <1>1, <1>2, <1>3 DEF Records

\* ValidateChallenge approves the answers that are in time and solve the challenge,
\* whatever a client may submit, and refuses all others.
THEOREM ApprovedOnlySolved == Spec => ApprovedIffSolved
<1>1. ASSUME TypeOK, [Next]_vars, NEW c \in Callers,
             calls[c].pc = "taken", calls'[c] \notin {calls[c], Idle}
      PROVE  LET solved == clock <= calls[c].rec.expiresAt /\ Solved(calls[c].rec, calls[c].answer) IN
               /\ calls'[c].pc = "approved" <=> solved
               /\ calls'[c] = [pc |-> "done", valid |-> FALSE] <=> ~solved
  <2>1. Judge(c)
    <3>1. ASSUME NEW d \in Callers,
                 \/ Judge(d) /\ d # c
                 \/ SignApproved(d) \/ Return(d)
                 \/ \E id \in Ids, a \in Answers : Take(d, id, a)
          PROVE  calls'[c] = calls[c]
      <4>1. d # c
        <5>1. SignApproved(d) \/ Return(d) => calls[d].pc # "taken" BY DEF SignApproved, Return
        <5>2. (\E id \in Ids, a \in Answers : Take(d, id, a)) => calls[d].pc # "taken"
          BY DEF Take, Idle
        <5> QED BY <1>1, <3>1, <5>1, <5>2
      <4>2. \E state : calls' = [calls EXCEPT ![d] = state]
        BY <3>1 DEF Judge, SignApproved, Return, Take
      <4> QED BY <4>1, <4>2 DEF TypeOK
    <3>2. ASSUME \/ Tick \/ CleanExpired
                 \/ \E id \in Ids, t \in Types \cup {"unknown"} : GenerateChallenge(id, t)
          PROVE  calls'[c] = calls[c]
      BY <3>2 DEF Tick, CleanExpired, GenerateChallenge
    <3>3. Restart => calls'[c] = Idle BY DEF Restart
    <3> QED BY <1>1, <3>1, <3>2, <3>3 DEF Next, vars
  <2>2. PICK call \in Held : call = calls[c] BY <1>1 DEF TypeOK, CallStates, Idle, Done
  <2>3. Accepts(call.rec, call.answer) <=> Solved(call.rec, call.answer)
    BY AcceptsSolved DEF Held
  <2>4. \/ /\ clock <= call.rec.expiresAt /\ Accepts(call.rec, call.answer)
           /\ calls'[c] = [call EXCEPT !.pc = "approved"]
        \/ /\ ~(clock <= call.rec.expiresAt /\ Accepts(call.rec, call.answer))
           /\ calls'[c] = [pc |-> "done", valid |-> FALSE]
    BY <1>1, <2>1, <2>2 DEF Judge, TypeOK
  <2>5. [call EXCEPT !.pc = "approved"].pc = "approved" BY DEF Held
  <2>6. [pc |-> "done", valid |-> FALSE].pc = "done" OBVIOUS
  <2> QED BY <2>2, <2>3, <2>4, <2>5, <2>6
<1>2. TypeOK /\ [Next]_vars =>
        [\A c \in Callers : calls[c].pc = "taken" /\ calls'[c] \notin {calls[c], Idle} =>
           LET solved == clock <= calls[c].rec.expiresAt /\ Solved(calls[c].rec, calls[c].answer) IN
             /\ calls'[c].pc = "approved" <=> solved
             /\ calls'[c] = [pc |-> "done", valid |-> FALSE] <=> ~solved]_vars
  BY <1>1
<1> QED BY <1>2, TypeCorrect, PTL DEF Spec, ApprovedIffSolved

\* Cleanup, another answer and a new challenge leave a challenge alone that could
\* still be answered; a record in the map was lost in no earlier restart, so what
\* the last disjunct excuses is this very step being one.
THEOREM LiveStays == Spec => LiveChallengeStays
<1>1. ASSUME IInv, [Next]_vars, NEW id \in DOMAIN answers \ DOMAIN answers'
      PROVE  \/ clock > answers[id].expiresAt
             \/ \E c \in Callers : calls[c] = Idle /\ calls'[c] # Idle /\ calls'[c].id = id
             \/ ~configs[id].lost /\ configs'[id].lost
  <2> USE DEF IInv
  <2>1. CASE CleanExpired
    <3>1. ~(answers[id].expiresAt >= clock) BY <1>1, <2>1 DEF CleanExpired, Restrict
    <3>2. answers[id].expiresAt \in Int /\ clock \in Int
      BY <1>1 DEF TypeOK, Records, Times
    <3> QED BY <3>1, <3>2
  <2>2. CASE Restart
    <3>1. id \in DOMAIN configs /\ ~configs[id].lost /\ configs[id] \in Configs
      BY <1>1 DEF TypeOK, Generated
    <3> QED BY <2>2, <3>1 DEF Restart, Configs
  <2>3. ASSUME NEW x \in Ids, NEW t \in Types \cup {"unknown"}, GenerateChallenge(x, t)
        PROVE  FALSE
    <3>1. DOMAIN answers' = DOMAIN answers \cup {x}
      BY <2>3 DEF GenerateChallenge, GenerateInvisible, GenerateVisual, Put
    <3> QED BY <1>1, <3>1
  <2>4. ASSUME NEW c \in Callers, NEW x \in Ids, NEW a \in Answers, Take(c, x, a)
        PROVE  calls[c] = Idle /\ calls'[c] # Idle /\ calls'[c].id = id
    <3>1. x \in DOMAIN answers /\ DOMAIN answers' = DOMAIN answers \ {x}
      BY <1>1, <2>4 DEF Take, Restrict
    <3>2. x = id BY <1>1, <3>1
    <3>3. calls[c] = Idle /\ calls'[c] = [pc |-> "taken", id |-> x, rec |-> answers[x], answer |-> a]
      BY <1>1, <2>4, <3>1 DEF Take, TypeOK
    <3>4. calls'[c].pc # Idle.pc /\ calls'[c].id = x BY <3>3 DEF Idle
    <3> QED BY <3>2, <3>3, <3>4
  <2>5. answers' # answers BY <1>1
  <2> QED BY <1>1, <2>1, <2>2, <2>3, <2>4, <2>5 DEF Next, vars, Tick, Judge, SignApproved, Return
<1>2. IInv /\ [Next]_vars =>
        [\A id \in DOMAIN answers \ DOMAIN answers' :
           \/ clock > answers[id].expiresAt
           \/ \E c \in Callers : calls[c] = Idle /\ calls'[c] # Idle /\ calls'[c].id = id
           \/ ~configs[id].lost /\ configs'[id].lost]_vars
  BY <1>1
<1> QED BY <1>2, Invariance, PTL DEF Spec, LiveChallengeStays
=============================================================================
