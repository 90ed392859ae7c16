-------------------------- MODULE SiteVerifyProofs --------------------------
(***************************************************************************)
(* Replay prevention, for any number of requests, any ids, any granularity *)
(* of the clock and any retention not shorter than the token's life.       *)
(*                                                                         *)
(* AtMostOnce is not inductive: a token whose mark was cleaned away could  *)
(* be marked again.  What saves it is that a mark is made no earlier than  *)
(* the token was stamped and is kept at least as long as the token lives,  *)
(* so a token that was ever claimed is still marked or already expired     *)
(* (Claimed), and two requests can hold a token only once it is expired    *)
(* (MarkedAlone), too late for a second one to pass the age check.         *)
(***************************************************************************)
EXTENDS SiteVerify, TLAPS

\* No stamp lies in the future.
StampedInPast == \A t \in issued : t.ts <= clock

\* A request past the signature check carries a signed token.
HeldSigned == \A r \in Requests : call[r].pc # "idle" => call[r].token \in issued

\* A token is marked after it was stamped, and never in the future.
MarkedInOrder == \A t \in DOMAIN usedTokens : t.ts <= usedTokens[t] /\ usedTokens[t] <= clock

\* A token that was redeemed, or is held, is still marked unless it is too old.
Claimed == \A t \in Tokens :
    (results[t] > 0 \/ \E r \in Requests : Holds(r, t)) => t \in DOMAIN usedTokens \/ Expired(t)

\* At most one request at a time is past the age check of a token, and then
\* nobody has redeemed it.
FreshAlone == \A r \in Requests : call[r].pc = "fresh" =>
    /\ results[call[r].token] = 0
    /\ \A s \in Requests \ {r} : ~(call[s].pc = "fresh" /\ call[s].token = call[r].token)

\* A request about to read the age of a live token is its only claimant.
MarkedAlone == \A r \in Requests : call[r].pc = "marked" =>
    \/ Expired(call[r].token)
    \/ /\ results[call[r].token] = 0
       /\ \A s \in Requests \ {r} : ~Holds(s, call[r].token)

IInv ==
    /\ TypeOK
    /\ MarksOnlySigned
    /\ StampedInPast
    /\ HeldSigned
    /\ MarkedInOrder
    /\ Claimed
    /\ FreshAlone
    /\ MarkedAlone
    /\ AtMostOnce
    /\ NoTokenLost
-----------------------------------------------------------------------------
\* The stamp of a token signed now is a time, and not in the future.
LEMMA StampBound ==
    ASSUME clock \in Times
    PROVE  Stamp \in Times /\ Stamp <= clock
<1>1. clock % Second \in 0..(Second - 1) BY SecondAssumption, MaxClockAssumption DEF Times
<1>2. clock % Second <= clock BY SecondAssumption, MaxClockAssumption DEF Times
<1> QED BY <1>1, <1>2, SecondAssumption, MaxClockAssumption DEF Times, Stamp

\* Every step keeps the type invariant.
LEMMA TypeStep == TypeOK /\ [Next]_vars => TypeOK'
<1> SUFFICES ASSUME TypeOK, [Next]_vars PROVE TypeOK'
  OBVIOUS
<1> USE DEF TypeOK
<1>1. CASE Tick
  BY <1>1, MaxClockAssumption DEF Tick, Times, Tokens
<1>2. CASE Cleanup
  BY <1>2 DEF Cleanup, Restrict
<1>3. CASE Restart
  BY <1>3, MaxClockAssumption DEF Restart, Times
<1>4. ASSUME NEW id \in Ids, SignToken(id) PROVE TypeOK'
  BY <1>4, StampBound DEF SignToken, Tokens
<1>5. ASSUME NEW r \in Requests, NEW s \in Secrets, NEW t \in Tokens, Submit(r, s, t)
      PROVE  TypeOK'
  BY <1>5 DEF Submit, Busy
<1>6. ASSUME NEW r \in Requests, MarkUsed(r) PROVE TypeOK'
  <2>1. call[r] \in Busy BY <1>6 DEF MarkUsed, Idle
  <2> QED BY <1>6, <2>1 DEF MarkUsed, Busy
<1>7. ASSUME NEW r \in Requests, CheckAge(r) PROVE TypeOK'
  <2>1. call[r] \in Busy BY <1>7 DEF CheckAge, Idle
  <2> QED BY <1>7, <2>1 DEF CheckAge, Busy
<1>8. ASSUME NEW r \in Requests, Succeed(r) PROVE TypeOK'
  <2>1. call[r] \in Busy BY <1>8 DEF Succeed, Idle
  <2> QED BY <1>8, <2>1 DEF Succeed, Busy
<1>9. CASE UNCHANGED vars
  BY <1>9 DEF vars
<1> QED BY <1>1, <1>2, <1>3, <1>4, <1>5, <1>6, <1>7, <1>8, <1>9 DEF Next, Step

\* Type correctness of every reachable state.
THEOREM TypeCorrect == Spec => []TypeOK
<1>1. Init => TypeOK
  BY MaxClockAssumption DEF Init, TypeOK, Times, Idle
<1> QED BY <1>1, TypeStep, PTL DEF Spec

LEMMA InitInv == Init => IInv
<1> SUFFICES ASSUME Init PROVE IInv
  OBVIOUS
<1>1. TypeOK
  BY MaxClockAssumption DEF Init, TypeOK, Times, Idle
<1> QED
  BY <1>1 DEF Init, IInv, MarksOnlySigned, StampedInPast, HeldSigned, MarkedInOrder, Claimed,
     FreshAlone, MarkedAlone, AtMostOnce, NoTokenLost, Holds, Idle

\* Steps of the environment: time, signing, cleanup, restart, a new request.
LEMMA TickInv == ASSUME IInv, Tick PROVE IInv'
<1> USE DEF IInv
<1>0. TypeOK' BY TypeStep DEF Next
<1>1. \A t \in Tokens : t.ts \in Int /\ clock \in Int /\ clock' = clock + 1 /\ (Expired(t) => Expired(t)')
  BY RetentionAssumption DEF Tick, TypeOK, Times, Tokens, Expired
<1>2. StampedInPast' BY <1>1 DEF StampedInPast, Tick, TypeOK
<1>3. MarkedInOrder' BY <1>1 DEF MarkedInOrder, Tick, TypeOK, Times
<1>4. Claimed' BY <1>1 DEF Claimed, Tick, Holds
<1>5. call \in [Requests -> {Idle} \cup Busy] BY DEF TypeOK
<1>6. MarkedAlone' BY <1>1, <1>5 DEF MarkedAlone, Tick, Holds, Busy, Idle
<1>7. NoTokenLost' BY <1>1 DEF NoTokenLost, Tick, Holds, TypeOK
<1> QED
  BY <1>0, <1>2, <1>3, <1>4, <1>6, <1>7
  DEF Tick, MarksOnlySigned, HeldSigned, FreshAlone, AtMostOnce

LEMMA SignInv == ASSUME IInv, NEW id \in Ids, SignToken(id) PROVE IInv'
<1> USE DEF IInv
<1>0. TypeOK' BY TypeStep DEF Next
<1>1. UNCHANGED <<clock, usedTokens, results, call>> /\ issued \subseteq issued'
  BY DEF SignToken
<1>2. StampedInPast' BY <1>1, StampBound DEF StampedInPast, SignToken, TypeOK
<1> QED
  BY <1>0, <1>1, <1>2 DEF MarksOnlySigned, HeldSigned, MarkedInOrder, Claimed, FreshAlone,
     MarkedAlone, AtMostOnce, NoTokenLost, Expired, Holds

\* A mark is dropped only when the token it covers is too old to be redeemed.
LEMMA CleanupInv == ASSUME IInv, Cleanup PROVE IInv'
<1> USE DEF IInv
<1>0. TypeOK' BY TypeStep DEF Next
<1>1. UNCHANGED <<clock, issued, results, call>> BY DEF Cleanup
<1>2. /\ DOMAIN usedTokens' \subseteq DOMAIN usedTokens
      /\ \A t \in DOMAIN usedTokens' : usedTokens'[t] = usedTokens[t]
  BY DEF Cleanup, Restrict
<1>3. ASSUME NEW t \in DOMAIN usedTokens, t \notin DOMAIN usedTokens' PROVE Expired(t)
  <2>1. clock - usedTokens[t] > Retention BY <1>3, RetentionAssumption DEF Cleanup, Restrict, TypeOK, Times
  <2>2. t.ts \in Int /\ usedTokens[t] \in Int /\ clock \in Int BY <1>3 DEF TypeOK, Tokens, Times
  <2>3. t.ts <= usedTokens[t] BY <1>3 DEF MarkedInOrder
  <2> QED BY <2>1, <2>2, <2>3, RetentionAssumption DEF Expired
<1>4. Claimed' BY <1>1, <1>3 DEF Claimed, Expired, Holds
<1>5. MarkedInOrder' BY <1>1, <1>2 DEF MarkedInOrder
<1>6. NoTokenLost' BY <1>1, <1>2 DEF NoTokenLost, Expired, Holds
<1>7. MarksOnlySigned' BY <1>1, <1>2 DEF MarksOnlySigned
<1> QED
  BY <1>0, <1>1, <1>4, <1>5, <1>6, <1>7
  DEF StampedInPast, HeldSigned, FreshAlone, MarkedAlone, AtMostOnce, Expired, Holds

LEMMA RestartInv == ASSUME IInv, Restart PROVE IInv'
<1> USE DEF IInv
<1>0. TypeOK' BY TypeStep DEF Next
<1>1. \A r \in Requests : call'[r].pc = "idle" BY DEF Restart, Idle
<1>2. \A t \in Tokens : results'[t] = 0 BY DEF Restart
<1>3. DOMAIN usedTokens' = {} BY DEF Restart
<1>4. StampedInPast' BY DEF Restart, StampedInPast
<1> QED
  BY <1>0, <1>1, <1>2, <1>3, <1>4 DEF MarksOnlySigned, HeldSigned, MarkedInOrder, Claimed,
     FreshAlone, MarkedAlone, AtMostOnce, NoTokenLost, Holds

LEMMA SubmitInv ==
    ASSUME IInv, NEW r \in Requests, NEW s \in Secrets, NEW t \in Tokens, Submit(r, s, t)
    PROVE  IInv'
<1> USE DEF IInv
<1>0. TypeOK' BY TypeStep DEF Next
<1>1. UNCHANGED <<clock, issued, usedTokens, results>> BY DEF Submit
<1>2. call'[r].pc = "checked" /\ call'[r].token = t /\ t \in issued BY DEF Submit, TypeOK
<1>3. \A q \in Requests : q # r => call'[q] = call[q] BY DEF Submit, TypeOK
<1>4. \A q \in Requests, u \in Tokens : Holds(q, u)' = Holds(q, u)
  BY <1>2, <1>3 DEF Holds, Submit, Idle
<1>5. HeldSigned' BY <1>1, <1>2, <1>3 DEF HeldSigned
<1>6. Claimed' /\ NoTokenLost' BY <1>1, <1>4 DEF Claimed, NoTokenLost, Expired, TypeOK
<1>7. FreshAlone' BY <1>1, <1>2, <1>3 DEF FreshAlone
<1>8. MarkedAlone' BY <1>1, <1>2, <1>3 DEF MarkedAlone, Holds, Expired
<1> QED
  BY <1>0, <1>1, <1>5, <1>6, <1>7, <1>8 DEF MarksOnlySigned, StampedInPast, MarkedInOrder, AtMostOnce

\* Marking: a token not marked yet was never claimed, or is too old.
LEMMA MarkInv == ASSUME IInv, NEW r \in Requests, MarkUsed(r) PROVE IInv'
<1> USE DEF IInv
<1>0. TypeOK' BY TypeStep DEF Next, Step
<1>1. UNCHANGED <<clock, issued, results>> BY DEF MarkUsed
<1>2. call[r] \in Busy /\ ~Holds(r, call[r].token) BY DEF MarkUsed, TypeOK, Idle, Holds
<1> DEFINE t == call[r].token
<1>3. t \in Tokens /\ t \in issued BY <1>2 DEF Busy, HeldSigned
<1>4. \A q \in Requests : q # r => call'[q] = call[q] BY DEF MarkUsed, TypeOK
<1>a. CASE t \in DOMAIN usedTokens
  <2>1. call'[r].pc = "idle" /\ UNCHANGED usedTokens BY <1>a DEF MarkUsed, TypeOK, Idle
  <2>2. \A q \in Requests, u \in Tokens : Holds(q, u)' = Holds(q, u)
    BY <2>1, <1>4 DEF Holds, MarkUsed
  <2>3. HeldSigned' BY <1>1, <2>1, <1>4 DEF HeldSigned
  <2>4. Claimed' /\ NoTokenLost' BY <1>1, <2>1, <2>2 DEF Claimed, NoTokenLost, Expired, TypeOK
  <2>5. FreshAlone' BY <1>1, <2>1, <1>4 DEF FreshAlone
  <2>6. MarkedAlone' BY <1>1, <2>1, <1>4 DEF MarkedAlone, Holds, Expired
  <2> QED
    BY <1>0, <1>1, <2>1, <2>3, <2>4, <2>5, <2>6
    DEF MarksOnlySigned, StampedInPast, MarkedInOrder, AtMostOnce
<1>b. CASE t \notin DOMAIN usedTokens
  <2>1. call'[r].pc = "marked" /\ call'[r].token = t BY <1>b, <1>2 DEF MarkUsed, TypeOK, Busy
  <2>2. /\ DOMAIN usedTokens' = DOMAIN usedTokens \cup {t}
        /\ usedTokens'[t] = clock
        /\ \A u \in DOMAIN usedTokens : usedTokens'[u] = usedTokens[u]
    BY <1>b DEF MarkUsed
  <2>3. \A q \in Requests, u \in Tokens : Holds(q, u)' <=> Holds(q, u) \/ (q = r /\ u = t)
    BY <2>1, <1>4, <1>2 DEF Holds, MarkUsed
  <2>4. Expired(t) \/ (results[t] = 0 /\ \A q \in Requests : ~Holds(q, t))
    BY <1>b, <1>3 DEF Claimed, TypeOK
  <2>5. HeldSigned' BY <1>1, <2>1, <1>3, <1>4 DEF HeldSigned
  <2>6. MarksOnlySigned' BY <1>1, <2>2, <1>3 DEF MarksOnlySigned
  <2>7. MarkedInOrder' BY <1>1, <2>2, <1>3 DEF MarkedInOrder, StampedInPast, TypeOK, Times, Tokens
  <2>8. Claimed' BY <1>1, <2>2, <2>3 DEF Claimed, Expired
  <2>9. NoTokenLost' BY <1>1, <2>2, <2>3, <1>3 DEF NoTokenLost, Expired, TypeOK
  <2>10. FreshAlone' BY <1>1, <2>1, <1>4 DEF FreshAlone
  <2>11. MarkedAlone'
    <3> SUFFICES ASSUME NEW q \in Requests, (call[q].pc = "marked")', ~Expired(call[q].token)'
                 PROVE  /\ results'[call'[q].token] = 0
                        /\ \A s \in Requests \ {q} : ~Holds(s, call[q].token)'
      BY DEF MarkedAlone
    <3>1. CASE q = r
      BY <3>1, <2>1, <2>3, <2>4, <1>1, <1>3 DEF Expired
    <3>2. CASE q # r
      <4>1. call[q] \in Busy /\ call'[q] = call[q] /\ call[q].pc = "marked" /\ Holds(q, call[q].token)
        BY <3>2, <1>4 DEF TypeOK, Idle, Holds
      <4>2. call[q].token # t BY <4>1, <2>4, <1>1 DEF Expired
      <4>3. call[q].token \in Tokens BY <4>1 DEF Busy
      <4> QED BY <4>1, <4>2, <4>3, <2>3, <1>1 DEF MarkedAlone, Expired
    <3> QED BY <3>1, <3>2
  <2> QED
    BY <1>0, <1>1, <2>5, <2>6, <2>7, <2>8, <2>9, <2>10, <2>11 DEF StampedInPast, AtMostOnce
<1> QED BY <1>a, <1>b

\* The age check: a request that finds its token live is its only claimant.
LEMMA CheckInv == ASSUME IInv, NEW r \in Requests, CheckAge(r) PROVE IInv'
<1> USE DEF IInv
<1>0. TypeOK' BY TypeStep DEF Next, Step
<1>1. UNCHANGED <<clock, issued, usedTokens, results>> BY DEF CheckAge
<1>2. call[r] \in Busy /\ Holds(r, call[r].token) BY DEF CheckAge, TypeOK, Idle, Holds
<1> DEFINE t == call[r].token
<1>3. t \in Tokens /\ t \in issued BY <1>2 DEF Busy, HeldSigned, CheckAge
<1>4. \A q \in Requests : q # r => call'[q] = call[q] BY DEF CheckAge, TypeOK
<1>5. \A q \in Requests, u \in Tokens : Holds(q, u)' => Holds(q, u)
  BY <1>2, <1>4 DEF Holds, CheckAge, TypeOK, Busy, Idle
<1>6. Claimed' BY <1>1, <1>5 DEF Claimed, Expired
<1>7. HeldSigned' BY <1>1, <1>2, <1>3, <1>4 DEF HeldSigned, CheckAge, TypeOK, Idle, Busy
<1>a. CASE Expired(t)
  <2>1. call'[r].pc = "idle" BY <1>a DEF CheckAge, TypeOK, Idle
  <2>2. NoTokenLost' BY <1>a, <1>1, <1>4, <2>1 DEF NoTokenLost, Expired, Holds
  <2>3. FreshAlone' BY <1>1, <2>1, <1>4 DEF FreshAlone
  <2>4. MarkedAlone' BY <1>1, <2>1, <1>4 DEF MarkedAlone, Holds, Expired
  <2> QED
    BY <1>0, <1>1, <1>6, <1>7, <2>2, <2>3, <2>4
    DEF MarksOnlySigned, StampedInPast, MarkedInOrder, AtMostOnce
<1>b. CASE ~Expired(t)
  <2>1. call'[r].pc = "fresh" /\ call'[r].token = t BY <1>b, <1>2 DEF CheckAge, TypeOK, Busy
  <2>2. results[t] = 0 /\ \A s \in Requests \ {r} : ~Holds(s, t)
    BY <1>b DEF MarkedAlone, CheckAge
  <2>3. NoTokenLost' BY <1>1, <1>2, <1>4, <2>1 DEF NoTokenLost, Expired, Holds
  <2>4. FreshAlone' BY <1>1, <2>1, <2>2, <1>4 DEF FreshAlone, Holds
  <2>5. MarkedAlone'
    <3>1. ASSUME NEW q \in Requests, (call[q].pc = "marked")', ~Expired(call[q].token)'
          PROVE  /\ results'[call'[q].token] = 0
                 /\ \A s \in Requests \ {q} : ~Holds(s, call[q].token)'
      <4>1. q # r /\ call'[q] = call[q] /\ call[q] \in Busy BY <3>1, <2>1, <1>4 DEF TypeOK, Idle
      <4>2. call[q].token \in Tokens BY <4>1 DEF Busy
      <4> QED BY <3>1, <4>1, <4>2, <1>1, <1>5 DEF MarkedAlone, Expired
    <3> QED BY <3>1 DEF MarkedAlone
  <2> QED
    BY <1>0, <1>1, <1>6, <1>7, <2>3, <2>4, <2>5
    DEF MarksOnlySigned, StampedInPast, MarkedInOrder, AtMostOnce
<1> QED BY <1>a, <1>b

LEMMA SucceedInv == ASSUME IInv, NEW r \in Requests, Succeed(r) PROVE IInv'
<1> USE DEF IInv
<1>0. TypeOK' BY TypeStep DEF Next, Step
<1>1. UNCHANGED <<clock, issued, usedTokens>> BY DEF Succeed
<1>2. call[r] \in Busy /\ Holds(r, call[r].token) BY DEF Succeed, TypeOK, Idle, Holds
<1> DEFINE t == call[r].token
<1>3. t \in Tokens BY <1>2 DEF Busy
<1>4. call'[r].pc = "idle" /\ \A q \in Requests : q # r => call'[q] = call[q]
  BY DEF Succeed, TypeOK, Idle
<1>5. \A q \in Requests, u \in Tokens : Holds(q, u)' => Holds(q, u) /\ q # r
  BY <1>4 DEF Holds
<1>6. results[t] = 0 BY DEF FreshAlone, Succeed
<1>7. results'[t] = 1 /\ \A u \in Tokens : u # t => results'[u] = results[u]
  BY <1>3, <1>6 DEF Succeed, TypeOK
<1>8. HeldSigned' BY <1>1, <1>4 DEF HeldSigned
<1>9. Claimed' BY <1>1, <1>2, <1>5, <1>7 DEF Claimed, Expired
<1>10. NoTokenLost' BY <1>1, <1>3, <1>4, <1>7 DEF NoTokenLost, Expired, Holds, TypeOK
<1>11. FreshAlone'
  <2> SUFFICES ASSUME NEW q \in Requests, (call[q].pc = "fresh")'
               PROVE  /\ results'[call'[q].token] = 0
                      /\ \A s \in Requests \ {q} : ~((call[s].pc = "fresh")' /\ call'[s].token = call'[q].token)
    BY DEF FreshAlone
  <2>1. q # r /\ call'[q] = call[q] /\ call[q] \in Busy BY <1>4 DEF TypeOK, Idle
  <2>2. call[q].token # t /\ call[q].token \in Tokens BY <2>1 DEF FreshAlone, Succeed, Busy
  <2> QED BY <2>1, <2>2, <1>4, <1>7 DEF FreshAlone
<1>12. MarkedAlone'
  <2> SUFFICES ASSUME NEW q \in Requests, (call[q].pc = "marked")', ~Expired(call[q].token)'
               PROVE  /\ results'[call'[q].token] = 0
                      /\ \A s \in Requests \ {q} : ~Holds(s, call[q].token)'
    BY DEF MarkedAlone
  <2>1. q # r /\ call'[q] = call[q] /\ call[q] \in Busy BY <1>4 DEF TypeOK, Idle
  <2>2. call[q].token # t /\ call[q].token \in Tokens
    BY <2>1, <1>1, <1>2 DEF MarkedAlone, Expired, Busy
  <2> QED BY <2>1, <2>2, <1>1, <1>5, <1>7 DEF MarkedAlone, Expired
<1>13. AtMostOnce' BY <1>7 DEF AtMostOnce
<1> QED
  BY <1>0, <1>1, <1>8, <1>9, <1>10, <1>11, <1>12, <1>13
  DEF MarksOnlySigned, StampedInPast, MarkedInOrder
-----------------------------------------------------------------------------
\* The invariant holds in every reachable state.
THEOREM Invariance == Spec => []IInv
<1>1. IInv /\ UNCHANGED vars => IInv'
  BY DEF vars, IInv, TypeOK, MarksOnlySigned, StampedInPast, HeldSigned, MarkedInOrder, Claimed,
     FreshAlone, MarkedAlone, AtMostOnce, NoTokenLost, Expired, Holds
<1>2. IInv /\ [Next]_vars => IInv'
  BY <1>1, TickInv, SignInv, CleanupInv, RestartInv, SubmitInv, MarkInv, CheckInv, SucceedInv
  DEF Next, Step
<1> QED BY <1>2, InitInv, PTL DEF Spec

\* One server process answers success at most once for a token, however
\* requests, time and the cleanup of old marks interleave.
THEOREM ReplayPrevented == Spec => []AtMostOnce
<1>1. IInv => AtMostOnce BY DEF IInv
<1> QED BY <1>1, Invariance, PTL

\* The signature is compared before the mark (SiteVerify, lines 66-78): only signed
\* tokens take room in usedTokens.
THEOREM OnlySignedMarked == Spec => []MarksOnlySigned
<1>1. IInv => MarksOnlySigned
  BY DEF IInv
<1> QED
  BY Invariance, <1>1, PTL

\* A token is never burnt by a mark without being answered, unless it was old.
THEOREM NothingLost == Spec => []NoTokenLost
<1>1. IInv => NoTokenLost BY DEF IInv
<1> QED BY <1>1, Invariance, PTL

\* The service implements the one-time token: the age check is the moment a
\* token is spent, a restart forgets, everything else stutters.
THEOREM Implements == Spec => RedeemsOnce
<1>1. Init => Abstract!Init
  BY DEF Init, Abstract!Init, Spent, Idle
<1>2. IInv /\ [Next]_vars => [Abstract!Next]_(Abstract!vars)
  <2> SUFFICES ASSUME IInv, [Next]_vars
               PROVE  Abstract!Next \/ UNCHANGED Abstract!vars
    OBVIOUS
  <2> USE DEF IInv
  <2>1. CASE Tick
    <3>1. Spent' = Spent BY <2>1 DEF Tick, Spent
    <3> QED BY <2>1, <3>1 DEF Tick, Abstract!Next, Abstract!Tick
  <2>2. CASE Cleanup
    <3>1. Spent' = Spent BY <2>2 DEF Cleanup, Spent
    <3> QED BY <2>2, <3>1 DEF Cleanup, Abstract!vars
  <2>3. CASE Restart
    <3>1. Spent' = {} BY <2>3 DEF Restart, Spent, Idle
    <3> QED BY <2>3, <3>1 DEF Restart, Abstract!Next, Abstract!Forget
  <2>4. ASSUME NEW id \in Ids, SignToken(id) PROVE Abstract!Next
    <3>1. Spent' = Spent BY <2>4 DEF SignToken, Spent
    <3>2. [id |-> id, ts |-> Stamp] \in Tokens /\ Stamp <= clock
      BY StampBound DEF Tokens, TypeOK
    <3> QED BY <2>4, <3>1, <3>2 DEF SignToken, Abstract!Next, Abstract!Issue
  <2>5. ASSUME NEW r \in Requests, NEW s \in Secrets, NEW t \in Tokens, Submit(r, s, t)
        PROVE  UNCHANGED Abstract!vars
    <3>1. \A q \in Requests, u \in Tokens :
             (call[q].pc = "fresh" /\ call[q].token = u)' <=> (call[q].pc = "fresh" /\ call[q].token = u)
      BY <2>5 DEF Submit, TypeOK, Idle
    <3>2. Spent' = Spent BY <2>5, <3>1 DEF Submit, Spent
    <3> QED BY <2>5, <3>2 DEF Submit, Abstract!vars
  <2>6. ASSUME NEW r \in Requests, MarkUsed(r) PROVE UNCHANGED Abstract!vars
    <3>1. \A q \in Requests, u \in Tokens :
             (call[q].pc = "fresh" /\ call[q].token = u)' <=> (call[q].pc = "fresh" /\ call[q].token = u)
      BY <2>6 DEF MarkUsed, TypeOK, Idle, Busy
    <3>2. Spent' = Spent BY <2>6, <3>1 DEF MarkUsed, Spent
    <3> QED BY <2>6, <3>2 DEF MarkUsed, Abstract!vars
  <2>7. ASSUME NEW r \in Requests, CheckAge(r) PROVE Abstract!Next \/ UNCHANGED Abstract!vars
    <3> DEFINE t == call[r].token
    <3>0. call[r] \in Busy BY <2>7 DEF CheckAge, TypeOK, Idle
    <3>1. \A q \in Requests : q # r => call'[q] = call[q] BY <2>7 DEF CheckAge, TypeOK
    <3>2. results' = results /\ UNCHANGED <<clock, issued>> BY <2>7 DEF CheckAge
    <3>a. CASE Expired(t)
      <4>1. call'[r].pc # "fresh" /\ call[r].pc # "fresh"
        BY <2>7, <3>a DEF CheckAge, TypeOK, Idle
      <4>2. Spent' = Spent BY <3>1, <3>2, <4>1 DEF Spent
      <4> QED BY <3>2, <4>2 DEF Abstract!vars
    <3>b. CASE ~Expired(t)
      <4>1. call'[r].pc = "fresh" /\ call'[r].token = t /\ call[r].pc # "fresh"
        BY <2>7, <3>b, <3>0 DEF CheckAge, TypeOK, Busy
      <4>2. t \in Tokens /\ t \in issued BY <2>7, <3>0 DEF Busy, HeldSigned, CheckAge
      <4>3. t \notin Spent
        BY <2>7, <3>b, <4>2 DEF MarkedAlone, CheckAge, Spent, Holds
      <4>4. Spent' = Spent \cup {t} BY <3>1, <3>2, <4>1, <4>2 DEF Spent
      <4>5. clock - t.ts <= TokenTTL
        BY <3>b, <4>2, RetentionAssumption DEF Expired, TypeOK, Tokens, Times
      <4> QED BY <3>2, <4>2, <4>3, <4>4, <4>5 DEF Abstract!Next, Abstract!Redeem
    <3> QED BY <3>a, <3>b
  <2>8. ASSUME NEW r \in Requests, Succeed(r) PROVE UNCHANGED Abstract!vars
    <3> DEFINE t == call[r].token
    <3>0. call[r] \in Busy /\ t \in Tokens BY <2>8 DEF Succeed, TypeOK, Idle, Busy
    <3>1. call'[r].pc = "idle" /\ \A q \in Requests : q # r => call'[q] = call[q]
      BY <2>8 DEF Succeed, TypeOK, Idle
    <3>2. results'[t] > 0 /\ \A u \in Tokens : u # t => results'[u] = results[u]
      BY <2>8, <3>0 DEF Succeed, TypeOK
    <3>3. Spent' = Spent
      BY <2>8, <3>0, <3>1, <3>2 DEF Spent, Succeed
    <3> QED BY <2>8, <3>3 DEF Succeed, Abstract!vars
  <2>9. CASE UNCHANGED vars
    BY <2>9 DEF vars, Abstract!vars, Spent
  <2> QED BY <2>1, <2>2, <2>3, <2>4, <2>5, <2>6, <2>7, <2>8, <2>9 DEF Next, Step
<1> QED BY <1>1, <1>2, Invariance, PTL DEF Spec, RedeemsOnce, Abstract!Spec
=============================================================================
