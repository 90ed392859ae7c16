--------------------------- MODULE ConsoleProofs ----------------------------
(***************************************************************************)
(* The four parts behind the console, each for every number of accounts,   *)
(* events, reporters and subscriptions, and proved of its own              *)
(* specification: webhook delivery (the module's own Spec), accounts       *)
(* (Access), the threat network (Network) and the threat monitor           *)
(* (Monitor).                                                              *)
(*                                                                         *)
(* Webhooks.  RightAudience speaks of an Emit that has started every       *)
(* goroutine; what is inductive speaks of one under way (AudienceSplit)    *)
(* and needs a store that holds every subscription once that was created   *)
(* and not deleted, and no other (StoreSound).  That deliver implements    *)
(* Notification rests on a balance of requests: those that arrived and     *)
(* those on their way are no more than the turns of the loop (Balance),    *)
(* and a 2xx that can be read has been sent by an endpoint that has the    *)
(* event (AnswerHasCopy).                                                  *)
(***************************************************************************)
EXTENDS Console, SequenceTheorems, FiniteSetTheorems, TLAPS

\* The store holds each subscription once, and just those that were created
\* and not deleted.
StoreSound ==
    /\ \A i, j \in DOMAIN subs : subs[i] = subs[j] => i = j
    /\ ToSet(subs) = created \ removed
    /\ removed \subseteq created

\* Before its lookup an event is served to nobody.
NotServed == \A e \in Events : emit[e].pc = "new" =>
    emit[e].todo = {} /\ \A s \in SubIds : delivery[<<s, e>>] = "none"

\* After it, those still to serve and those served are the right ones, and no one
\* is both.
AudienceSplit == \A s \in SubIds, e \in Events :
    /\ s \in emit[e].todo => delivery[<<s, e>>] = "none"
    /\ emit[e].pc = "started" =>
         ((s \in emit[e].todo \/ delivery[<<s, e>>] # "none")
            <=> (s \in known[e].created \ known[e].removed /\ Wants(s, e)))

\* Requests come from turns of the loop, and the last turn is the third.
Balance == \A n \in Notes :
    /\ copies[n] + onTheWay[n] <= tries[n]
    /\ delivery[n] = "ready" => tries[n] < Attempts
    /\ delivery[n] = "dropped" => tries[n] = Attempts

\* A goroutine that was not started has not tried.
Unbegun == \A n \in Notes : delivery[n] = "none" => tries[n] = 0

\* A 2xx is the answer of an endpoint that has the event.
AnswerHasCopy == \A n \in Notes : answered[n] => copies[n] > 0

IInv ==
    /\ TypeOK
    /\ StoreSound
    /\ NotServed
    /\ AudienceSplit
    /\ Balance
    /\ Unbegun
    /\ AnswerHasCopy
-----------------------------------------------------------------------------
\* What is left of a slice when one place is cut out.
LEMMA RemoveAtMember ==
    ASSUME NEW S, NEW q \in Seq(S), NEW i \in 1..Len(q)
    PROVE  /\ RemoveAt(q, i) \in Seq(S)
           /\ Len(RemoveAt(q, i)) = Len(q) - 1
           /\ \A j \in 1..(Len(q) - 1) :
                RemoveAt(q, i)[j] = IF j < i THEN q[j] ELSE q[j + 1]
<1> DEFINE a == SubSeq(q, 1, i - 1)
           b == SubSeq(q, i + 1, Len(q))
<1>1. /\ a \in Seq(S) /\ Len(a) = i - 1
      /\ \A j \in 1..(i - 1) : a[j] = q[j]
  OBVIOUS
<1>2. /\ b \in Seq(S) /\ Len(b) = Len(q) - i
      /\ \A j \in 1..(Len(q) - i) : b[j] = q[i + j]
  OBVIOUS
<1>3. RemoveAt(q, i) = a \o b BY DEF RemoveAt
<1> HIDE DEF a, b
<1>4. /\ a \o b \in Seq(S) /\ Len(a \o b) = Len(a) + Len(b)
      /\ \A j \in 1..(Len(a) + Len(b)) : (a \o b)[j] = IF j <= Len(a) THEN a[j] ELSE b[j - Len(a)]
  BY <1>1, <1>2, ConcatProperties
<1>5. Len(q) \in Nat OBVIOUS
<1>6. Len(a) + Len(b) = Len(q) - 1 BY <1>1, <1>2, <1>5
<1>7. ASSUME NEW j \in 1..(Len(q) - 1)
      PROVE  (a \o b)[j] = IF j < i THEN q[j] ELSE q[j + 1]
  <2>1. CASE j < i BY <1>1, <1>4, <1>5, <1>6, <2>1
  <2>2. CASE j >= i
    <3>1. (a \o b)[j] = b[j - (i - 1)] BY <1>1, <1>4, <1>6, <2>2
    <3>2. b[j - (i - 1)] = q[i + (j - (i - 1))] BY <1>2, <1>5, <2>2
    <3> QED BY <2>2, <3>1, <3>2
  <2>3. i \in Int /\ j \in Int BY <1>5
  <2>4. j < i \/ j >= i BY <2>3
  <2> QED BY <2>1, <2>2, <2>3, <2>4
<1> QED BY <1>3, <1>4, <1>6, <1>7

\* The parts of the state no step but those of deliver can tell from one another.
LEMMA StoreStep ==
    ASSUME IInv, UNCHANGED <<emitVars, sendVars>>, TypeOK', StoreSound'
    PROVE  IInv'
BY DEF IInv, emitVars, sendVars, NotServed, AudienceSplit, Balance, Unbegun, AnswerHasCopy, Wants

LEMMA CreateInv == ASSUME IInv, NEW s \in SubIds, Create(s) PROVE IInv'
<1>1. subs \in Seq(SubIds) BY DEF IInv, TypeOK
<1>2. /\ subs' = Append(subs, s) /\ created' = created \cup {s}
      /\ UNCHANGED <<removed, emitVars, sendVars>>
      /\ s \notin created /\ s \notin removed /\ \A i \in DOMAIN subs : subs[i] # s
  BY DEF Create, ToSet, IInv, StoreSound
<1>3. /\ Len(subs') = Len(subs) + 1
      /\ \A i \in 1..Len(subs') : subs'[i] = IF i <= Len(subs) THEN subs[i] ELSE s
      /\ subs' \in Seq(SubIds)
  BY <1>1, <1>2
<1>4. TypeOK' BY <1>2, <1>3 DEF IInv, TypeOK, emitVars, sendVars
<1>5. StoreSound'
  <2>1. DOMAIN subs = 1..Len(subs) /\ DOMAIN subs' = 1..Len(subs') BY <1>1, <1>3
  <2>2. ASSUME NEW i \in DOMAIN subs', NEW j \in DOMAIN subs', subs'[i] = subs'[j] PROVE i = j
    BY <1>1, <1>2, <1>3, <2>1, <2>2 DEF IInv, StoreSound
  <2>3. ToSet(subs') = ToSet(subs) \cup {s} BY <1>1, <1>3, <2>1 DEF ToSet
  <2> QED BY <1>2, <2>2, <2>3 DEF IInv, StoreSound
<1> QED BY <1>2, <1>4, <1>5, StoreStep

\* A subscription is stored once, so cutting one place out of the slice removes it.
LEMMA DeleteInv == ASSUME IInv, NEW s \in SubIds, Delete(s) PROVE IInv'
<1>1. subs \in Seq(SubIds) /\ DOMAIN subs = 1..Len(subs) BY DEF IInv, TypeOK
<1>2. PICK i \in 1..Len(subs) : subs[i] = s /\ subs' = RemoveAt(subs, i)
  BY <1>1 DEF Delete
<1>3. removed' = removed \cup {s} /\ UNCHANGED <<created, emitVars, sendVars>> BY DEF Delete
<1>4. /\ subs' \in Seq(SubIds) /\ DOMAIN subs' = 1..(Len(subs) - 1)
      /\ \A j \in 1..(Len(subs) - 1) : subs'[j] = IF j < i THEN subs[j] ELSE subs[j + 1]
  <2>1. /\ subs' \in Seq(SubIds) /\ Len(subs') = Len(subs) - 1
        /\ \A j \in 1..(Len(subs) - 1) : subs'[j] = IF j < i THEN subs[j] ELSE subs[j + 1]
    BY <1>1, <1>2, RemoveAtMember
  <2> QED BY <2>1
<1>5. TypeOK' BY <1>3, <1>4 DEF IInv, TypeOK, emitVars, sendVars
<1>6. StoreSound'
  <2>1. \A j \in DOMAIN subs' : \E k \in DOMAIN subs :
          k # i /\ subs'[j] = subs[k] /\ k = IF j < i THEN j ELSE j + 1
    BY <1>1, <1>2, <1>4
  <2>2. ASSUME NEW j \in DOMAIN subs', NEW k \in DOMAIN subs', subs'[j] = subs'[k] PROVE j = k
    <3>1. PICK a \in DOMAIN subs : subs'[j] = subs[a] /\ a = IF j < i THEN j ELSE j + 1 BY <2>1
    <3>2. PICK b \in DOMAIN subs : subs'[k] = subs[b] /\ b = IF k < i THEN k ELSE k + 1 BY <2>1
    <3>3. a = b BY <2>2, <3>1, <3>2 DEF IInv, StoreSound
    <3> QED BY <1>1, <1>4, <3>1, <3>2, <3>3
  <2>3. \A k \in DOMAIN subs : k # i => \E j \in DOMAIN subs' : subs'[j] = subs[k]
    <3> SUFFICES ASSUME NEW k \in DOMAIN subs, k # i
                 PROVE  \E j \in DOMAIN subs' : subs'[j] = subs[k]
      OBVIOUS
    <3>1. CASE k < i
      <4>1. k \in DOMAIN subs' /\ subs'[k] = subs[k] BY <1>1, <1>4, <3>1
      <4> QED BY <4>1
    <3>2. CASE k > i
      <4>1. k - 1 \in DOMAIN subs' /\ subs'[k - 1] = subs[k] BY <1>1, <1>4, <3>2
      <4> QED BY <4>1
    <3> QED BY <1>1, <3>1, <3>2
  <2>4. \A k \in DOMAIN subs : subs[k] = s <=> k = i BY <1>1, <1>2 DEF IInv, StoreSound
  <2>5. ToSet(subs') = ToSet(subs) \ {s} BY <2>1, <2>3, <2>4 DEF ToSet
  <2>6. s \in ToSet(subs) BY <1>1, <1>2 DEF ToSet
  <2> QED BY <1>3, <2>2, <2>5, <2>6 DEF IInv, StoreSound
<1> QED BY <1>3, <1>5, <1>6, StoreStep

LEMMA LookupInv == ASSUME IInv, NEW e \in Events, Lookup(e) PROVE IInv'
<1> USE DEF IInv
<1>1. UNCHANGED <<storeVars, sendVars>> BY DEF Lookup
<1>2. ToSet(subs) = created \ removed /\ created \subseteq SubIds
  BY DEF TypeOK, StoreSound
<1>3. /\ emit' = [emit EXCEPT ![e] = [pc |-> "started", todo |-> {s \in ToSet(subs) : Wants(s, e)}]]
      /\ known' = [known EXCEPT ![e] = [created |-> created, removed |-> removed]]
      /\ emit[e].pc = "new"
  BY DEF Lookup
<1>4. TypeOK' BY <1>1, <1>2, <1>3 DEF TypeOK, storeVars, sendVars
<1>5. NotServed' BY <1>1, <1>3 DEF NotServed, sendVars, TypeOK
<1>6. AudienceSplit'
  <2> SUFFICES ASSUME NEW s \in SubIds, NEW f \in Events
               PROVE  /\ s \in emit'[f].todo => delivery'[<<s, f>>] = "none"
                      /\ emit'[f].pc = "started" =>
                           ((s \in emit'[f].todo \/ delivery'[<<s, f>>] # "none")
                              <=> (s \in known'[f].created \ known'[f].removed /\ Wants(s, f)))
    BY DEF AudienceSplit, Wants
  <2>1. delivery' = delivery BY <1>1 DEF sendVars
  <2>2. CASE f = e
    <3>1. /\ emit'[f].todo = {t \in ToSet(subs) : Wants(t, e)}
          /\ known'[f].created = created /\ known'[f].removed = removed
      BY <1>3, <2>2 DEF TypeOK
    <3>2. delivery[<<s, f>>] = "none" BY <1>3, <2>2 DEF NotServed
    <3> QED BY <1>2, <2>1, <2>2, <3>1, <3>2
  <2>3. CASE f # e
    BY <1>3, <2>1, <2>3 DEF AudienceSplit, TypeOK
  <2> QED BY <2>2, <2>3
<1> QED
  BY <1>1, <1>4, <1>5, <1>6
  DEF StoreSound, Balance, Unbegun, AnswerHasCopy, storeVars, sendVars

LEMMA SpawnInv == ASSUME IInv, NEW s \in SubIds, NEW e \in Events, Spawn(s, e) PROVE IInv'
<1> USE DEF IInv
<1> DEFINE n == <<s, e>>
<1>1. /\ UNCHANGED <<storeVars, known, tries, onTheWay, answered, copies>>
      /\ s \in emit[e].todo
      /\ emit' = [emit EXCEPT ![e].todo = @ \ {s}]
      /\ delivery' = [delivery EXCEPT ![n] = "ready"]
  BY DEF Spawn
<1>2. n \in Notes BY DEF Notes
<1>3. /\ \A f \in Events : /\ emit'[f].pc = emit[f].pc
                           /\ emit'[f].todo = IF f = e THEN emit[e].todo \ {s} ELSE emit[f].todo
      /\ emit' \in [Events -> [pc : {"new", "started"}, todo : SUBSET SubIds]]
  BY <1>1 DEF TypeOK
<1>4. delivery[n] = "none" BY <1>1 DEF AudienceSplit
<1>5. /\ delivery' \in [Notes -> {"none", "ready", "trying", "confirmed", "dropped"}]
      /\ \A m \in Notes : delivery'[m] = IF m = n THEN "ready" ELSE delivery[m]
  BY <1>1, <1>2 DEF TypeOK
<1>6. TypeOK' BY <1>1, <1>3, <1>5 DEF TypeOK, storeVars
<1>7. NotServed'
  <2> SUFFICES ASSUME NEW f \in Events, emit'[f].pc = "new"
               PROVE  emit'[f].todo = {} /\ \A t \in SubIds : delivery'[<<t, f>>] = "none"
    BY DEF NotServed
  <2>1. f # e BY <1>1, <1>3 DEF NotServed
  <2>2. \A t \in SubIds : <<t, f>> \in Notes /\ <<t, f>> # n BY <2>1 DEF Notes
  <2> QED BY <1>3, <1>5, <2>1, <2>2 DEF NotServed
<1>8. AudienceSplit'
  <2> SUFFICES ASSUME NEW t \in SubIds, NEW f \in Events
               PROVE  /\ t \in emit'[f].todo => delivery'[<<t, f>>] = "none"
                      /\ emit'[f].pc = "started" =>
                           ((t \in emit'[f].todo \/ delivery'[<<t, f>>] # "none")
                              <=> (t \in known[f].created \ known[f].removed /\ Wants(t, f)))
    BY <1>1 DEF AudienceSplit, Wants
  <2>1. <<t, f>> \in Notes BY DEF Notes
  <2>2. CASE t = s /\ f = e
    BY <1>1, <1>3, <1>5, <2>1, <2>2 DEF AudienceSplit
  <2>3. CASE ~(t = s /\ f = e)
    <3>1. <<t, f>> # n BY <2>3
    <3>2. delivery'[<<t, f>>] = delivery[<<t, f>>] BY <1>5, <2>1, <3>1
    <3>3. t \in emit'[f].todo <=> t \in emit[f].todo BY <1>3, <2>3
    <3> QED BY <1>3, <3>2, <3>3 DEF AudienceSplit
  <2> QED BY <2>2, <2>3
<1>9. Balance'
  <2>1. tries[n] = 0 BY <1>2, <1>4 DEF Unbegun
  <2> QED BY <1>1, <1>5, <2>1 DEF Balance, Attempts
<1>10. Unbegun' BY <1>1, <1>5 DEF Unbegun
<1> QED
  BY <1>1, <1>6, <1>7, <1>8, <1>9, <1>10 DEF StoreSound, AnswerHasCopy, storeVars

\* The steps of one goroutine change neither the store nor who is served.
LEMMA DeliverStep ==
    ASSUME IInv, UNCHANGED <<storeVars, emitVars>>,
           \A n \in Notes : delivery'[n] = "none" <=> delivery[n] = "none"
    PROVE  StoreSound' /\ NotServed' /\ AudienceSplit'
<1>1. \A s \in SubIds, e \in Events : <<s, e>> \in Notes BY DEF Notes
<1>2. /\ UNCHANGED <<subs, created, removed, emit, known>>
      /\ \A s \in SubIds, e \in Events :
            delivery'[<<s, e>>] = "none" <=> delivery[<<s, e>>] = "none"
  BY <1>1 DEF storeVars, emitVars
<1>3. StoreSound' BY <1>2 DEF IInv, StoreSound
<1>4. NotServed' BY <1>2 DEF IInv, NotServed
<1>5. AudienceSplit' BY <1>2 DEF IInv, AudienceSplit, Wants
<1> QED BY <1>3, <1>4, <1>5

LEMMA PostInv == ASSUME IInv, NEW n \in Notes, Post(n) PROVE IInv'
<1> USE DEF IInv
<1>1. TypeOK /\ Balance OBVIOUS
<1>2. /\ tries[n] \in 0..Attempts /\ tries[n] < Attempts /\ copies[n] + onTheWay[n] <= tries[n]
      /\ copies[n] \in 0..Attempts /\ onTheWay[n] \in 0..Attempts /\ delivery[n] = "ready"
  BY <1>1 DEF TypeOK, Balance, Post
<1>3. UNCHANGED <<storeVars, emitVars, answered, copies>> BY DEF Post
<1>4. /\ delivery' = [delivery EXCEPT ![n] = "trying"]
      /\ tries' = [tries EXCEPT ![n] = tries[n] + 1]
      /\ onTheWay' \in {onTheWay, [onTheWay EXCEPT ![n] = onTheWay[n] + 1]}
  BY DEF Post
<1>5. TypeOK'
  <2>1. tries[n] + 1 \in 0..Attempts /\ onTheWay[n] + 1 \in 0..Attempts
    BY <1>2 DEF Attempts
  <2>2. tries' \in [Notes -> 0..Attempts] BY <1>1, <1>4, <2>1 DEF TypeOK
  <2>3. onTheWay' \in [Notes -> 0..Attempts] BY <1>1, <1>4, <2>1 DEF TypeOK
  <2> QED BY <1>1, <1>3, <1>4, <2>2, <2>3 DEF TypeOK, storeVars, emitVars
<1>6. Balance' BY <1>1, <1>2, <1>3, <1>4 DEF TypeOK, Balance, Attempts
<1>7. Unbegun' BY <1>1, <1>4 DEF TypeOK, Unbegun
<1>8. \A m \in Notes : delivery'[m] = "none" <=> delivery[m] = "none" BY <1>1, <1>2, <1>4 DEF TypeOK
<1> QED BY <1>3, <1>5, <1>6, <1>7, <1>8, DeliverStep DEF AnswerHasCopy

LEMMA ReceiveInv == ASSUME IInv, NEW n \in Notes, Receive(n) PROVE IInv'
<1> USE DEF IInv
<1>1. TypeOK /\ Balance /\ AnswerHasCopy OBVIOUS
<1>2. /\ tries[n] \in 0..Attempts /\ copies[n] + onTheWay[n] <= tries[n] /\ onTheWay[n] > 0
      /\ copies[n] \in 0..Attempts /\ onTheWay[n] \in 0..Attempts
  BY <1>1 DEF TypeOK, Balance, Receive
<1>3. UNCHANGED <<storeVars, emitVars, delivery, tries>> BY DEF Receive
<1>4. /\ onTheWay' = [onTheWay EXCEPT ![n] = onTheWay[n] - 1]
      /\ copies' = [copies EXCEPT ![n] = copies[n] + 1]
      /\ answered' \in {answered, [answered EXCEPT ![n] = TRUE]}
  BY DEF Receive
<1>5. TypeOK'
  <2>1. copies[n] + 1 \in 0..Attempts /\ onTheWay[n] - 1 \in 0..Attempts BY <1>2 DEF Attempts
  <2>2. /\ onTheWay' \in [Notes -> 0..Attempts] /\ copies' \in [Notes -> 0..Attempts]
        /\ answered' \in [Notes -> BOOLEAN]
    BY <1>1, <1>4, <2>1 DEF TypeOK
  <2> QED BY <1>1, <1>3, <2>2 DEF TypeOK, storeVars, emitVars
<1>6. Balance' BY <1>1, <1>2, <1>3, <1>4 DEF TypeOK, Balance, Attempts
<1>7. AnswerHasCopy' BY <1>1, <1>2, <1>4 DEF TypeOK, AnswerHasCopy, Attempts
<1> QED BY <1>3, <1>5, <1>6, <1>7, DeliverStep DEF Unbegun

LEMMA ConfirmInv == ASSUME IInv, NEW n \in Notes, Confirm(n) PROVE IInv'
<1> USE DEF IInv
<1>1. TypeOK OBVIOUS
<1>2. UNCHANGED <<storeVars, emitVars, tries, onTheWay, answered, copies>> BY DEF Confirm
<1>3. delivery' = [delivery EXCEPT ![n] = "confirmed"] /\ delivery[n] = "trying" BY DEF Confirm
<1>4. TypeOK' BY <1>1, <1>2, <1>3 DEF TypeOK, storeVars, emitVars
<1>5. Balance' BY <1>1, <1>2, <1>3 DEF TypeOK, Balance
<1>6. Unbegun' BY <1>1, <1>2, <1>3 DEF TypeOK, Unbegun
<1>7. \A m \in Notes : delivery'[m] = "none" <=> delivery[m] = "none" BY <1>1, <1>3 DEF TypeOK
<1> QED BY <1>2, <1>4, <1>5, <1>6, <1>7, DeliverStep DEF AnswerHasCopy

LEMMA FailInv == ASSUME IInv, NEW n \in Notes, Fail(n) PROVE IInv'
<1> USE DEF IInv
<1>1. TypeOK OBVIOUS
<1>2. UNCHANGED <<storeVars, emitVars, tries, onTheWay, answered, copies>> BY DEF Fail
<1>3. /\ delivery' = [delivery EXCEPT ![n] = IF tries[n] < Attempts THEN "ready" ELSE "dropped"]
      /\ delivery[n] = "trying"
  BY DEF Fail
<1>4. TypeOK' BY <1>1, <1>2, <1>3 DEF TypeOK, storeVars, emitVars
<1>5. Balance' BY <1>1, <1>2, <1>3 DEF TypeOK, Balance, Attempts
<1>6. Unbegun' BY <1>1, <1>2, <1>3 DEF TypeOK, Unbegun
<1>7. \A m \in Notes : delivery'[m] = "none" <=> delivery[m] = "none" BY <1>1, <1>3 DEF TypeOK
<1> QED BY <1>2, <1>4, <1>5, <1>6, <1>7, DeliverStep DEF AnswerHasCopy
-----------------------------------------------------------------------------
LEMMA InitInv == Init => IInv
<1> SUFFICES ASSUME Init PROVE IInv
  OBVIOUS
<1> USE DEF Init, IInv
<1>1. TypeOK BY DEF TypeOK, Attempts
<1>2. \A s \in SubIds, e \in Events : <<s, e>> \in Notes BY DEF Notes
<1>3. NotServed /\ AudienceSplit BY <1>2 DEF NotServed, AudienceSplit
<1>4. Balance BY DEF Balance, Attempts
<1>5. StoreSound
  <2>1. DOMAIN subs = {} OBVIOUS
  <2>2. ToSet(subs) = {} BY <2>1 DEF ToSet
  <2> QED BY <2>1, <2>2 DEF StoreSound
<1> QED BY <1>1, <1>3, <1>4, <1>5 DEF Unbegun, AnswerHasCopy

LEMMA StepInv == IInv /\ [Next]_vars => IInv'
<1> SUFFICES ASSUME IInv, [Next]_vars PROVE IInv'
  OBVIOUS
<1>1. ASSUME NEW s \in SubIds, Create(s) PROVE IInv' BY <1>1, CreateInv
<1>2. ASSUME NEW s \in SubIds, Delete(s) PROVE IInv' BY <1>2, DeleteInv
<1>3. ASSUME NEW e \in Events, Lookup(e) PROVE IInv' BY <1>3, LookupInv
<1>4. ASSUME NEW s \in SubIds, NEW e \in Events, Spawn(s, e) PROVE IInv' BY <1>4, SpawnInv
<1>5. ASSUME NEW n \in Notes, Post(n) PROVE IInv' BY <1>5, PostInv
<1>6. ASSUME NEW n \in Notes, Receive(n) PROVE IInv' BY <1>6, ReceiveInv
<1>7. ASSUME NEW n \in Notes, Confirm(n) PROVE IInv' BY <1>7, ConfirmInv
<1>8. ASSUME NEW n \in Notes, Fail(n) PROVE IInv' BY <1>8, FailInv
<1>9. CASE UNCHANGED vars
  BY <1>9 DEF vars, storeVars, emitVars, sendVars, IInv, TypeOK, StoreSound, NotServed,
     AudienceSplit, Balance, Unbegun, AnswerHasCopy, Wants
<1> QED BY <1>1, <1>2, <1>3, <1>4, <1>5, <1>6, <1>7, <1>8, <1>9 DEF Next

THEOREM Invariant == Spec => []IInv
BY InitInv, StepInv, PTL DEF Spec

\* The variables of the store, of Emit and of the deliveries keep their types; in
\* particular no notification is tried, or received, more than three times.
THEOREM TypeCorrect == Spec => []TypeOK
<1>1. IInv => TypeOK BY DEF IInv
<1> QED BY <1>1, Invariant, PTL

\* An event goes to the subscriptions that were there, and not deleted, when Emit
\* looked them up, and to no other.
THEOREM AudienceHolds == Spec => []RightAudience
<1>1. IInv => RightAudience
  <2> SUFFICES ASSUME IInv, NEW e \in Events, emit[e] = [pc |-> "started", todo |-> {}]
               PROVE  {s \in SubIds : delivery[<<s, e>>] # "none"} =
                        {s \in known[e].created \ known[e].removed : Wants(s, e)}
    BY DEF RightAudience
  <2>1. known[e].created \subseteq SubIds BY DEF IInv, TypeOK
  <2>2. \A s \in SubIds : delivery[<<s, e>>] # "none" <=>
                            s \in known[e].created \ known[e].removed /\ Wants(s, e)
    BY DEF IInv, AudienceSplit
  <2> QED BY <2>1, <2>2
<1> QED BY <1>1, Invariant, PTL
-----------------------------------------------------------------------------
\* The initial states of the deliveries are those of Notification.
LEMMA InitMaps == Init => Promise!Init
<1> SUFFICES ASSUME Init PROVE Promise!Init
  OBVIOUS
<1>1. Notes = SubIds \X Events BY DEF Notes
<1> QED BY DEF Init, Promise!Init, Status

\* The status Notification sees, after a step that changes one delivery.
LEMMA StatusStep ==
    ASSUME NEW n \in Notes, NEW pc, delivery \in [Notes -> {"none", "ready", "trying", "confirmed", "dropped"}],
           delivery' = [delivery EXCEPT ![n] = pc]
    PROVE  [m \in Notes |-> Status(delivery[m])]' =
             [[m \in Notes |-> Status(delivery[m])] EXCEPT ![n] = Status(pc)]
OBVIOUS

\* Every step of a reachable state is a step of Notification, or leaves what it sees
\* as it was.
LEMMA StepMaps == IInv /\ IInv' /\ [Next]_vars => [Promise!Next]_(Promise!vars)
<1> SUFFICES ASSUME IInv, IInv', [Next]_vars PROVE [Promise!Next]_(Promise!vars)
  OBVIOUS
<1> DEFINE st == [m \in Notes |-> Status(delivery[m])]
<1>t. TypeOK BY DEF IInv
<1>1. ASSUME UNCHANGED <<delivery, tries, copies>> PROVE UNCHANGED Promise!vars
  BY <1>1 DEF Promise!vars
<1>2. ASSUME NEW s \in SubIds, NEW e \in Events, Spawn(s, e) PROVE Promise!Next
  <2> DEFINE n == <<s, e>>
  <2>1. n \in Notes BY DEF Notes
  <2>2. delivery[n] = "none" BY <1>2 DEF Spawn, IInv, AudienceSplit
  <2>3. st' = [st EXCEPT ![n] = "owed"] /\ st[n] = "none"
    BY <1>2, <1>t, <2>1, <2>2 DEF Spawn, Status, TypeOK
  <2>4. Promise!Owe(n) BY <1>2, <2>3 DEF Spawn, Promise!Owe
  <2> QED BY <2>1, <2>4 DEF Promise!Next
<1>3. ASSUME NEW n \in Notes, Post(n) PROVE Promise!Next
  <2>1. st' = st /\ st[n] = "owed" BY <1>3, <1>t DEF Post, Status, TypeOK
  <2>2. tries[n] < Attempts BY <1>3 DEF Post, IInv, Balance
  <2>3. Promise!Try(n) BY <1>3, <2>1, <2>2 DEF Post, Promise!Try
  <2> QED BY <2>3 DEF Promise!Next
<1>4. ASSUME NEW n \in Notes, Receive(n) PROVE Promise!Next
  <2>1. /\ copies[n] + onTheWay[n] <= tries[n] /\ onTheWay[n] > 0
        /\ copies[n] \in 0..3 /\ onTheWay[n] \in 0..3 /\ tries[n] \in 0..3
    <3>1. copies[n] + onTheWay[n] <= tries[n] BY DEF IInv, Balance
    <3>2. onTheWay[n] > 0 BY <1>4 DEF Receive
    <3> QED BY <3>1, <3>2, <1>t DEF TypeOK, Attempts
  <2>2. copies[n] < tries[n] BY <2>1
  <2>3. st' = st BY <1>4 DEF Receive
  <2>4. Promise!Receive(n) BY <1>4, <2>2, <2>3 DEF Receive, Promise!Receive
  <2> QED BY <2>4 DEF Promise!Next
<1>5. ASSUME NEW n \in Notes, Confirm(n) PROVE Promise!Next
  <2>1. st' = [st EXCEPT ![n] = "confirmed"] /\ st[n] = "owed"
    BY <1>5, <1>t DEF Confirm, Status, TypeOK
  <2>2. copies[n] > 0 BY <1>5 DEF Confirm, IInv, AnswerHasCopy
  <2>3. Promise!Confirm(n) BY <1>5, <2>1, <2>2 DEF Confirm, Promise!Confirm
  <2> QED BY <2>3 DEF Promise!Next
<1>6. ASSUME NEW n \in Notes, Fail(n) PROVE [Promise!Next]_(Promise!vars)
  <2>1. CASE tries[n] < Attempts
    <3>1. st' = st BY <1>6, <1>t, <2>1 DEF Fail, Status, TypeOK
    <3> QED BY <1>6, <3>1 DEF Fail, Promise!vars
  <2>2. CASE ~(tries[n] < Attempts)
    <3>1. st' = [st EXCEPT ![n] = "abandoned"] /\ st[n] = "owed"
      BY <1>6, <1>t, <2>2 DEF Fail, Status, TypeOK
    <3>2. tries[n] = Attempts BY <1>t, <2>2 DEF TypeOK, Attempts
    <3>3. Promise!Abandon(n) BY <1>6, <3>1, <3>2 DEF Fail, Promise!Abandon
    <3> QED BY <3>3 DEF Promise!Next
  <2> QED BY <2>1, <2>2
<1>7. ASSUME NEW s \in SubIds, Create(s) \/ Delete(s) PROVE UNCHANGED Promise!vars
  BY <1>1, <1>7 DEF Create, Delete, sendVars
<1>8. ASSUME NEW e \in Events, Lookup(e) PROVE UNCHANGED Promise!vars
  BY <1>1, <1>8 DEF Lookup, sendVars
<1>9. CASE UNCHANGED vars BY <1>1, <1>9 DEF vars, sendVars
<1> QED BY <1>2, <1>3, <1>4, <1>5, <1>6, <1>7, <1>8, <1>9 DEF Next

\* deliver implements Notification: at most three requests for an event, none after a
\* 2xx was seen, no giving up before the third, whatever the network loses or delays.
THEOREM Implements == Spec => KeepsPromise
BY InitMaps, StepMaps, Invariant, PTL DEF Spec, KeepsPromise, Promise!Spec
-----------------------------------------------------------------------------
(* Accounts.  LoginOwnTenant needs to know of a login under way that the   *)
(* account it has read was stored by a registration of that address        *)
(* (LoginsRead), and of every account that this is so (AccountsOwned).     *)
(* ReplacedOnlyByOverlap rests on FoundNothing: who comes as far as        *)
(* storing an account had found none, so whoever has stored one meanwhile  *)
(* was not among those it found.                                           *)

\* q is an account of address e with a tenant, and its owner has been told so.
Owns(q, e) ==
    q \in Regs /\ Email[q] = e /\ registering[q] = "created" /\ <<q, q>> \in roles

\* The login's record: nothing, or the account read and what it is compared with.
Reading == [pc : {"idle"}] \cup
           [pc : {"read", "matched"}, email : Access!Emails,
            password : {Password[r] : r \in Regs}, user : Regs]

AccountsOwned == \A e \in Access!Emails : users[e] # Nobody => Owns(users[e], e)

\* An address somebody was given an account for never is without one again.
AccountStays == \A r \in Regs : registering[r] = "created" => Owns(users[Email[r]], Email[r])

FoundNothing == \A r \in Regs :
    registering[r] \in {"tenant", "app", "account", "created"} => found[r] = {}

\* A role is that of a registration that has ended, in its own tenant.
OwnRoles == \A x \in roles : x[1] = x[2] /\ x[1] \in Regs /\ registering[x[1]] = "created"

LoginsRead == \A l \in Logins :
    /\ login[l].pc \in {"read", "matched"} => Owns(login[l].user, login[l].email)
    /\ login[l].pc = "matched" => login[l].password = Password[login[l].user]

AccountsInv ==
    /\ Access!TypeOK
    /\ login \in [Logins -> Reading]
    /\ KeysResolve
    /\ AccountsOwned
    /\ AccountStays
    /\ FoundNothing
    /\ OwnRoles
    /\ LoginsRead
    /\ LoginOwnTenant

LEMMA AccountsStart == Access!Init => AccountsInv
<1> SUFFICES ASSUME Access!Init PROVE AccountsInv OBVIOUS
<1> USE DEF Access!Init
<1>1. Access!TypeOK BY DEF Access!TypeOK, Access!Tenants
<1>2. login \in [Logins -> Reading] BY DEF Reading
<1>3. KeysResolve BY DEF KeysResolve, Access!KeysResolve
<1>4. AccountsOwned /\ AccountStays /\ FoundNothing /\ OwnRoles
  BY DEF AccountsOwned, AccountStays, FoundNothing, OwnRoles
<1>5. LoginsRead /\ LoginOwnTenant BY DEF LoginsRead, LoginOwnTenant, Access!LoginOwnTenant
<1> QED BY <1>1, <1>2, <1>3, <1>4, <1>5 DEF AccountsInv

\* What no step undoes: an account that was told to its owner stays told.
LEMMA OwnersStay ==
    ASSUME AccountsInv, roles \subseteq roles',
           \A r \in Regs : registering[r] = "created" => registering'[r] = "created"
    PROVE  /\ \A q, e : Owns(q, e) => Owns(q, e)'
           /\ roles' = roles => OwnRoles'
           /\ (login' = login => LoginsRead') /\ (answers' = answers => LoginOwnTenant')
           /\ users' = users => AccountsOwned'
<1>1. \A q, e : Owns(q, e) => Owns(q, e)' BY DEF Owns
<1>2. roles' = roles => OwnRoles' BY DEF AccountsInv, OwnRoles
<1>3. login' = login => LoginsRead' BY <1>1 DEF AccountsInv, LoginsRead
<1>4. answers' = answers => LoginOwnTenant'
  BY DEF AccountsInv, LoginOwnTenant, Access!LoginOwnTenant
<1>5. users' = users => AccountsOwned' BY <1>1 DEF AccountsInv, AccountsOwned
<1> QED BY <1>1, <1>2, <1>3, <1>4, <1>5

\* The store's apps and key indexes change together.
LEMMA CreateKeeps ==
    ASSUME NEW a, NEW t, KeysResolve, Access!CreateApp(a, t) PROVE KeysResolve'
BY DEF KeysResolve, Access!KeysResolve, Access!CreateApp

LEMMA DeleteKeeps == ASSUME NEW a, KeysResolve, Access!DeleteApp(a) PROVE KeysResolve'
BY DEF KeysResolve, Access!KeysResolve, Access!DeleteApp, Access!Restrict

LEMMA LookUpKeeps == ASSUME AccountsInv, NEW r \in Regs, Access!LookUp(r) PROVE AccountsInv'
<1> USE DEF Access!LookUp, Access!storeVars, Access!handlerVars
<1>0. Access!TypeOK BY DEF AccountsInv
<1>1. registering[r] = "lookup" /\ Email[r] \in Access!Emails
      /\ users[Email[r]] \in Regs \cup {Nobody}
  BY <1>0 DEF Access!TypeOK, Access!Emails
<1>2. \A q \in Regs : q # r => registering'[q] = registering[q] /\ found'[q] = found[q]
  BY <1>0 DEF Access!TypeOK
<1>3. /\ registering'[r] = (IF users[Email[r]] # Nobody THEN "refused" ELSE "tenant")
      /\ found'[r] = {users[Email[r]]} \ {Nobody}
  BY <1>0 DEF Access!TypeOK, Access!Conflict
<1>4. Access!TypeOK'
  <2>1. /\ registering' \in [Regs -> {"lookup", "refused", "tenant", "app", "account", "created"}]
        /\ found' \in [Regs -> SUBSET Regs]
    BY <1>0, <1>1 DEF Access!TypeOK
  <2> QED BY <1>0, <2>1 DEF Access!TypeOK
<1>5. \A q \in Regs : registering[q] = "created" => registering'[q] = "created" BY <1>1, <1>2
<1>6. AccountStays'
  BY <1>2, <1>3 DEF AccountsInv, AccountStays, Owns
<1>7. FoundNothing' BY <1>2, <1>3 DEF AccountsInv, FoundNothing
<1> QED BY <1>4, <1>5, <1>6, <1>7, OwnersStay
       DEF AccountsInv, KeysResolve, Access!KeysResolve, Reading

LEMMA TenantKeeps ==
    ASSUME AccountsInv, NEW r \in Regs, Access!RegisterTenant(r) PROVE AccountsInv'
<1> USE DEF Access!RegisterTenant, Access!handlerVars
<1>0. Access!TypeOK BY DEF AccountsInv
<1>1. /\ registering[r] = "tenant" /\ registering'[r] = "app"
      /\ \A q \in Regs : q # r => registering'[q] = registering[q]
  BY <1>0 DEF Access!TypeOK
<1>2. Access!TypeOK' BY <1>0 DEF Access!TypeOK, Access!Tenants
<1>3. \A q \in Regs : registering[q] = "created" => registering'[q] = "created" BY <1>1
<1>4. AccountStays' /\ FoundNothing'
  BY <1>1 DEF AccountsInv, AccountStays, FoundNothing, Owns
<1> QED BY <1>2, <1>3, <1>4, OwnersStay
       DEF AccountsInv, KeysResolve, Access!KeysResolve, Reading

LEMMA AppKeeps ==
    ASSUME AccountsInv, NEW r \in Regs, Access!RegisterApp(r) PROVE AccountsInv'
<1> USE DEF Access!RegisterApp, Access!handlerVars
<1>0. Access!TypeOK BY DEF AccountsInv
<1>1. /\ registering[r] = "app" /\ registering'[r] = "account"
      /\ \A q \in Regs : q # r => registering'[q] = registering[q]
  BY <1>0 DEF Access!TypeOK
<1>2. Access!TypeOK' BY <1>0 DEF Access!TypeOK, Access!Tenants, Access!CreateApp
<1>3. \A q \in Regs : registering[q] = "created" => registering'[q] = "created" BY <1>1
<1>4. AccountStays' /\ FoundNothing'
  BY <1>1 DEF AccountsInv, AccountStays, FoundNothing, Owns
<1>5. KeysResolve' BY CreateKeeps DEF AccountsInv
<1> QED BY <1>2, <1>3, <1>4, <1>5, OwnersStay DEF AccountsInv, Reading

\* Whoever stores an account owns its address from then on.
LEMMA AccountKeeps ==
    ASSUME AccountsInv, NEW r \in Regs, Access!RegisterAccount(r) PROVE AccountsInv'
<1> USE DEF Access!RegisterAccount, Access!storeVars
<1>0. Access!TypeOK BY DEF AccountsInv
<1>1. /\ registering[r] = "account" /\ registering'[r] = "created"
      /\ \A q \in Regs : q # r => registering'[q] = registering[q]
  BY <1>0 DEF Access!TypeOK
<1>2. /\ Email[r] \in Access!Emails /\ users'[Email[r]] = r
      /\ \A e \in Access!Emails : e # Email[r] => users'[e] = users[e]
  BY <1>0 DEF Access!TypeOK, Access!Emails
<1>3. Access!TypeOK'
  <2>1. users' \in [Access!Emails -> Regs \cup {Nobody}] BY <1>0, <1>2 DEF Access!TypeOK
  <2> QED BY <1>0, <2>1 DEF Access!TypeOK
<1>4. \A q \in Regs : registering[q] = "created" => registering'[q] = "created" BY <1>1
<1>5. \A q, e : Owns(q, e) => Owns(q, e)' BY <1>4, OwnersStay
<1>6. Owns(r, Email[r])' BY <1>1 DEF Owns
<1>7. AccountsOwned' BY <1>2, <1>5, <1>6 DEF AccountsInv, AccountsOwned
<1>8. AccountStays'
  <2> SUFFICES ASSUME NEW q \in Regs, registering'[q] = "created"
               PROVE  Owns(users[Email[q]], Email[q])'
    BY DEF AccountStays
  <2>1. Email[q] \in Access!Emails BY DEF Access!Emails
  <2>2. CASE Email[q] = Email[r] BY <1>2, <1>6, <2>2
  <2>3. CASE Email[q] # Email[r]
    <3>1. q # r BY <2>3
    <3>2. Owns(users[Email[q]], Email[q]) BY <1>1, <3>1 DEF AccountsInv, AccountStays
    <3> QED BY <1>2, <1>5, <2>1, <2>3, <3>2
  <2> QED BY <2>2, <2>3
<1>9. FoundNothing' BY <1>1 DEF AccountsInv, FoundNothing
<1>10. OwnRoles' BY <1>1, <1>4 DEF AccountsInv, OwnRoles
<1> QED BY <1>3, <1>4, <1>7, <1>8, <1>9, <1>10, OwnersStay
       DEF AccountsInv, KeysResolve, Access!KeysResolve, Reading

\* The login remembers the account it has read, with the address it belongs to.
LEMMA LoginReadKeeps ==
    ASSUME AccountsInv, NEW l \in Logins, NEW e \in Access!Emails, NEW r \in Regs,
           Access!LoginRead(l, e, Password[r])
    PROVE  AccountsInv'
<1> USE DEF Access!LoginRead, Access!storeVars, Access!handlerVars
<1>0. Access!TypeOK /\ login \in [Logins -> Reading] BY DEF AccountsInv
<1>1. Access!TypeOK' BY <1>0 DEF Access!TypeOK
<1>2. Owns(users[e], e) BY DEF AccountsInv, AccountsOwned
<1> DEFINE new == [pc |-> "read", email |-> e, password |-> Password[r], user |-> users[e]]
<1>3. login' = [login EXCEPT ![l] = new] OBVIOUS
<1>4. new \in Reading /\ new.pc = "read" /\ new.user = users[e] /\ new.email = e
  BY <1>2 DEF Reading, Owns
<1> HIDE DEF new
<1>5. login' \in [Logins -> Reading] BY <1>0, <1>3, <1>4
<1>6. \A q, x : Owns(q, x) => Owns(q, x)' BY OwnersStay
<1>7. LoginsRead'
  <2>1. Owns(login[l].user, login[l].email)' /\ login'[l].pc = "read"
    BY <1>0, <1>2, <1>3, <1>4, <1>6
  <2>2. \A k \in Logins : k # l => login'[k] = login[k] BY <1>0, <1>3
  <2>3. ASSUME NEW k \in Logins, k # l
        PROVE  /\ login'[k].pc \in {"read", "matched"} => Owns(login[k].user, login[k].email)'
               /\ login'[k].pc = "matched" => login'[k].password = Password[login'[k].user]
    BY <1>6, <2>2, <2>3 DEF AccountsInv, LoginsRead
  <2> QED BY <2>1, <2>3 DEF LoginsRead
<1>8. AccountStays' /\ FoundNothing'
  BY <1>6 DEF AccountsInv, AccountStays, FoundNothing
<1> QED BY <1>1, <1>5, <1>7, <1>8, OwnersStay DEF AccountsInv, KeysResolve, Access!KeysResolve

\* A login goes on with the account whose password was given.
LEMMA LoginCompareKeeps ==
    ASSUME AccountsInv, NEW l \in Logins, Access!LoginCompare(l) PROVE AccountsInv'
<1> USE DEF Access!LoginCompare, Access!storeVars, Access!handlerVars
<1>0. Access!TypeOK /\ login \in [Logins -> Reading] BY DEF AccountsInv
<1>1. Access!TypeOK' BY <1>0 DEF Access!TypeOK
<1>2. /\ login[l].pc = "read" /\ login[l].email \in Access!Emails /\ login[l].user \in Regs
      /\ login[l].password \in {Password[r] : r \in Regs}
      /\ login[l] \in [pc : {"read", "matched"}, email : Access!Emails,
                       password : {Password[r] : r \in Regs}, user : Regs]
  BY <1>0 DEF Reading
<1>3. /\ login' \in [Logins -> Reading]
      /\ \A k \in Logins : k # l => login'[k] = login[k]
  <2>1. [pc |-> "idle"] \in Reading BY DEF Reading
  <2>2. [login[l] EXCEPT !.pc = "matched"] \in Reading BY <1>2 DEF Reading
  <2> QED BY <1>0, <2>1, <2>2
<1>4. CASE login[l].password = Password[login[l].user]
  <2>1. login'[l] = [login[l] EXCEPT !.pc = "matched"] BY <1>0, <1>4
  <2>2. /\ login'[l].email = login[l].email /\ login'[l].user = login[l].user
        /\ login'[l].password = login[l].password
    BY <1>2, <2>1
  <2>3. LoginsRead'
    BY <1>2, <1>3, <1>4, <2>2 DEF AccountsInv, LoginsRead, Owns
  <2> QED BY <1>1, <1>3, <2>3, OwnersStay
         DEF AccountsInv, KeysResolve, Access!KeysResolve, AccountStays, FoundNothing, Owns
<1>5. CASE login[l].password # Password[login[l].user]
  <2>1. login'[l].pc = "idle" BY <1>0, <1>5
  <2>2. LoginsRead' BY <1>3, <2>1 DEF AccountsInv, LoginsRead, Owns
  <2> QED BY <1>1, <1>3, <2>2, OwnersStay
         DEF AccountsInv, KeysResolve, Access!KeysResolve, AccountStays, FoundNothing, Owns
<1> QED BY <1>4, <1>5

\* A role is found, and it is that of the account read, even if another owns the address
\* by now.
LEMMA LoginAnswerKeeps ==
    ASSUME AccountsInv, NEW l \in Logins, Access!LoginAnswer(l) PROVE AccountsInv'
<1> USE DEF Access!LoginAnswer, Access!storeVars, Access!handlerVars
<1>0. Access!TypeOK /\ login \in [Logins -> Reading] BY DEF AccountsInv
<1>1. Access!TypeOK' BY <1>0 DEF Access!TypeOK
<1>2. PICK t \in Access!TenantsOf(login[l].user) :
        answers' = answers \cup {[email |-> login[l].email, password |-> login[l].password,
                                  user |-> login[l].user, tenant |-> t]}
  BY DEF Access!UserOf
<1>3. /\ Owns(login[l].user, login[l].email)
      /\ login[l].password = Password[login[l].user]
  BY DEF AccountsInv, LoginsRead
<1>3a. t = login[l].user
  <2>1. <<login[l].user, login[l].user>> \in roles /\ login[l].user \in Regs
    BY <1>3 DEF Owns
  <2>2. t \in Regs /\ <<login[l].user, t>> \in roles BY <2>1 DEF Access!TenantsOf
  <2> QED BY <2>2 DEF AccountsInv, OwnRoles
<1>4. LoginOwnTenant'
  <2> SUFFICES ASSUME NEW x \in answers'
               PROVE  \E r \in Regs : /\ Email[r] = x.email /\ Password[r] = x.password
                                      /\ x.user = r /\ x.tenant = r /\ registering[r] = "created"
    BY DEF LoginOwnTenant, Access!LoginOwnTenant
  <2>1. CASE x \in answers BY <2>1 DEF AccountsInv, LoginOwnTenant, Access!LoginOwnTenant
  <2>2. CASE x = [email |-> login[l].email, password |-> login[l].password,
                  user |-> login[l].user, tenant |-> t]
    BY <1>3, <1>3a, <2>2 DEF Owns
  <2> QED BY <1>2, <2>1, <2>2
<1>5. login' \in [Logins -> Reading] /\ LoginsRead'
  <2>1. [pc |-> "idle"] \in Reading BY DEF Reading
  <2>2. login' \in [Logins -> Reading] /\ \A k \in Logins : k # l => login'[k] = login[k]
    BY <1>0, <2>1
  <2>3. login'[l].pc = "idle" BY <1>0
  <2> QED BY <2>2, <2>3 DEF AccountsInv, LoginsRead, Owns
<1> QED BY <1>1, <1>4, <1>5, OwnersStay
       DEF AccountsInv, KeysResolve, Access!KeysResolve, AccountStays, FoundNothing, Owns

\* The console's endpoints touch apps and keys only.
LEMMA EndpointKeeps ==
    ASSUME AccountsInv,
           \/ \E a \in NewApps, t \in Access!Tenants : Access!ConsoleCreate(a, t)
           \/ \E a \in DOMAIN apps : Access!ConsoleDelete(a)
           \/ \E k \in NewKeys : Access!GenerateAPIKey(k)
    PROVE  AccountsInv'
<1>1. /\ UNCHANGED <<users, roles, registering, found, login, answers>>
      /\ Access!TypeOK' /\ KeysResolve'
  <2>0. Access!TypeOK /\ KeysResolve BY DEF AccountsInv
  <2>1. CASE \E a \in NewApps, t \in Access!Tenants : Access!ConsoleCreate(a, t)
    <3>1. PICK a \in NewApps, t \in Access!Tenants : Access!ConsoleCreate(a, t) BY <2>1
    <3>2. KeysResolve' BY <2>0, <3>1, CreateKeeps DEF Access!ConsoleCreate
    <3>3. UNCHANGED <<apiKeys, Access!handlerVars, registering, found, login, answers>>
      BY <3>1 DEF Access!ConsoleCreate, Access!CreateApp
    <3>4. DOMAIN apps' = DOMAIN apps \cup {a}
          /\ \A x \in DOMAIN apps' : apps'[x] = IF x = a THEN t ELSE apps[x]
      BY <3>1 DEF Access!ConsoleCreate, Access!CreateApp
    <3> QED BY <2>0, <3>2, <3>3, <3>4 DEF Access!TypeOK, Access!handlerVars
  <2>2. CASE \E a \in DOMAIN apps : Access!ConsoleDelete(a)
    <3>1. PICK a \in DOMAIN apps : Access!ConsoleDelete(a) BY <2>2
    <3>2. KeysResolve' BY <2>0, <3>1, DeleteKeeps DEF Access!ConsoleDelete
    <3>3. UNCHANGED <<apiKeys, Access!handlerVars, registering, found, login, answers>>
      BY <3>1 DEF Access!ConsoleDelete, Access!DeleteApp
    <3>4. DOMAIN apps' \subseteq DOMAIN apps /\ \A x \in DOMAIN apps' : apps'[x] = apps[x]
      BY <3>1 DEF Access!ConsoleDelete, Access!DeleteApp, Access!Restrict
    <3> QED BY <2>0, <3>2, <3>3, <3>4 DEF Access!TypeOK, Access!handlerVars
  <2>3. CASE \E k \in NewKeys : Access!GenerateAPIKey(k)
    BY <2>0, <2>3 DEF Access!GenerateAPIKey, Access!storeVars, Access!TypeOK, KeysResolve,
       Access!KeysResolve
  <2> QED BY <2>1, <2>2, <2>3
<1>2. login' \in [Logins -> Reading] BY <1>1 DEF AccountsInv
<1> QED BY <1>1, <1>2, OwnersStay DEF AccountsInv, AccountStays, FoundNothing, Owns

\* AccountsInv is inductive.
THEOREM AccountsInvariant == Access!Spec => []AccountsInv
<1>1. AccountsInv /\ [Access!Next]_(Access!vars) => AccountsInv'
  <2> SUFFICES ASSUME AccountsInv, [Access!Next]_(Access!vars) PROVE AccountsInv' OBVIOUS
  <2>1. CASE \E r \in Regs : Access!LookUp(r) \/ Access!RegisterTenant(r)
                             \/ Access!RegisterApp(r) \/ Access!RegisterAccount(r)
    BY <2>1, LookUpKeeps, TenantKeeps, AppKeeps, AccountKeeps
  <2>2. CASE \E l \in Logins :
                \/ \E e \in Access!Emails, r \in Regs : Access!LoginRead(l, e, Password[r])
                \/ Access!LoginCompare(l) \/ Access!LoginAnswer(l)
    BY <2>2, LoginReadKeeps, LoginCompareKeeps, LoginAnswerKeeps
  <2>3. CASE \/ \E a \in NewApps, t \in Access!Tenants : Access!ConsoleCreate(a, t)
             \/ \E a \in DOMAIN apps : Access!ConsoleDelete(a)
             \/ \E k \in NewKeys : Access!GenerateAPIKey(k)
    BY <2>3, EndpointKeeps
  <2>4. CASE UNCHANGED Access!vars
    <3>1. UNCHANGED <<users, roles, apiKeys, issued, apps, siteKeys, secretKeys, registering,
                      found, login, answers>>
      BY <2>4 DEF Access!vars, Access!storeVars, Access!handlerVars
    <3> QED BY <3>1 DEF AccountsInv, Access!TypeOK, KeysResolve, Access!KeysResolve, AccountsOwned,
               AccountStays, FoundNothing, OwnRoles, LoginsRead, LoginOwnTenant,
               Access!LoginOwnTenant, Owns
  <2> QED BY <2>1, <2>2, <2>3, <2>4 DEF Access!Next
<1> QED BY <1>1, AccountsStart, PTL DEF Access!Spec

\* A registration makes a tenant, an app and an account of the right kinds, whatever
\* overlaps with it.
THEOREM AccountTypes == Access!Spec => []Access!TypeOK
<1>1. AccountsInv => Access!TypeOK BY DEF AccountsInv
<1> QED BY <1>1, AccountsInvariant, PTL

\* Each key an index of the store knows leads to an app that is there.
THEOREM KeysAlwaysResolve == Access!Spec => []KeysResolve
<1>1. AccountsInv => KeysResolve BY DEF AccountsInv
<1> QED BY <1>1, AccountsInvariant, PTL

\* A login never ends in the tenant of whoever took the address over meanwhile.
THEOREM LoginsOwn == Access!Spec => []LoginOwnTenant
<1>1. AccountsInv => LoginOwnTenant BY DEF AccountsInv
<1> QED BY <1>1, AccountsInvariant, PTL

\* Only a registration that looked an address up before its account was stored
\* takes it over.
THEOREM OverlapOnly == Access!Spec => []ReplacedOnlyByOverlap
<1>1. ASSUME AccountsInv PROVE ReplacedOnlyByOverlap
  <2> SUFFICES ASSUME NEW r \in Regs, registering[r] = "created"
               PROVE  \/ users[Email[r]] = r
                      \/ \E q \in Regs \ {r} : /\ users[Email[r]] = q
                                               /\ registering[q] = "created" /\ r \notin found[q]
    BY DEF ReplacedOnlyByOverlap, Access!ReplacedOnlyByOverlap
  <2> DEFINE q == users[Email[r]]
  <2>1. q \in Regs /\ registering[q] = "created"
    BY <1>1 DEF AccountsInv, AccountStays, Owns
  <2>2. found[q] = {} BY <1>1, <2>1 DEF AccountsInv, FoundNothing
  <2> QED BY <2>1, <2>2
<1> QED BY <1>1, AccountsInvariant, PTL
-----------------------------------------------------------------------------
(* Threat network.  SeenWithinLag compares the times of a record with each *)
(* other; inductive is that they agree with the clock: none is later than  *)
(* it, and one that arrives now is at most MaxLag behind it (RequestsFresh,*)
(* Stamped).                                                               *)

Stamps(k) == {r.at : r \in Network!ToSet(records[k].reports)}

\* A report on its way, stamped at most MaxLag ago.
RequestsFresh ==
    \A p \in Reporters : \A r \in request[p] :
        r.at \in Nat /\ r.at <= clock /\ clock <= r.at + MaxLag

\* What a record is made of.
RecordTypes ==
    /\ clock \in Nat
    /\ DOMAIN request = Reporters /\ DOMAIN records = Keys
    /\ \A k \in Keys : \E S : records[k].reports \in Seq(S)

\* A record nobody has reported on is that of an unknown key.
NoneUnlessReported == \A k \in Keys : records[k].reports = <<>> => records[k] = Network!NoRecord

\* The times of a record that has reports, against each other and the clock.
Stamped ==
    \A k \in Keys : records[k].reports # <<>> =>
        /\ {records[k].firstSeen, records[k].lastSeen} \subseteq Stamps(k)
        /\ \E lo, hi \in Stamps(k) : \A t \in Stamps(k) : lo <= t /\ t <= hi
        /\ \A t \in Stamps(k) :
              /\ t \in Nat /\ t <= clock
              /\ records[k].firstSeen <= t + MaxLag
              /\ t <= records[k].lastSeen + MaxLag

NetworkInv == RequestsFresh /\ RecordTypes /\ NoneUnlessReported /\ Stamped

LEMMA NetworkStart == Network!Init => NetworkInv
<1> SUFFICES ASSUME Network!Init PROVE NetworkInv OBVIOUS
<1>1. \A k \in Keys : records[k].reports = <<>> /\ records[k] = Network!NoRecord
  BY DEF Network!Init, Network!NoRecord
<1>2. <<>> \in Seq({}) OBVIOUS
<1>3. RecordTypes BY <1>1, <1>2 DEF Network!Init, RecordTypes
<1>4. RequestsFresh BY DEF Network!Init, RequestsFresh
<1> QED BY <1>1, <1>3, <1>4 DEF NetworkInv, NoneUnlessReported, Stamped

\* Appending adds one element to what a list holds.
LEMMA AppendedSet ==
    ASSUME NEW S, NEW q \in Seq(S), NEW x
    PROVE  /\ Network!ToSet(Append(q, x)) = Network!ToSet(q) \cup {x}
           /\ Append(q, x) \in Seq(S \cup {x}) /\ Append(q, x) # <<>>
<1>1. q \in Seq(S \cup {x}) /\ Len(q) \in Nat
  <2>1. S \subseteq S \cup {x} OBVIOUS
  <2> QED BY <2>1, SeqMonotonic, LenProperties
<1>2. /\ Append(q, x) \in Seq(S \cup {x}) /\ Len(Append(q, x)) = Len(q) + 1
      /\ \A i \in 1..Len(q) : Append(q, x)[i] = q[i]
      /\ Append(q, x)[Len(q) + 1] = x
  BY <1>1, AppendProperties
<1>3. Network!ToSet(Append(q, x)) = Network!ToSet(q) \cup {x}
  <2>1. DOMAIN q = 1..Len(q) /\ DOMAIN Append(q, x) = 1..(Len(q) + 1)
    BY <1>1, <1>2, LenProperties
  <2>2. \A i \in 1..(Len(q) + 1) : i \in 1..Len(q) \/ i = Len(q) + 1 BY <1>1
  <2>3. \A i \in 1..Len(q) : i \in 1..(Len(q) + 1) BY <1>1
  <2>4. Len(q) + 1 \in 1..(Len(q) + 1) BY <1>1
  <2> QED BY <1>2, <2>1, <2>2, <2>3, <2>4 DEF Network!ToSet
<1>4. Append(q, x) # <<>> BY <1>1, <1>2
<1> QED BY <1>2, <1>3, <1>4

LEMMA NetworkTickKeeps == ASSUME NetworkInv, Network!Tick PROVE NetworkInv'
<1> USE LagAssumption DEF Network!Tick
<1>1. clock \in Nat /\ clock' = clock + 1 BY DEF NetworkInv, RecordTypes
<1>2. RequestsFresh'
  <2> SUFFICES ASSUME NEW p \in Reporters, NEW r \in request[p]
               PROVE  r.at \in Nat /\ r.at <= clock' /\ clock' <= r.at + MaxLag
    BY DEF RequestsFresh
  <2>1. r.at \in Nat /\ r.at <= clock /\ clock < r.at + MaxLag
    BY DEF NetworkInv, RequestsFresh
  <2> QED BY <1>1, <2>1
<1>3. RecordTypes' BY <1>1 DEF NetworkInv, RecordTypes
<1>4. NoneUnlessReported' BY DEF NetworkInv, NoneUnlessReported
<1>5. Stamped'
  <2> SUFFICES ASSUME NEW k \in Keys, records[k].reports # <<>>
               PROVE  /\ {records[k].firstSeen, records[k].lastSeen} \subseteq Stamps(k)
                      /\ \E lo, hi \in Stamps(k) : \A t \in Stamps(k) : lo <= t /\ t <= hi
                      /\ \A t \in Stamps(k) :
                            /\ t \in Nat /\ t <= clock'
                            /\ records[k].firstSeen <= t + MaxLag
                            /\ t <= records[k].lastSeen + MaxLag
    BY DEF Stamped, Stamps
  <2>1. \A t \in Stamps(k) : t \in Nat /\ t <= clock BY DEF NetworkInv, Stamped
  <2>2. \A t \in Stamps(k) : t \in Nat /\ t <= clock' BY <1>1, <2>1
  <2> QED BY <2>2 DEF NetworkInv, Stamped
<1> QED BY <1>2, <1>3, <1>4, <1>5 DEF NetworkInv

LEMMA NetworkArriveKeeps ==
    ASSUME NetworkInv, NEW p \in Reporters, NEW ks, NEW s, NEW src, Network!Arrive(p, ks, s, src)
    PROVE  NetworkInv'
<1> USE LagAssumption DEF Network!Arrive
<1>1. clock \in Nat /\ DOMAIN request = Reporters BY DEF NetworkInv, RecordTypes
<1> DEFINE new == [at |-> clock, severity |-> Network!ClampSeverity(s), source |-> src, keys |-> ks]
<1>2. request' = [request EXCEPT ![p] = {new}] /\ new.at = clock OBVIOUS
<1> HIDE DEF new
<1>3. RequestsFresh'
  <2>1. \A q \in Reporters : q # p => request'[q] = request[q] BY <1>1, <1>2
  <2>2. request'[p] = {new} BY <1>1, <1>2
  <2> QED BY <1>1, <1>2, <2>1, <2>2 DEF NetworkInv, RequestsFresh
<1>4. RecordTypes' BY <1>1, <1>2 DEF NetworkInv, RecordTypes
<1> QED BY <1>3, <1>4 DEF NetworkInv, NoneUnlessReported, Stamped, Stamps

\* A report enters at most MaxLag behind the clock, which no earlier stamp is ahead of.
LEMMA ReportKeeps ==
    ASSUME NetworkInv, NEW p \in Reporters, Network!Report(p) PROVE NetworkInv'
<1> USE LagAssumption
<1>1. PICK r \in request[p] :
        /\ records' = [k \in Keys |->
                          IF k \in r.keys THEN Network!Added(records[k], r) ELSE records[k]]
        /\ request' = [request EXCEPT ![p] = {}]
        /\ UNCHANGED clock
  BY DEF Network!Report
<1>2. /\ clock \in Nat /\ DOMAIN request = Reporters
      /\ r.at \in Nat /\ r.at <= clock /\ clock <= r.at + MaxLag
  BY DEF NetworkInv, RecordTypes, RequestsFresh
<1>3. RequestsFresh'
  <2>1. \A q \in Reporters : q # p => request'[q] = request[q] BY <1>1, <1>2
  <2>2. request'[p] = {} BY <1>1, <1>2
  <2> QED BY <1>1, <2>1, <2>2 DEF NetworkInv, RequestsFresh
<1>4. ASSUME NEW k \in Keys, k \notin r.keys
      PROVE  records'[k] = records[k] /\ Stamps(k)' = Stamps(k)
  BY <1>1, <1>4 DEF Stamps
<1>5. ASSUME NEW k \in Keys, k \in r.keys
      PROVE  /\ \E S : records'[k].reports \in Seq(S)
             /\ records'[k].reports # <<>> /\ Stamps(k)' = Stamps(k) \cup {r.at}
             /\ records'[k].lastSeen = r.at
             /\ records'[k].firstSeen = IF records[k] = Network!NoRecord THEN r.at
                                        ELSE records[k].firstSeen
  <2> DEFINE x == [at |-> r.at, severity |-> r.severity]
  <2>1. records'[k] = Network!Added(records[k], r) BY <1>1, <1>5
  <2>2. /\ records'[k].reports = Append(records[k].reports, x)
        /\ records'[k].lastSeen = r.at
        /\ records'[k].firstSeen = IF records[k] = Network!NoRecord THEN r.at
                                   ELSE records[k].firstSeen
    BY <2>1 DEF Network!Added
  <2>3. x.at = r.at OBVIOUS
  <2> HIDE DEF x
  <2>4. PICK S : records[k].reports \in Seq(S) BY DEF NetworkInv, RecordTypes
  <2>5. /\ Network!ToSet(records'[k].reports) = Network!ToSet(records[k].reports) \cup {x}
        /\ records'[k].reports \in Seq(S \cup {x}) /\ records'[k].reports # <<>>
    <3>1. PICK q \in Seq(S) : q = records[k].reports BY <2>4
    <3>2. PICK y : y = x OBVIOUS
    <3>3. /\ Network!ToSet(Append(q, y)) = Network!ToSet(q) \cup {y}
          /\ Append(q, y) \in Seq(S \cup {y}) /\ Append(q, y) # <<>>
      BY AppendedSet
    <3>4. records'[k].reports = Append(q, y) BY <2>2, <3>1, <3>2
    <3> QED BY <3>1, <3>2, <3>3, <3>4
  <2>6. Stamps(k)' = Stamps(k) \cup {r.at} BY <2>3, <2>5 DEF Stamps
  <2> QED BY <2>2, <2>5, <2>6
<1>6. RecordTypes'
  <2>1. \A k \in Keys : \E S : records'[k].reports \in Seq(S)
    BY <1>4, <1>5 DEF NetworkInv, RecordTypes
  <2> QED BY <1>1, <1>2, <2>1 DEF RecordTypes
<1>7. NoneUnlessReported' BY <1>4, <1>5 DEF NetworkInv, NoneUnlessReported
<1>8. ASSUME NEW k \in Keys, records'[k].reports # <<>>
      PROVE  /\ {records'[k].firstSeen, records'[k].lastSeen} \subseteq Stamps(k)'
             /\ \E lo, hi \in Stamps(k)' : \A t \in Stamps(k)' : lo <= t /\ t <= hi
             /\ \A t \in Stamps(k)' :
                   /\ t \in Nat /\ t <= clock
                   /\ records'[k].firstSeen <= t + MaxLag
                   /\ t <= records'[k].lastSeen + MaxLag
  <2>1. CASE k \notin r.keys BY <1>4, <1>8, <2>1 DEF NetworkInv, Stamped
  <2>2. CASE k \in r.keys /\ records[k].reports = <<>>
    <3>1. Stamps(k) = {}
      <4>1. DOMAIN <<>> = {} OBVIOUS
      <4> QED BY <2>2, <4>1 DEF Stamps, Network!ToSet
    <3>2. records'[k].firstSeen = r.at /\ records'[k].lastSeen = r.at /\ Stamps(k)' = {r.at}
      BY <1>5, <2>2, <3>1 DEF NetworkInv, NoneUnlessReported
    <3> QED BY <1>2, <3>2
  <2>3. CASE k \in r.keys /\ records[k].reports # <<>>
    <3>1. /\ {records[k].firstSeen, records[k].lastSeen} \subseteq Stamps(k)
          /\ \A t \in Stamps(k) : /\ t \in Nat /\ t <= clock
                                  /\ records[k].firstSeen <= t + MaxLag
      BY <2>3 DEF NetworkInv, Stamped
    <3>2. PICK lo, hi \in Stamps(k) : \A t \in Stamps(k) : lo <= t /\ t <= hi
      BY <2>3 DEF NetworkInv, Stamped
    <3>3. records'[k].firstSeen = records[k].firstSeen /\ records'[k].lastSeen = r.at
          /\ Stamps(k)' = Stamps(k) \cup {r.at}
      BY <1>5, <2>3 DEF Network!NoRecord
    <3>4. \E l, h \in Stamps(k)' : \A t \in Stamps(k)' : l <= t /\ t <= h
      <4>1. lo \in Nat /\ hi \in Nat BY <3>1, <3>2
      <4>2. PICK l \in Stamps(k)' : l <= lo /\ l <= r.at /\ l \in Nat
        <5>1. CASE lo <= r.at BY <3>2, <3>3, <4>1, <5>1
        <5>2. CASE r.at < lo BY <1>2, <3>3, <4>1, <5>2
        <5> QED BY <1>2, <4>1, <5>1, <5>2
      <4>3. PICK h \in Stamps(k)' : hi <= h /\ r.at <= h /\ h \in Nat
        <5>1. CASE hi <= r.at BY <1>2, <3>3, <4>1, <5>1
        <5>2. CASE r.at < hi BY <1>2, <3>2, <3>3, <4>1, <5>2
        <5> QED BY <1>2, <4>1, <5>1, <5>2
      <4>4. \A t \in Stamps(k)' : l <= t /\ t <= h
        <5> SUFFICES ASSUME NEW t \in Stamps(k)' PROVE l <= t /\ t <= h OBVIOUS
        <5>1. CASE t = r.at BY <4>2, <4>3, <5>1
        <5>2. CASE t \in Stamps(k)
          <6>1. lo <= t /\ t <= hi /\ t \in Nat BY <3>1, <3>2, <5>2
          <6> QED BY <4>1, <4>2, <4>3, <6>1
        <5> QED BY <3>3, <5>1, <5>2
      <4> QED BY <4>4
    <3>5. ASSUME NEW t \in Stamps(k)'
          PROVE  /\ t \in Nat /\ t <= clock
                 /\ records'[k].firstSeen <= t + MaxLag /\ t <= records'[k].lastSeen + MaxLag
      <4>1. t \in Nat /\ t <= clock BY <1>2, <3>1, <3>3
      <4>2. t <= r.at + MaxLag BY <1>2, <4>1
      <4>3. records[k].firstSeen \in Nat /\ records[k].firstSeen <= clock BY <3>1
      <4>4. records[k].firstSeen <= r.at + MaxLag BY <1>2, <4>3
      <4> QED BY <3>1, <3>3, <4>1, <4>2, <4>4
    <3> QED BY <3>1, <3>3, <3>4, <3>5
  <2> QED BY <2>1, <2>2, <2>3
<1>9. Stamped'
  BY <1>1, <1>8 DEF Stamped
<1> QED BY <1>3, <1>6, <1>7, <1>9 DEF NetworkInv

\* NetworkInv is inductive.
THEOREM NetworkInvariant == Network!Spec => []NetworkInv
<1>1. NetworkInv /\ [Network!Next]_(Network!vars) => NetworkInv'
  <2> SUFFICES ASSUME NetworkInv, [Network!Next]_(Network!vars) PROVE NetworkInv' OBVIOUS
  <2>1. CASE Network!Tick BY <2>1, NetworkTickKeeps
  <2>2. CASE \E p \in Reporters, ks \in SUBSET Keys \ {{}}, s \in Severities, src \in Sources :
                Network!Arrive(p, ks, s, src)
    BY <2>2, NetworkArriveKeeps
  <2>3. CASE \E p \in Reporters : Network!Report(p) BY <2>3, ReportKeeps
  <2>4. CASE UNCHANGED Network!vars
    BY <2>4 DEF Network!vars, NetworkInv, RequestsFresh, RecordTypes, NoneUnlessReported,
       Stamped, Stamps
  <2> QED BY <2>1, <2>2, <2>3, <2>4 DEF Network!Next
<1> QED BY <1>1, NetworkStart, PTL DEF Network!Spec

\* However reports wait for the lock, the first and last times of a profile are
\* right to within the wait.
THEOREM SeenInTime == Network!Spec => []SeenWithinLag
<1>1. ASSUME NetworkInv PROVE SeenWithinLag
  <2> SUFFICES ASSUME NEW k \in Keys, records[k].reports # <<>>
               PROVE  /\ {records[k].firstSeen, records[k].lastSeen} \subseteq Stamps(k)
                      /\ records[k].firstSeen <= Network!Min(Stamps(k)) + MaxLag
                      /\ records[k].lastSeen >= Network!Max(Stamps(k)) - MaxLag
    BY DEF SeenWithinLag, Network!SeenWithinLag, Stamps
  <2>1. /\ {records[k].firstSeen, records[k].lastSeen} \subseteq Stamps(k)
        /\ \A t \in Stamps(k) : /\ t \in Nat
                                /\ records[k].firstSeen <= t + MaxLag
                                /\ t <= records[k].lastSeen + MaxLag
    BY <1>1 DEF NetworkInv, Stamped
  <2>2. PICK lo, hi \in Stamps(k) : \A t \in Stamps(k) : lo <= t /\ t <= hi
    BY <1>1 DEF NetworkInv, Stamped
  <2>3. Network!Min(Stamps(k)) \in Stamps(k) BY <2>2 DEF Network!Min
  <2>4. Network!Max(Stamps(k)) \in Stamps(k)
    <3>1. \A t \in Stamps(k) : hi >= t BY <2>1, <2>2
    <3> QED BY <2>2, <3>1 DEF Network!Max
  <2> QED BY <2>1, <2>3, <2>4, LagAssumption
<1> QED BY <1>1, NetworkInvariant, PTL
-----------------------------------------------------------------------------
(* Threat monitor.  DashboardCounts speaks of a Dashboard that has read    *)
(* everything; inductive is an account of the comparisons made so far      *)
(* (Accounted): which of them came out equal, given the status each event  *)
(* had when the slice was copied.  An event nobody wrote since has one     *)
(* equal comparison in the three passes; one that was written has at most  *)
(* two, with the status it had and with "mitigated".                       *)

ThreatIds == Monitor!SeedIds \cup NewEvents

StatusNames == {"active", "mitigated", "resolved"}

\* A slice that has no event twice.
Slice(q) == q \in Seq(ThreatIds) /\ \A i, j \in 1..Len(q) : q[i] = q[j] => i = j

\* A status is torn only while somebody writes it, who had found it otherwise.
StatusSound ==
    /\ status \in [ThreatIds -> StatusNames \cup {"torn"}]
    /\ writing = {} \/ \E e \in ThreatIds : writing = {e} /\ status[e] \in {"torn", "mitigated"}
    /\ \A x \in ThreatIds : status[x] = "torn" => x \in writing

CountsSound ==
    /\ counts \in [StatusNames -> Nat]
    /\ dash \in [pc : {"idle", "reading"}, view : Seq(ThreatIds), read : Nat]
    /\ touched \subseteq ThreatIds
    /\ dash.pc = "reading" => Slice(dash.view) /\ dash.read <= 3 * Len(dash.view)

Sum3(f) == f["active"] + f["mitigated"] + f["resolved"]

\* The i-th comparison is of the status x of its event.
Compares(i, x) == Monitor!Pass(i) = x

\* hits are the comparisons so far that came out equal, orig the statuses as they
\* were when the slice was copied.
Explains(hits, orig) ==
    /\ hits \subseteq 1..dash.read /\ Sum3(counts) = Cardinality(hits)
    /\ \A x \in ThreatIds : /\ status[x] \in {orig[x], "torn", "mitigated"}
                            /\ x \notin touched => status[x] = orig[x]
    /\ \A i \in hits : Compares(i, orig[Monitor!Seen(i)]) \/ Compares(i, "mitigated")
    /\ \A i \in 1..dash.read : Monitor!Seen(i) \notin touched =>
          (i \in hits <=> Compares(i, orig[Monitor!Seen(i)]))

Accounted == dash.pc = "reading" =>
    \E hits \in SUBSET (1..dash.read), orig \in [ThreatIds -> StatusNames] : Explains(hits, orig)

MonitorInv == Slice(events) /\ StatusSound /\ CountsSound /\ Accounted
-----------------------------------------------------------------------------
\* Place b of pass a is comparison a * n + b, counted from 0.
LEMMA DivRow ==
    ASSUME NEW n \in Nat \ {0}, NEW a \in 0..2, NEW b \in 0..(n - 1)
    PROVE  (a * n + b) \div n = a /\ (a * n + b) % n = b
<1>1. CASE a = 0
  <2>1. b \div n = 0 /\ b % n = b OBVIOUS
  <2> QED BY <1>1, <2>1
<1>2. CASE a = 1
  <2>1. (n + b) \div n = 1 /\ (n + b) % n = b OBVIOUS
  <2> QED BY <1>2, <2>1
<1>3. CASE a = 2
  <2>1. (2 * n + b) \div n = 2 /\ (2 * n + b) % n = b OBVIOUS
  <2> QED BY <1>3, <2>1
<1> QED BY <1>1, <1>2, <1>3

LEMMA PlaceBounds ==
    ASSUME NEW n \in Nat \ {0}, NEW a \in 0..2, NEW p \in 1..n
    PROVE  a * n + p \in 1..(3 * n) /\ (a * n + p) - 1 = a * n + (p - 1)
<1>1. CASE a = 0
  <2>1. 0 * n = 0 OBVIOUS
  <2> QED BY <1>1, <2>1
<1>2. CASE a = 1
  <2>1. 1 * n = n OBVIOUS
  <2> QED BY <1>2, <2>1
<1>3. CASE a = 2 BY <1>3
<1> QED BY <1>1, <1>2, <1>3

\* What comparison number (a, p) looks at and for.
LEMMA Comparison ==
    ASSUME dash.view \in Seq(ThreatIds), NEW a \in 0..2, NEW p \in 1..Len(dash.view)
    PROVE  /\ a * Len(dash.view) + p \in 1..(3 * Len(dash.view))
           /\ Monitor!Seen(a * Len(dash.view) + p) = dash.view[p]
           /\ Monitor!Pass(a * Len(dash.view) + p) = <<"active", "mitigated", "resolved">>[a + 1]
<1>1. PICK n \in Nat \ {0} : n = Len(dash.view) /\ p \in 1..n BY LenProperties
<1>2. a * n + p \in 1..(3 * n) /\ (a * n + p) - 1 = a * n + (p - 1) BY <1>1, PlaceBounds
<1>3. PICK b \in 0..(n - 1) : b = p - 1 /\ b + 1 = p BY <1>1
<1>4. (a * n + b) \div n = a /\ (a * n + b) % n = b BY <1>3, DivRow
<1>5. ((a * n + p) - 1) \div n = a /\ ((a * n + p) - 1) % n = b BY <1>2, <1>3, <1>4
<1>6. Monitor!Seen(a * n + p) = dash.view[p] BY <1>1, <1>3, <1>5 DEF Monitor!Seen
<1>7. Monitor!Pass(a * n + p) = <<"active", "mitigated", "resolved">>[a + 1]
  BY <1>1, <1>5 DEF Monitor!Pass, Monitor!Statuses
<1> QED BY <1>1, <1>2, <1>6, <1>7

\* Every comparison has a pass and a place.
LEMMA Placed ==
    ASSUME NEW n \in Nat, NEW i \in 1..(3 * n)
    PROVE  \E a \in 0..2, p \in 1..n : i = a * n + p
<1>1. CASE i <= n
  <2>1. i = 0 * n + i /\ i \in 1..n BY <1>1
  <2> QED BY <2>1
<1>2. CASE n < i /\ i <= 2 * n
  <2>1. i = 1 * n + (i - n) /\ i - n \in 1..n BY <1>2
  <2> QED BY <2>1
<1>3. CASE 2 * n < i
  <2>1. i = 2 * n + (i - 2 * n) /\ i - 2 * n \in 1..n BY <1>3
  <2> QED BY <2>1
<1> QED BY <1>1, <1>2, <1>3

LEMMA ComparisonTyped ==
    ASSUME dash.view \in Seq(ThreatIds), NEW i \in 1..(3 * Len(dash.view))
    PROVE  Monitor!Seen(i) \in ThreatIds /\ Monitor!Pass(i) \in StatusNames
<1>1. Len(dash.view) \in Nat BY LenProperties
<1>2. PICK a \in 0..2, p \in 1..Len(dash.view) : i = a * Len(dash.view) + p BY <1>1, Placed
<1>3. /\ Monitor!Seen(i) = dash.view[p]
      /\ Monitor!Pass(i) = <<"active", "mitigated", "resolved">>[a + 1]
  BY <1>2, Comparison
<1>4. dash.view[p] \in ThreatIds BY ElementOfSeq
<1>5. <<"active", "mitigated", "resolved">>[a + 1] \in StatusNames
  <2>1. a = 0 \/ a = 1 \/ a = 2 OBVIOUS
  <2> QED BY <2>1 DEF StatusNames
<1> QED BY <1>3, <1>4, <1>5

LEMMA ReadsAre == ASSUME dash.view \in Seq(ThreatIds) PROVE Monitor!Reads = 3 * Len(dash.view)
<1>1. Len(Monitor!Statuses) = 3 BY DEF Monitor!Statuses
<1> QED BY <1>1 DEF Monitor!Reads

LEMMA MonitorStart == Monitor!Init => MonitorInv
<1> SUFFICES ASSUME Monitor!Init PROVE MonitorInv OBVIOUS
<1> USE SeedAssumption DEF Monitor!Init
<1>1. /\ Seeds \in Seq(StatusNames) /\ Monitor!SeedIds = 1..Len(Seeds) /\ Len(Seeds) \in Nat
      /\ \A i \in 1..Len(Seeds) : Seeds[i] \in StatusNames
  BY LenProperties, ElementOfSeq DEF StatusNames, Monitor!SeedIds
<1>2. Slice(events)
  <2>1. events = [i \in 1..Len(Seeds) |-> i] BY <1>1
  <2>2. events \in Seq(ThreatIds) /\ Len(events) = Len(Seeds) BY <1>1, <2>1 DEF ThreatIds
  <2> QED BY <2>1, <2>2 DEF Slice
<1>3. StatusSound
  <2>1. \A x \in ThreatIds : status[x] \in StatusNames BY <1>1 DEF ThreatIds, StatusNames
  <2>2. status \in [ThreatIds -> StatusNames] BY <2>1 DEF ThreatIds
  <2> QED BY <2>1, <2>2 DEF StatusSound, StatusNames
<1>4. CountsSound
  <2>1. Monitor!ToSet(Monitor!Statuses) = StatusNames
    BY DEF Monitor!ToSet, Monitor!Statuses, StatusNames
  <2>2. counts \in [StatusNames -> Nat] BY <2>1 DEF Monitor!NoCounts
  <2> QED BY <2>2 DEF CountsSound
<1> QED BY <1>2, <1>3, <1>4 DEF MonitorInv, Accounted

\* What a comparison looks at and for is fixed with the copy of the slice.
LEMMA ReadsStand ==
    ASSUME dash'.view = dash.view
    PROVE  \A i : Monitor!Seen(i)' = Monitor!Seen(i) /\ Monitor!Pass(i)' = Monitor!Pass(i)
BY DEF Monitor!Seen, Monitor!Pass

\* The account stands while the Dashboard does not read, if it allows for what is
\* written meanwhile.
LEMMA ExplainsStill ==
    ASSUME UNCHANGED <<dash, counts>>, touched \subseteq touched',
           NEW hits, NEW orig, Explains(hits, orig),
           \A x \in ThreatIds : /\ status'[x] \in {orig[x], "torn", "mitigated"}
                                /\ x \notin touched' => status'[x] = orig[x]
    PROVE  Explains(hits, orig)'
<1>1. \A i : Monitor!Seen(i)' = Monitor!Seen(i) /\ Monitor!Pass(i)' = Monitor!Pass(i)
  BY ReadsStand
<1>2. \A i, x : Compares(i, x)' <=> Compares(i, x) BY <1>1 DEF Compares
<1>3. Sum3(counts)' = Sum3(counts) BY DEF Sum3
<1>4. \A i \in hits : Compares(i, orig[Monitor!Seen(i)])' \/ Compares(i, "mitigated")'
  BY <1>1, <1>2 DEF Explains
<1>5. \A i \in 1..dash.read : Monitor!Seen(i)' \notin touched' =>
        (i \in hits <=> Compares(i, orig[Monitor!Seen(i)])')
  BY <1>1, <1>2 DEF Explains
<1>6. hits \subseteq 1..dash'.read /\ Sum3(counts)' = Cardinality(hits)
  BY <1>3 DEF Explains
<1> QED BY <1>1, <1>2, <1>4, <1>5, <1>6 DEF Explains

LEMMA AccountedStill ==
    ASSUME UNCHANGED <<status, dash, counts, touched>>, Accounted
    PROVE  Accounted'
<1> SUFFICES ASSUME dash.pc = "reading"
             PROVE  \E hits \in SUBSET (1..dash.read), orig \in [ThreatIds -> StatusNames] :
                       Explains(hits, orig)'
  BY DEF Accounted
<1>1. PICK hits \in SUBSET (1..dash.read), orig \in [ThreatIds -> StatusNames] :
             Explains(hits, orig)
  BY DEF Accounted
<1>2. \A x \in ThreatIds : /\ status'[x] \in {orig[x], "torn", "mitigated"}
                           /\ x \notin touched' => status'[x] = orig[x]
  BY <1>1 DEF Explains
<1>3. Explains(hits, orig)' BY <1>1, <1>2, ExplainsStill
<1> QED BY <1>3

LEMMA MinOfTwo ==
    ASSUME NEW m \in Nat, NEW n \in Nat
    PROVE  Monitor!Min({m, n}) \in {m, n} /\ Monitor!Min({m, n}) <= m /\ Monitor!Min({m, n}) <= n
<1>1. \E x \in {m, n} : \A y \in {m, n} : x <= y
  <2>1. CASE m <= n BY <2>1
  <2>2. CASE n < m BY <2>2
  <2> QED BY <2>1, <2>2
<1> QED BY <1>1 DEF Monitor!Min

LEMMA RecordKeeps ==
    ASSUME MonitorInv, NEW e \in NewEvents, Monitor!Record(e) PROVE MonitorInv'
<1> USE SeedAssumption DEF Monitor!Record
<1>1. PICK q \in Seq(ThreatIds) : q = events /\ e \in ThreatIds /\ Len(q) \in Nat
  BY LenProperties DEF MonitorInv, Slice, ThreatIds
<1>2. PICK l \in Seq(ThreatIds) : l = <<e>> \o q
  <2>1. <<e>> \in Seq(ThreatIds) BY <1>1
  <2>2. <<e>> \o q \in Seq(ThreatIds) BY <1>1, <2>1, ConcatProperties
  <2> QED BY <2>2
<1>3. /\ Len(l) = Len(q) + 1 /\ l[1] = e
      /\ \A i \in 2..Len(l) : i - 1 \in 1..Len(q) /\ l[i] = q[i - 1]
  <2>1. /\ <<e>> \in Seq(ThreatIds) /\ Len(<<e>>) = 1 /\ <<e>>[1] = e BY <1>1
  <2>2. /\ Len(<<e>> \o q) = Len(<<e>>) + Len(q)
        /\ \A i \in 1..(Len(<<e>>) + Len(q)) :
             (<<e>> \o q)[i] = IF i <= Len(<<e>>) THEN <<e>>[i] ELSE q[i - Len(<<e>>)]
    BY <1>1, <2>1, ConcatProperties
  <2>3. 1 \in 1..(1 + Len(q)) BY <1>1
  <2>4. Len(l) = Len(q) + 1 /\ l[1] = e BY <1>1, <1>2, <2>1, <2>2, <2>3
  <2>5. ASSUME NEW i \in 2..Len(l) PROVE i - 1 \in 1..Len(q) /\ l[i] = q[i - 1]
    <3>1. i \in 1..(1 + Len(q)) /\ ~(i <= 1) /\ i - 1 \in 1..Len(q) BY <1>1, <2>4
    <3> QED BY <1>2, <2>1, <2>2, <3>1
  <2> QED BY <2>4, <2>5
<1>4. \A i, j \in 1..Len(l) : l[i] = l[j] => i = j
  <2>1. \A i \in 1..Len(q) : q[i] # e
    <3>1. DOMAIN q = 1..Len(q) BY <1>1, LenProperties
    <3> QED BY <1>1, <3>1 DEF Monitor!ToSet
  <2>2. \A i \in 1..Len(l) : i = 1 \/ i \in 2..Len(l) BY <1>1, <1>3
  <2>3. \A i \in 2..Len(l) : l[i] # e BY <1>3, <2>1
  <2>4. \A i, j \in 1..Len(q) : q[i] = q[j] => i = j BY <1>1 DEF MonitorInv, Slice
  <2>5. ASSUME NEW i \in 2..Len(l), NEW j \in 2..Len(l), l[i] = l[j] PROVE i = j
    <3>1. i - 1 = j - 1 BY <1>3, <2>4, <2>5
    <3> QED BY <3>1
  <2> QED BY <1>3, <2>2, <2>3, <2>5
<1>5. PICK m \in Nat : m = Monitor!Min({Kept, Len(events) + 1}) /\ m <= Len(l)
  <2>1. Kept \in Nat /\ Len(events) + 1 \in Nat BY <1>1
  <2> QED BY <1>1, <1>3, <2>1, MinOfTwo
<1>6. events' = SubSeq(l, 1, m) BY <1>1, <1>2, <1>5
<1>7. /\ SubSeq(l, 1, m) \in Seq(ThreatIds) /\ Len(SubSeq(l, 1, m)) = m
      /\ \A i \in 1..m : SubSeq(l, 1, m)[i] = l[i]
  <2>1. Len(l) \in Nat BY <1>1, <1>3
  <2>2. \A i \in 1..m : i \in 1..Len(l) BY <1>5, <2>1
  <2>3. \A i \in 1..m : l[i] \in ThreatIds BY <2>2, ElementOfSeq
  <2>4. /\ SubSeq(l, 1, m) \in Seq(ThreatIds)
        /\ Len(SubSeq(l, 1, m)) = IF 1 <= m THEN m - 1 + 1 ELSE 0
        /\ \A i \in 1..(m - 1 + 1) : SubSeq(l, 1, m)[i] = l[1 + i - 1]
    BY <2>3, SubSeqProperties
  <2>5. m - 1 + 1 = m /\ (IF 1 <= m THEN m - 1 + 1 ELSE 0) = m OBVIOUS
  <2>6. \A i \in 1..m : 1 + i - 1 = i OBVIOUS
  <2> QED BY <2>4, <2>5, <2>6
<1>8. Slice(events)'
  <2>1. \A i \in 1..m : i \in 1..Len(l) BY <1>1, <1>3, <1>5
  <2> QED BY <1>4, <1>6, <1>7, <2>1 DEF Slice
<1>9. StatusSound' BY DEF MonitorInv, StatusSound
<1>10. CountsSound' BY DEF MonitorInv, CountsSound
<1>11. Accounted' BY AccountedStill DEF MonitorInv
<1> QED BY <1>8, <1>9, <1>10, <1>11 DEF MonitorInv

\* An event being written is one the Dashboard may miscount; another keeps its status.
LEMMA MitigateBeginKeeps ==
    ASSUME MonitorInv, NEW e \in ThreatIds, Monitor!MitigateBegin(e) PROVE MonitorInv'
<1> USE DEF Monitor!MitigateBegin
<1>1. /\ status \in [ThreatIds -> StatusNames \cup {"torn"}]
      /\ \A x \in ThreatIds : status[x] # "torn"
  BY DEF MonitorInv, StatusSound
<1>2. /\ status'[e] = (IF status[e] = "mitigated" THEN "mitigated" ELSE "torn")
      /\ \A x \in ThreatIds : x # e => status'[x] = status[x]
      /\ status' \in [ThreatIds -> StatusNames \cup {"torn"}]
  BY <1>1
<1>3. StatusSound' BY <1>1, <1>2 DEF StatusSound
<1>4. CountsSound' BY DEF MonitorInv, CountsSound
<1>5. Accounted'
  <2> SUFFICES ASSUME dash.pc = "reading"
               PROVE  \E hits \in SUBSET (1..dash.read), orig \in [ThreatIds -> StatusNames] :
                         Explains(hits, orig)'
    BY DEF Accounted
  <2>1. PICK hits \in SUBSET (1..dash.read), orig \in [ThreatIds -> StatusNames] :
               Explains(hits, orig)
    BY DEF MonitorInv, Accounted
  <2>2. \A x \in ThreatIds : /\ status'[x] \in {orig[x], "torn", "mitigated"}
                             /\ x \notin touched' => status'[x] = orig[x]
    BY <1>2, <2>1 DEF Explains
  <2>3. UNCHANGED <<dash, counts>> /\ touched \subseteq touched' OBVIOUS
  <2>4. Explains(hits, orig)' BY <2>1, <2>2, <2>3, ExplainsStill
  <2> QED BY <2>4
<1> QED BY <1>3, <1>4, <1>5 DEF MonitorInv

LEMMA MitigateEndKeeps ==
    ASSUME MonitorInv, NEW e \in ThreatIds, Monitor!MitigateEnd(e) PROVE MonitorInv'
<1> USE DEF Monitor!MitigateEnd
<1>1. /\ status \in [ThreatIds -> StatusNames \cup {"torn"}]
      /\ \A x \in ThreatIds : status[x] = "torn" => x = e
      /\ status[e] \in {"torn", "mitigated"}
  BY DEF MonitorInv, StatusSound
<1>2. /\ status'[e] = "mitigated"
      /\ \A x \in ThreatIds : x # e => status'[x] = status[x]
      /\ status' \in [ThreatIds -> StatusNames \cup {"torn"}]
  BY <1>1 DEF StatusNames
<1>3. StatusSound' BY <1>1, <1>2 DEF StatusSound
<1>4. CountsSound' BY DEF MonitorInv, CountsSound
<1>5. Accounted'
  <2> SUFFICES ASSUME dash.pc = "reading"
               PROVE  \E hits \in SUBSET (1..dash.read), orig \in [ThreatIds -> StatusNames] :
                         Explains(hits, orig)'
    BY DEF Accounted
  <2>1. PICK hits \in SUBSET (1..dash.read), orig \in [ThreatIds -> StatusNames] :
               Explains(hits, orig)
    BY DEF MonitorInv, Accounted
  <2>2. \A x \in ThreatIds : /\ status'[x] \in {orig[x], "torn", "mitigated"}
                             /\ x \notin touched' => status'[x] = orig[x]
    <3>1. ASSUME e \notin touched PROVE status[e] = "mitigated"
      <4>1. status[e] = orig[e] /\ orig[e] \in StatusNames BY <2>1, <3>1 DEF Explains
      <4> QED BY <1>1, <4>1 DEF StatusNames
    <3> QED BY <1>2, <2>1, <3>1 DEF Explains
  <2>3. UNCHANGED <<dash, counts>> /\ touched \subseteq touched' OBVIOUS
  <2>4. Explains(hits, orig)' BY <2>1, <2>2, <2>3, ExplainsStill
  <2> QED BY <2>4
<1> QED BY <1>3, <1>4, <1>5 DEF MonitorInv

\* The copy is made while nobody writes: no status is torn.
LEMMA DashboardCopyKeeps == ASSUME MonitorInv, Monitor!DashboardCopy PROVE MonitorInv'
<1> USE DEF Monitor!DashboardCopy
<1>1. StatusSound' BY DEF MonitorInv, StatusSound
<1>2. Slice(events)' BY DEF MonitorInv, Slice
<1>3. counts' \in [StatusNames -> Nat] /\ Sum3(counts') = 0
  <2>1. Monitor!ToSet(Monitor!Statuses) = StatusNames
    BY DEF Monitor!ToSet, Monitor!Statuses, StatusNames
  <2> QED BY <2>1 DEF Monitor!NoCounts, Sum3, StatusNames
<1>4. /\ dash' \in [pc : {"idle", "reading"}, view : Seq(ThreatIds), read : Nat]
      /\ dash'.pc = "reading" /\ dash'.view = events /\ dash'.read = 0
      /\ Slice(events) /\ 0 <= 3 * Len(events)
  <2>1. Len(events) \in Nat BY LenProperties DEF MonitorInv, Slice
  <2> QED BY <2>1 DEF MonitorInv, Slice
<1>5. CountsSound' BY <1>3, <1>4 DEF CountsSound, Slice
<1>6. Accounted'
  <2> DEFINE orig == [x \in ThreatIds |-> status[x]]
  <2>1. orig \in [ThreatIds -> StatusNames] BY DEF MonitorInv, StatusSound
  <2>2. Explains({}, orig)'
    <3>1. Cardinality({}) = 0 BY FS_EmptySet
    <3>2. 1..0 = {} OBVIOUS
    <3> QED BY <1>3, <1>4, <3>1, <3>2 DEF Explains, Sum3
  <2> QED BY <2>1, <2>2 DEF Accounted
<1> QED BY <1>1, <1>2, <1>5, <1>6 DEF MonitorInv

\* A comparison adds to one count when it comes out equal.
LEMMA DashboardReadKeeps == ASSUME MonitorInv, Monitor!DashboardRead PROVE MonitorInv'
<1>0. PICK i : i = dash.read + 1 OBVIOUS
<1>1. /\ dash.pc = "reading" /\ dash.read < Monitor!Reads
      /\ dash' = [dash EXCEPT !.read = @ + 1]
      /\ counts' = IF status[Monitor!Seen(i)] = Monitor!Pass(i)
                   THEN [counts EXCEPT ![Monitor!Pass(i)] = @ + 1] ELSE counts
      /\ UNCHANGED <<events, status, writing, touched>>
  BY <1>0 DEF Monitor!DashboardRead
<1>2. /\ dash \in [pc : {"idle", "reading"}, view : Seq(ThreatIds), read : Nat]
      /\ dash.view \in Seq(ThreatIds) /\ dash.read \in Nat /\ Slice(dash.view)
      /\ counts \in [StatusNames -> Nat] /\ touched \subseteq ThreatIds
  BY <1>1 DEF MonitorInv, CountsSound
<1>3. dash.read < 3 * Len(dash.view) /\ Len(dash.view) \in Nat
  BY <1>1, <1>2, ReadsAre, LenProperties
<1>4. /\ i \in 1..(3 * Len(dash.view)) /\ i = dash.read + 1
      /\ 1..i = (1..dash.read) \cup {i} /\ i \notin 1..dash.read
  BY <1>0, <1>2, <1>3
<1>5. Monitor!Seen(i) \in ThreatIds /\ Monitor!Pass(i) \in StatusNames
  BY <1>2, <1>4, ComparisonTyped
<1>6. /\ dash'.pc = "reading" /\ dash'.view = dash.view /\ dash'.read = i
      /\ dash' \in [pc : {"idle", "reading"}, view : Seq(ThreatIds), read : Nat]
  BY <1>1, <1>2, <1>4
<1>7. /\ counts' \in [StatusNames -> Nat]
      /\ Sum3(counts') = Sum3(counts) +
            IF status[Monitor!Seen(i)] = Monitor!Pass(i) THEN 1 ELSE 0
  <2>1. PICK p \in StatusNames : p = Monitor!Pass(i) BY <1>5
  <2>2. CASE status[Monitor!Seen(i)] = Monitor!Pass(i)
    <3>1. counts' = [counts EXCEPT ![p] = @ + 1] BY <1>1, <2>1, <2>2
    <3>2. counts' \in [StatusNames -> Nat] BY <1>2, <3>1
    <3>3. p = "active" \/ p = "mitigated" \/ p = "resolved" BY DEF StatusNames
    <3>4. \A x \in StatusNames : counts[x] \in Nat BY <1>2
    <3>5. Sum3(counts') = Sum3(counts) + 1 BY <1>2, <3>1, <3>3, <3>4 DEF Sum3, StatusNames
    <3> QED BY <2>2, <3>2, <3>5
  <2>3. CASE status[Monitor!Seen(i)] # Monitor!Pass(i)
    <3>1. counts' = counts BY <1>1, <2>3
    <3>2. Sum3(counts) \in Nat BY <1>2 DEF Sum3, StatusNames
    <3> QED BY <1>2, <2>3, <3>1, <3>2
  <2> QED BY <2>2, <2>3
<1>8. CountsSound' BY <1>1, <1>2, <1>4, <1>6, <1>7 DEF CountsSound, Slice
<1>9. PICK hits \in SUBSET (1..dash.read), orig \in [ThreatIds -> StatusNames] :
             Explains(hits, orig)
  BY <1>1 DEF MonitorInv, Accounted
<1>10. \A j : Monitor!Seen(j)' = Monitor!Seen(j) /\ Monitor!Pass(j)' = Monitor!Pass(j)
  BY <1>6 DEF Monitor!Seen, Monitor!Pass
<1>11. IsFiniteSet(hits) /\ Cardinality(hits) \in Nat
  <2>1. IsFiniteSet(1..dash.read) BY <1>2, FS_Interval
  <2> QED BY <2>1, FS_Subset, FS_CardinalityType
<1>12. status[Monitor!Seen(i)] \in {orig[Monitor!Seen(i)], "torn", "mitigated"}
       /\ (Monitor!Seen(i) \notin touched => status[Monitor!Seen(i)] = orig[Monitor!Seen(i)])
  BY <1>5, <1>9 DEF Explains
<1>13. CASE status[Monitor!Seen(i)] = Monitor!Pass(i)
  <2> DEFINE more == hits \cup {i}
  <2>1. more \in SUBSET (1..i) /\ i \notin hits BY <1>4
  <2>2. Cardinality(more) = Cardinality(hits) + 1 BY <1>11, <2>1, FS_AddElement
  <2>3. Sum3(counts') = Cardinality(more) BY <1>7, <1>9, <1>11, <1>13, <2>2 DEF Explains
  <2>4. Compares(i, orig[Monitor!Seen(i)]) \/ Compares(i, "mitigated")
    BY <1>5, <1>12, <1>13 DEF Compares, StatusNames
  <2>5. Monitor!Seen(i) \notin touched => Compares(i, orig[Monitor!Seen(i)])
    BY <1>12, <1>13 DEF Compares
  <2>6. Explains(more, orig)'
    BY <1>1, <1>4, <1>6, <1>9, <1>10, <2>1, <2>3, <2>4, <2>5 DEF Explains, Compares
  <2> QED BY <1>1, <1>6, <1>8, <2>1, <2>6 DEF MonitorInv, StatusSound, Slice, Accounted
<1>14. CASE status[Monitor!Seen(i)] # Monitor!Pass(i)
  <2>1. hits \in SUBSET (1..i) /\ i \notin hits BY <1>4
  <2>2. Sum3(counts') = Cardinality(hits) BY <1>7, <1>9, <1>11, <1>14 DEF Explains
  <2>3. Monitor!Seen(i) \notin touched => ~Compares(i, orig[Monitor!Seen(i)])
    BY <1>12, <1>14 DEF Compares
  <2>4. Explains(hits, orig)'
    BY <1>1, <1>4, <1>6, <1>9, <1>10, <2>1, <2>2, <2>3 DEF Explains, Compares
  <2> QED BY <1>1, <1>6, <1>8, <2>1, <2>4 DEF MonitorInv, StatusSound, Slice, Accounted
<1> QED BY <1>13, <1>14

LEMMA DashboardReplyKeeps == ASSUME MonitorInv, Monitor!DashboardReply PROVE MonitorInv'
<1> USE DEF Monitor!DashboardReply
<1>1. StatusSound' /\ Slice(events)' BY DEF MonitorInv, StatusSound, Slice
<1>2. counts' \in [StatusNames -> Nat]
  <2>1. Monitor!ToSet(Monitor!Statuses) = StatusNames
    BY DEF Monitor!ToSet, Monitor!Statuses, StatusNames
  <2> QED BY <2>1 DEF Monitor!NoCounts
<1>3. dash' \in [pc : {"idle", "reading"}, view : Seq(ThreatIds), read : Nat] /\ dash'.pc = "idle"
  OBVIOUS
<1> QED BY <1>1, <1>2, <1>3 DEF MonitorInv, CountsSound, Accounted

\* MonitorInv is inductive.
THEOREM MonitorInvariant == Monitor!Spec => []MonitorInv
<1>1. MonitorInv /\ [Monitor!Next]_(Monitor!vars) => MonitorInv'
  <2> SUFFICES ASSUME MonitorInv, [Monitor!Next]_(Monitor!vars) PROVE MonitorInv' OBVIOUS
  <2>1. CASE \E e \in NewEvents : Monitor!Record(e) BY <2>1, RecordKeeps
  <2>2. CASE \E e \in ThreatIds : Monitor!MitigateBegin(e) \/ Monitor!MitigateEnd(e)
    BY <2>2, MitigateBeginKeeps, MitigateEndKeeps
  <2>3. CASE Monitor!DashboardCopy BY <2>3, DashboardCopyKeeps
  <2>4. CASE Monitor!DashboardRead BY <2>4, DashboardReadKeeps
  <2>5. CASE Monitor!DashboardReply BY <2>5, DashboardReplyKeeps
  <2>6. CASE UNCHANGED Monitor!vars
    <3>1. UNCHANGED <<events, status, writing, dash, counts, touched>> BY <2>6 DEF Monitor!vars
    <3>2. Accounted' BY <3>1, AccountedStill DEF MonitorInv
    <3> QED BY <3>1, <3>2 DEF MonitorInv, Slice, StatusSound, CountsSound
  <2> QED BY <2>1, <2>2, <2>3, <2>4, <2>5, <2>6 DEF Monitor!Next, ThreatIds
<1> QED BY <1>1, MonitorStart, PTL DEF Monitor!Spec

\* A set that maps into another one to one has no more elements.
LEMMA OneToOne ==
    ASSUME NEW S, NEW T, IsFiniteSet(T), NEW f \in [S -> T],
           \A x, y \in S : f[x] = f[y] => x = y
    PROVE  IsFiniteSet(S) /\ Cardinality(S) <= Cardinality(T)
<1>1. f \in Injection(S, T) BY DEF Injection, IsInjective
<1> QED BY <1>1, FS_Injection

LEMMA CountUpTo ==
    ASSUME NEW n \in Nat PROVE IsFiniteSet(1..n) /\ Cardinality(1..n) = n
BY FS_Interval

LEMMA CountParts ==
    ASSUME NEW A, NEW B, IsFiniteSet(A), IsFiniteSet(B), A \cap B = {}
    PROVE  Cardinality(A \cup B) = Cardinality(A) + Cardinality(B)
<1>1. Cardinality(A \cup B) = Cardinality(A) + Cardinality(B) - Cardinality(A \cap B)
  BY FS_Union
<1>2. Cardinality(A \cap B) = 0 BY FS_EmptySet
<1>3. Cardinality(A) \in Nat /\ Cardinality(B) \in Nat BY FS_CardinalityType
<1> QED BY <1>1, <1>2, <1>3

\* After three passes: each event that was not written is counted once, each that was
\* at most twice.
LEMMA ThreePasses ==
    ASSUME NEW n \in Nat, n = Len(dash.view), Slice(dash.view),
           dash.read = 3 * n, touched \subseteq ThreatIds,
           NEW hits \in SUBSET (1..(3 * n)), NEW orig \in [ThreatIds -> StatusNames],
           Explains(hits, orig)
    PROVE  LET t == Cardinality({p \in 1..n : dash.view[p] \in touched}) IN
              n - t <= Cardinality(hits) /\ Cardinality(hits) <= n + t
<1> DEFINE T == {p \in 1..n : dash.view[p] \in touched}
           U == (1..n) \ T
           H1 == {i \in hits : Monitor!Pass(i) = orig[Monitor!Seen(i)]}
           H2 == hits \ H1
           Row(x) == IF x = "active" THEN 0 ELSE IF x = "mitigated" THEN 1 ELSE 2
<1>1. /\ IsFiniteSet(1..n) /\ Cardinality(1..n) = n
      /\ IsFiniteSet(T) /\ IsFiniteSet(U) /\ IsFiniteSet(hits)
      /\ IsFiniteSet(H1) /\ IsFiniteSet(H2)
  <2>1. IsFiniteSet(1..n) /\ Cardinality(1..n) = n BY CountUpTo
  <2>2. IsFiniteSet(1..(3 * n)) BY FS_Interval
  <2>3. IsFiniteSet(hits) BY <2>2, FS_Subset
  <2>4. T \in SUBSET (1..n) /\ U \in SUBSET (1..n) /\ H1 \in SUBSET hits /\ H2 \in SUBSET hits
    OBVIOUS
  <2> HIDE DEF T, U, H1, H2
  <2> QED BY <2>1, <2>3, <2>4, FS_Subset
<1>2. /\ Cardinality(T) \in Nat /\ Cardinality(U) \in Nat /\ Cardinality(hits) \in Nat
      /\ Cardinality(H1) \in Nat /\ Cardinality(H2) \in Nat
  BY <1>1, FS_CardinalityType
<1>3. Cardinality(U) + Cardinality(T) = n
  <2>1. U \cup T = 1..n /\ U \cap T = {} OBVIOUS
  <2> HIDE DEF T, U
  <2>2. Cardinality(U \cup T) = Cardinality(U) + Cardinality(T) BY <1>1, <2>1, CountParts
  <2>3. Cardinality(U \cup T) = n BY <1>1, <2>1
  <2> QED BY <2>2, <2>3
<1>4. Cardinality(hits) = Cardinality(H1) + Cardinality(H2)
  <2>1. H1 \cup H2 = hits /\ H1 \cap H2 = {} OBVIOUS
  <2> HIDE DEF H1, H2
  <2>2. Cardinality(H1 \cup H2) = Cardinality(H1) + Cardinality(H2) BY <1>1, <2>1, CountParts
  <2> QED BY <2>1, <2>2
<1>5. dash.view \in Seq(ThreatIds) /\ \A p \in 1..n : dash.view[p] \in ThreatIds
  BY ElementOfSeq DEF Slice
<1>6. ASSUME NEW a \in 0..2, NEW p \in 1..n
      PROVE  /\ a * n + p \in 1..(3 * n) /\ Monitor!Seen(a * n + p) = dash.view[p]
             /\ Monitor!Pass(a * n + p) = <<"active", "mitigated", "resolved">>[a + 1]
  BY <1>5, Comparison
<1>7. \A x \in StatusNames : Row(x) \in 0..2
        /\ <<"active", "mitigated", "resolved">>[Row(x) + 1] = x
  BY DEF StatusNames
<1>8. \A a, b \in 0..2 : <<"active", "mitigated", "resolved">>[a + 1] =
                          <<"active", "mitigated", "resolved">>[b + 1] => a = b
  <2> SUFFICES ASSUME NEW a \in 0..2, NEW b \in 0..2,
                      <<"active", "mitigated", "resolved">>[a + 1] =
                          <<"active", "mitigated", "resolved">>[b + 1]
               PROVE  a = b
    OBVIOUS
  <2>1. (a = 0 \/ a = 1 \/ a = 2) /\ (b = 0 \/ b = 1 \/ b = 2) OBVIOUS
  <2> QED BY <2>1
<1> HIDE DEF Row
\* Each comparison's pass and place.
<1>9. PICK row \in [hits -> 0..2], place \in [hits -> 1..n] :
         \A i \in hits : i = row[i] * n + place[i]
  <2> DEFINE At(i, a, p) == i = a * n + p
  <2>1. \A i \in hits : \E a \in 0..2, p \in 1..n : At(i, a, p) BY Placed
  <2> DEFINE ro == [i \in hits |-> CHOOSE a \in 0..2 : \E p \in 1..n : At(i, a, p)]
  <2>2. \A i \in hits : ro[i] \in 0..2 /\ \E p \in 1..n : At(i, ro[i], p)
    <3> HIDE DEF At
    <3> QED BY <2>1
  <2> DEFINE pl == [i \in hits |-> CHOOSE p \in 1..n : At(i, ro[i], p)]
  <2>3. \A i \in hits : pl[i] \in 1..n /\ At(i, ro[i], pl[i])
    <3> HIDE DEF At, ro
    <3> QED BY <2>2
  <2>4. ro \in [hits -> 0..2] /\ pl \in [hits -> 1..n]
    <3>1. \A i \in hits : ro[i] \in 0..2 /\ pl[i] \in 1..n BY <2>2, <2>3
    <3> HIDE DEF At
    <3> QED BY <3>1
  <2> HIDE DEF ro, pl
  <2> QED BY <2>3, <2>4
<1>10. ASSUME NEW i \in hits
       PROVE  /\ row[i] \in 0..2 /\ place[i] \in 1..n /\ i = row[i] * n + place[i]
              /\ Monitor!Seen(i) = dash.view[place[i]] /\ Monitor!Seen(i) \in ThreatIds
              /\ Monitor!Pass(i) = <<"active", "mitigated", "resolved">>[row[i] + 1]
  <2>1. row[i] \in 0..2 /\ place[i] \in 1..n /\ i = row[i] * n + place[i] BY <1>9
  <2>2. /\ Monitor!Seen(row[i] * n + place[i]) = dash.view[place[i]]
        /\ Monitor!Pass(row[i] * n + place[i]) =
             <<"active", "mitigated", "resolved">>[row[i] + 1]
    BY <1>6, <2>1
  <2> QED BY <1>5, <2>1, <2>2
\* The comparison of an unwritten event with its status came out equal.
<1>11. Cardinality(U) <= Cardinality(hits)
  <2> DEFINE f == [p \in U |-> Row(orig[dash.view[p]]) * n + p]
  <2>1. ASSUME NEW p \in U
        PROVE  f[p] \in hits /\ Monitor!Seen(f[p]) = dash.view[p]
    <3>1. p \in 1..n /\ dash.view[p] \notin touched /\ dash.view[p] \in ThreatIds BY <1>5
    <3>2. PICK x \in StatusNames : x = orig[dash.view[p]] BY <3>1
    <3>3. PICK a \in 0..2 : a = Row(x) /\ <<"active", "mitigated", "resolved">>[a + 1] = x
      BY <1>7
    <3>4. PICK i : i = a * n + p OBVIOUS
    <3>5. i \in 1..(3 * n) /\ Monitor!Seen(i) = dash.view[p] /\ Monitor!Pass(i) = x
      BY <1>6, <3>1, <3>3, <3>4
    <3>6. i \in hits BY <3>1, <3>2, <3>5 DEF Explains, Compares
    <3>7. f[p] = i BY <3>2, <3>3, <3>4
    <3> QED BY <3>5, <3>6, <3>7
  <2>2. f \in [U -> hits]
    <3>1. \A p \in U : f[p] \in hits BY <2>1
    <3>2. f = [p \in U |-> f[p]] OBVIOUS
    <3> HIDE DEF f, U
    <3> QED BY <3>1, <3>2
  <2>3. ASSUME NEW p \in U, NEW q \in U, f[p] = f[q] PROVE p = q
    <3>1. dash.view[p] = dash.view[q]
      <4> HIDE DEF f, U
      <4> QED BY <2>1, <2>3
    <3> HIDE DEF f
    <3> QED BY <3>1 DEF Slice
  <2> HIDE DEF f, U
  <2> QED BY <1>1, <2>2, <2>3, OneToOne
\* At one place, at most one comparison with the status as it was.
<1>12. Cardinality(H1) <= n
  <2> DEFINE f == [i \in H1 |-> place[i]]
  <2>1. f \in [H1 -> 1..n] BY <1>10
  <2>2. ASSUME NEW i \in H1, NEW j \in H1, f[i] = f[j] PROVE i = j
    <3>1. i \in hits /\ j \in hits /\ place[i] = place[j] BY <2>2
    <3>2. Monitor!Pass(i) = orig[Monitor!Seen(i)] /\ Monitor!Pass(j) = orig[Monitor!Seen(j)]
      OBVIOUS
    <3>3. Monitor!Pass(i) = Monitor!Pass(j) BY <1>10, <3>1, <3>2
    <3>4. row[i] = row[j] BY <1>8, <1>10, <3>1, <3>3
    <3> QED BY <1>10, <3>1, <3>4
  <2> HIDE DEF f, H1
  <2> QED BY <1>1, <2>1, <2>2, OneToOne
\* Another one came out equal to "mitigated" and only at a written event.
<1>13. Cardinality(H2) <= Cardinality(T)
  <2> DEFINE f == [i \in H2 |-> place[i]]
  <2>1. ASSUME NEW i \in H2
        PROVE  i \in hits /\ Monitor!Pass(i) = "mitigated" /\ place[i] \in T
    <3>1. i \in hits /\ Monitor!Pass(i) # orig[Monitor!Seen(i)] OBVIOUS
    <3>2. Monitor!Pass(i) = "mitigated" BY <3>1 DEF Explains, Compares
    <3>3. Monitor!Seen(i) \in touched BY <3>1 DEF Explains, Compares
    <3> QED BY <1>10, <3>1, <3>2, <3>3
  <2>2. f \in [H2 -> T] BY <2>1
  <2>3. ASSUME NEW i \in H2, NEW j \in H2, f[i] = f[j] PROVE i = j
    <3>1. i \in hits /\ j \in hits /\ place[i] = place[j] BY <2>3
    <3>2. Monitor!Pass(i) = Monitor!Pass(j) BY <2>1
    <3>3. row[i] = row[j] BY <1>8, <1>10, <3>1, <3>2
    <3> QED BY <1>10, <3>1, <3>3
  <2> HIDE DEF f, H2, T
  <2> QED BY <1>1, <2>2, <2>3, OneToOne
<1> HIDE DEF T, U, H1, H2
<1>14. n - Cardinality(T) <= Cardinality(hits) /\ Cardinality(hits) <= n + Cardinality(T)
  BY <1>2, <1>3, <1>4, <1>11, <1>12, <1>13
<1> QED BY <1>14 DEF T

\* The reply adds up but for the events written while it was computed.
THEOREM DashboardAdds == Monitor!Spec => []DashboardCounts
<1>1. ASSUME MonitorInv PROVE DashboardCounts
  <2> SUFFICES ASSUME dash.pc = "reading", dash.read = Monitor!Reads
               PROVE  LET sum == counts["active"] + counts["mitigated"] + counts["resolved"]
                          total == Len(dash.view)
                          blurred == Monitor!Cardinality(touched \cap Monitor!ToSet(dash.view))
                      IN  total - blurred <= sum /\ sum <= total + blurred
    BY DEF DashboardCounts, Monitor!DashboardCounts
  <2>1. /\ Slice(dash.view) /\ touched \subseteq ThreatIds
        /\ dash.view \in Seq(ThreatIds)
    BY <1>1 DEF MonitorInv, CountsSound, Slice
  <2>2. PICK n \in Nat : n = Len(dash.view) BY <2>1, LenProperties
  <2>3. dash.read = 3 * n BY <2>1, <2>2, ReadsAre
  <2>4. PICK hits \in SUBSET (1..(3 * n)), orig \in [ThreatIds -> StatusNames] :
               Explains(hits, orig)
    BY <1>1, <2>3 DEF MonitorInv, Accounted
  <2> DEFINE T == {p \in 1..n : dash.view[p] \in touched}
             B == touched \cap Monitor!ToSet(dash.view)
  <2>5. n - Cardinality(T) <= Cardinality(hits) /\ Cardinality(hits) <= n + Cardinality(T)
    BY <2>1, <2>2, <2>3, <2>4, ThreePasses
  <2>6. Sum3(counts) = Cardinality(hits) BY <2>4 DEF Explains
  <2>7. Cardinality(T) = Cardinality(B) /\ Cardinality(T) \in Nat
    <3>1. DOMAIN dash.view = 1..n BY <2>1, <2>2, LenProperties
    <3>2. IsFiniteSet(T)
      <4>1. IsFiniteSet(1..n) BY FS_Interval
      <4>2. T \in SUBSET (1..n) OBVIOUS
      <4> HIDE DEF T
      <4> QED BY <4>1, <4>2, FS_Subset
    <3> DEFINE f == [p \in T |-> dash.view[p]]
    <3>3. f \in Bijection(T, B)
      <4>1. f \in [T -> B] BY <3>1 DEF Monitor!ToSet
      <4>2. \A p, q \in T : f[p] = f[q] => p = q BY <2>1, <2>2 DEF Slice
      <4>3. \A x \in B : \E p \in T : f[p] = x BY <3>1 DEF Monitor!ToSet
      <4> HIDE DEF f, T, B
      <4> QED BY <4>1, <4>2, <4>3 DEF Bijection, Injection, Surjection, IsInjective
    <3> HIDE DEF f, T, B
    <3>4. ExistsBijection(T, B) BY <3>3 DEF ExistsBijection
    <3> QED BY <3>2, <3>4, FS_Bijection, FS_CardinalityType
  <2>8. Monitor!Cardinality(B) = Cardinality(B) BY DEF Monitor!Cardinality, Cardinality
  <2>9. Cardinality(hits) \in Nat
    <3>1. IsFiniteSet(1..(3 * n)) BY FS_Interval
    <3> QED BY <3>1, FS_Subset, FS_CardinalityType
  <2> HIDE DEF T, B
  <2>10. n - Cardinality(B) <= Cardinality(hits) /\ Cardinality(hits) <= n + Cardinality(B)
    BY <2>5, <2>7
  <2> QED BY <2>2, <2>6, <2>8, <2>10 DEF Sum3, B
<1> QED BY <1>1, MonitorInvariant, PTL
-----------------------------------------------------------------------------
\* What the parts do together is what each does alone: the parts of a run of
\* ConsoleSpec are runs of their own specifications.
THEOREM PartsRun == ConsoleSpec => Access!Spec /\ Monitor!Spec /\ Network!Spec /\ Spec
<1>1. ConsoleInit => Access!Init /\ Monitor!Init /\ Network!Init /\ Init
  BY DEF ConsoleInit, AccountsIdle, MonitorIdle, NetworkIdle, HooksIdle
<1>2. [ConsoleNext]_consoleVars =>
        /\ [Access!Next]_(Access!vars) /\ [Monitor!Next]_(Monitor!vars)
        /\ [Network!Next]_(Network!vars) /\ [Next]_vars
  <2>1. UNCHANGED accountVars => UNCHANGED Access!vars
    BY DEF accountVars, Access!vars, Access!storeVars, Access!handlerVars
  <2>2. UNCHANGED monitorVars => UNCHANGED Monitor!vars BY DEF monitorVars, Monitor!vars
  <2>3. UNCHANGED networkVars => UNCHANGED Network!vars BY DEF networkVars, Network!vars
  <2> QED BY <2>1, <2>2, <2>3 DEF ConsoleNext, consoleVars
<1> QED BY <1>1, <1>2, PTL DEF ConsoleSpec, Access!Spec, Monitor!Spec, Network!Spec, Spec
=============================================================================
