--------------------------- MODULE RateLimitProofs ---------------------------
(***************************************************************************)
(* The rate limiter for any limit, window, lag, number of requests and     *)
(* difference between the servers' clocks.                                 *)
(* The fallback counts per window of the clock, so its proof is one about  *)
(* windows (Aligned, Counted).  The Redis limiter counts in one round trip *)
(* and adds in another: Overrun charges, besides what was added within a   *)
(* span of time, the requests that have counted and not added yet.         *)
(***************************************************************************)
EXTENDS RateLimit, FiniteSetTheorems, TLAPS

\* A fallback's window is one of the clock's that has begun, or not opened yet.
Aligned == \A s \in Servers :
    /\ entry[s].windowAt <= TimeAt(s)
    /\ \E w \in Windows \cup {-1} : entry[s].windowAt = w * Window

\* What it served in the window it counts is its count; of later windows, nothing.
Counted == \A s \in Servers, w \in Windows :
    /\ served[s][w] <= Limit
    /\ w * Window = entry[s].windowAt => served[s][w] = entry[s].count
    /\ w * Window > entry[s].windowAt => served[s][w] = 0

\* The Redis limiter has no request longer than MaxLag, and none from the future.
Lagging == \A r \in Requests :
    /\ req[r].pc # "idle" => Age(r) >= 0
    /\ req[r].pc \in InRedis => Age(r) <= MaxLag

\* No count prunes a request that is still within the window of every server.
Kept == \A m \in stamps : m > clock + MaxSkew - Window => m \in members

Span(t)   == (t - Window + MaxLag + MaxSkew + 1)..t
Adding(t) == {r \in Requests : req[r].pc = "adding" /\ req[r].now \in Span(t)}

\* Requests that were counted in and wait to be added are charged already.
Overrun == \A t \in Times :
    Cardinality(stamps \cap Span(t)) + Cardinality(Adding(t)) < Limit + Cardinality(Requests)

IInv == TypeOK /\ Aligned /\ Counted /\ Lagging /\ Kept /\ Overrun
-----------------------------------------------------------------------------
(* Windows of the clock *)

LEMMA DivFacts ==
    ASSUME NEW n \in Nat, NEW d \in Nat \ {0}
    PROVE  n \div d \in Nat /\ (n \div d) * d <= n /\ n < (n \div d) * d + d
OBVIOUS

LEMMA DivOrder ==
    ASSUME NEW n \in Nat, NEW m \in Nat, n <= m, NEW d \in Nat \ {0}
    PROVE  n \div d <= m \div d
OBVIOUS

LEMMA MultiplesApart ==
    ASSUME NEW a \in Int, NEW b \in Int, a < b, NEW d \in Nat \ {0}
    PROVE  a * d + d <= b * d
OBVIOUS

\* What a server's clock shows is one of the times there are.
LEMMA ClockTimes ==
    ASSUME TypeOK, NEW s \in Servers
    PROVE  /\ TimeAt(s) \in Nat /\ TimeAt(s) \in Times
           /\ clock <= TimeAt(s) /\ TimeAt(s) <= clock + MaxSkew
           /\ TimeAt(s) = clock + Skew[s] /\ Skew[s] \in Nat /\ clock \in Nat
BY LimitAssumption, SkewAssumption DEF TypeOK, Times, TimeAt

\* The window that holds it.
LEMMA WindowNow ==
    ASSUME TypeOK, NEW s \in Servers
    PROVE  /\ TimeAt(s) \div Window \in Windows
           /\ WindowOf(TimeAt(s)) = (TimeAt(s) \div Window) * Window
           /\ WindowOf(TimeAt(s)) \in Times /\ WindowOf(TimeAt(s)) <= TimeAt(s)
           /\ TimeAt(s) < WindowOf(TimeAt(s)) + Window
<1> DEFINE now == TimeAt(s)
<1>1. now \in Nat /\ now \in Times BY ClockTimes
<1> HIDE DEF now
<1>2. /\ MaxClock + MaxSkew \in Nat /\ now <= MaxClock + MaxSkew /\ Window \in Nat \ {0}
  BY <1>1, LimitAssumption, SkewAssumption DEF Times
<1>3. now \div Window \in Nat /\ now \div Window <= (MaxClock + MaxSkew) \div Window
  BY <1>1, <1>2, DivFacts, DivOrder
<1>4. now \div Window \in Windows BY <1>2, <1>3, DivFacts DEF Windows
<1>5. (now \div Window) * Window \in Nat BY <1>2, <1>3
<1>6. (now \div Window) * Window <= now /\ now < (now \div Window) * Window + Window
  BY <1>1, <1>2, DivFacts
<1>7. (now \div Window) * Window \in Times BY <1>1, <1>2, <1>5, <1>6 DEF Times
<1> QED BY <1>4, <1>6, <1>7 DEF WindowOf, now

LEMMA Init_IInv == Init => IInv
<1> SUFFICES ASSUME Init PROVE IInv OBVIOUS
<1> USE LimitAssumption DEF Init
<1>1. TypeOK BY DEF TypeOK, Times
<1>2. Aligned
  <2>1. -Window = (-1) * Window /\ -Window <= 0 OBVIOUS
  <2>2. \A s \in Servers : TimeAt(s) \in Nat /\ entry[s].windowAt = -Window BY <1>1, ClockTimes
  <2>3. \A s \in Servers : \E w \in Windows \cup {-1} : entry[s].windowAt = w * Window
    BY <2>1, <2>2
  <2>4. \A s \in Servers : entry[s].windowAt <= TimeAt(s)
    <3>1. \A n \in Nat : -Window <= n OBVIOUS
    <3> QED BY <2>2, <3>1
  <2> QED BY <2>3, <2>4 DEF Aligned
<1>3. Counted
  <2>1. \A w \in Windows : w * Window \in Nat BY DivFacts DEF Windows
  <2> QED BY <2>1 DEF Counted
<1>4. Lagging /\ Kept BY DEF Lagging, Kept, Idle, InRedis
<1>5. Overrun
  <2>1. \A t : stamps \cap Span(t) = {} /\ Adding(t) = {} BY DEF Adding, Idle
  <2>2. Cardinality(Requests) \in Nat BY FS_CardinalityType
  <2>3. \A t : Cardinality(stamps \cap Span(t)) = 0 /\ Cardinality(Adding(t)) = 0
    BY <2>1, FS_EmptySet
  <2> QED BY <2>2, <2>3 DEF Overrun
<1> QED BY <1>1, <1>2, <1>3, <1>4, <1>5 DEF IInv
-----------------------------------------------------------------------------
(* The fallback *)

\* What the fallback counts from is what it served in the window of the clock.
LEMMA CurrentCounts ==
    ASSUME IInv, NEW s \in Servers
    PROVE  LET e == Current(entry[s], TimeAt(s)) IN
           /\ e \in [windowAt : {WindowOf(TimeAt(s))}, count : 0..Limit]
           /\ e.count = served[s][TimeAt(s) \div Window]
           /\ \A w \in Windows : w * Window > e.windowAt => served[s][w] = 0
<1> USE LimitAssumption DEF IInv
<1>1. PICK w0 \in Windows \cup {-1} : entry[s].windowAt = w0 * Window BY DEF Aligned
<1> DEFINE now == TimeAt(s)
<1>2. PICK cw \in Windows : /\ cw = now \div Window /\ WindowOf(now) = cw * Window
                            /\ cw * Window <= now /\ now < cw * Window + Window
  BY WindowNow
<1>3. /\ Windows \subseteq Nat /\ now \in Nat /\ entry[s].windowAt <= now
      /\ entry[s] \in [windowAt : {-Window} \cup Times, count : 0..Limit]
  BY ClockTimes, DivFacts DEF Windows, TypeOK, Times, Aligned
<1> HIDE DEF now
<1>4. CASE now - entry[s].windowAt >= Window
  <2>1. w0 < cw
    <3>1. w0 = cw \/ cw < w0 => FALSE BY <1>1, <1>2, <1>3, <1>4, MultiplesApart
    <3> QED BY <1>3, <3>1
  <2>2. cw * Window > entry[s].windowAt BY <1>1, <1>3, <2>1, MultiplesApart
  <2>3. Current(entry[s], now) = [windowAt |-> cw * Window, count |-> 0] BY <1>2, <1>4 DEF Current
  <2>4. \A w \in Windows : w * Window > cw * Window => served[s][w] = 0
    BY <1>3, <2>2 DEF Counted, Times
  <2> QED BY <1>2, <2>2, <2>3, <2>4 DEF Counted, now
<1>5. CASE ~(now - entry[s].windowAt >= Window)
  <2>1. w0 = cw
    <3>1. ~(w0 < cw) BY <1>1, <1>2, <1>3, <1>5, MultiplesApart
    <3>2. ~(cw < w0) BY <1>1, <1>2, <1>3, MultiplesApart
    <3> QED BY <1>3, <3>1, <3>2
  <2>2. Current(entry[s], now) = entry[s] BY <1>5 DEF Current
  <2> QED BY <1>1, <1>2, <1>3, <2>1, <2>2 DEF Counted, now
<1> QED BY <1>4, <1>5

\* A request the fallback lets through is one of the window of the clock.
LEMMA AllowKeeps ==
    ASSUME IInv, NEW r \in Requests, Allow(r)
    PROVE  /\ entry' \in [Servers -> [windowAt : {-Window} \cup Times, count : 0..Limit]]
           /\ served' \in [Servers -> [Windows -> Nat]]
           /\ Aligned' /\ Counted'
<1> USE LimitAssumption DEF IInv
<1>1. PICK s \in Servers : s = ServerOf[r] OBVIOUS
<1>2. PICK cw \in Windows : /\ cw = TimeAt(s) \div Window /\ WindowOf(TimeAt(s)) = cw * Window
                            /\ cw * Window \in Times /\ cw * Window <= TimeAt(s)
  BY WindowNow
<1>3. PICK e \in [windowAt : {cw * Window}, count : 0..Limit] :
        /\ e = Current(entry[s], TimeAt(s))
        /\ e.count = served[s][cw]
        /\ \A w \in Windows : w * Window > cw * Window => served[s][w] = 0
  BY <1>2, CurrentCounts
<1>4. PICK n \in {0, 1} :
        /\ e.count + n \in 0..Limit
        /\ entry' = [entry EXCEPT ![s] = [windowAt |-> cw * Window, count |-> e.count + n]]
        /\ \A x \in Servers, w \in Windows :
             served'[x][w] = served[x][w] + IF x = s /\ w = cw THEN n ELSE 0
        /\ served' \in [Servers -> [Windows -> Nat]]
  <2>1. entry \in [Servers -> [windowAt : {-Window} \cup Times, count : 0..Limit]]
        /\ served \in [Servers -> [Windows -> Nat]]
    BY DEF TypeOK
  <2>2. CASE e.count < Limit
    <3>1. entry' = [entry EXCEPT ![s] = [e EXCEPT !.count = e.count + 1]]
      BY <1>1, <1>3, <2>2 DEF Allow
    <3>2. [e EXCEPT !.count = e.count + 1] = [windowAt |-> cw * Window, count |-> e.count + 1]
      BY <1>3
    <3>3. served' = [served EXCEPT ![s][cw] = served[s][cw] + 1]
      BY <1>1, <1>2, <1>3, <2>2 DEF Allow
    <3>4. /\ served' \in [Servers -> [Windows -> Nat]]
          /\ \A x \in Servers, w \in Windows :
               served'[x][w] = served[x][w] + IF x = s /\ w = cw THEN 1 ELSE 0
      BY <1>2, <2>1, <3>3
    <3>5. e.count + 1 \in 0..Limit BY <1>3, <2>2
    <3> QED BY <3>1, <3>2, <3>4, <3>5
  <2>3. CASE ~(e.count < Limit)
    <3>1. entry' = [entry EXCEPT ![s] = e] /\ served' = served BY <1>1, <1>3, <2>3 DEF Allow
    <3>2. e = [windowAt |-> cw * Window, count |-> e.count + 0] BY <1>3
    <3>3. \A x \in Servers, w \in Windows :
             served'[x][w] = served[x][w] + IF x = s /\ w = cw THEN 0 ELSE 0
      BY <2>1, <3>1
    <3> QED BY <1>3, <2>1, <3>1, <3>2, <3>3
  <2> QED BY <2>2, <2>3
<1>5. entry' \in [Servers -> [windowAt : {-Window} \cup Times, count : 0..Limit]]
  BY <1>2, <1>4 DEF TypeOK
<1>6. /\ entry'[s].windowAt = cw * Window /\ entry'[s].count = e.count + n
      /\ \A x \in Servers : x # s => entry'[x] = entry[x]
  BY <1>4 DEF TypeOK
<1>7. Aligned'
  <2>1. \A x \in Servers : TimeAt(x)' = TimeAt(x) BY DEF Allow, TimeAt
  <2> QED BY <1>2, <1>6, <2>1 DEF Aligned
<1>8. Counted'
  <2>1. ASSUME NEW w \in Windows
        PROVE  /\ served'[s][w] <= Limit
               /\ w * Window = cw * Window => served'[s][w] = e.count + n
               /\ w * Window > cw * Window => served'[s][w] = 0
    <3>1. w \in Nat /\ cw \in Nat BY DivFacts DEF Windows
    <3>2. w * Window = cw * Window => w = cw
      <4>1. w < cw \/ cw < w => w * Window # cw * Window BY <3>1, MultiplesApart
      <4> QED BY <3>1, <4>1
    <3>3. served[s][w] \in Nat /\ served[s][w] <= Limit BY DEF TypeOK, Counted
    <3>4. CASE w = cw
      <4>1. served'[s][w] = e.count + n /\ e.count + n <= Limit BY <1>3, <1>4, <3>4
      <4>2. cw * Window \in Nat BY <1>2 DEF Times
      <4> QED BY <3>4, <4>1, <4>2
    <3>5. CASE w # cw
      <4>1. served'[s][w] = served[s][w] BY <1>4, <3>3, <3>5
      <4> QED BY <1>3, <3>2, <3>3, <3>5, <4>1
    <3> QED BY <3>4, <3>5
  <2>2. ASSUME NEW x \in Servers, x # s, NEW w \in Windows PROVE served'[x][w] = served[x][w]
    <3>1. served[x][w] \in Nat BY DEF TypeOK
    <3> QED BY <1>4, <2>2, <3>1
  <2> QED BY <1>6, <2>1, <2>2 DEF Counted
<1> QED BY <1>4, <1>5, <1>7, <1>8
-----------------------------------------------------------------------------
(* The Redis limiter *)

\* What overruns: stamps within the span of a request just counted are members still.
LEMMA CountSees ==
    ASSUME IInv, NEW r \in Requests, req[r].pc = "counting", NEW t \in Times,
           req[r].now \in Span(t)
    PROVE  stamps \cap Span(t) \subseteq Young(req[r].now)
<1> USE LimitAssumption DEF IInv, TypeOK, Times
<1>1. /\ req[r].now \in Times /\ clock - req[r].now <= MaxLag
  <2>1. req[r].now \in Times BY DEF InRedis, Idle
  <2>2. TimeAt(ServerOf[r]) - req[r].now <= MaxLag BY DEF Lagging, InRedis, Age
  <2> QED BY <2>1, <2>2, ClockTimes
<1> SUFFICES ASSUME NEW m \in stamps, m \in Span(t) PROVE m \in Young(req[r].now)
  OBVIOUS
<1>2. m \in Times /\ m >= t - Window + MaxLag + MaxSkew + 1 /\ req[r].now <= t BY DEF Span
<1>3. m > clock + MaxSkew - Window BY <1>1, <1>2, SkewAssumption
<1>4. m > req[r].now - Window BY <1>1, <1>2, SkewAssumption
<1> QED BY <1>3, <1>4 DEF Kept, Young

LEMMA FiniteSpans ==
    ASSUME TypeOK, NEW t
    PROVE  /\ IsFiniteSet(stamps \cap Span(t)) /\ IsFiniteSet(Adding(t))
           /\ Cardinality(stamps \cap Span(t)) \in Nat /\ Cardinality(Adding(t)) \in Nat
           /\ Cardinality(Requests) \in Nat
           /\ IsFiniteSet(members)
<1>1. IsFiniteSet(Times) BY LimitAssumption, SkewAssumption, FS_Interval DEF Times
<1>2. stamps \cap Span(t) \in SUBSET Times /\ members \in SUBSET Times BY DEF TypeOK
<1>3. Adding(t) \in SUBSET Requests BY DEF Adding
<1> QED BY <1>1, <1>2, <1>3, LimitAssumption, FS_Subset, FS_CardinalityType

\* A request prunes by a time no server is more than MaxSkew behind of.
LEMMA PruneKeeps ==
    ASSUME IInv, NEW r \in Requests, req[r].pc \in InRedis, clock' = clock,
           members' = Young(req[r].now), UNCHANGED stamps
    PROVE  Kept'
<1> USE LimitAssumption, SkewAssumption DEF IInv
<1>1. /\ req[r].now \in Times /\ 0 <= TimeAt(ServerOf[r]) - req[r].now
  BY DEF Lagging, InRedis, Age, TypeOK, Idle
<1>2. req[r].now <= clock + MaxSkew /\ clock \in Nat BY <1>1, ClockTimes DEF Times
<1>3. ASSUME NEW m \in stamps, m > clock + MaxSkew - Window PROVE m \in Young(req[r].now)
  <2>1. m \in Times /\ m \in members BY <1>3 DEF Kept, TypeOK
  <2> QED BY <1>1, <1>2, <1>3, <2>1 DEF Young, Times
<1> QED BY <1>3 DEF Kept

\* Fewer requests waiting to be added, and no new stamp.
LEMMA OverrunShrinks ==
    ASSUME IInv, UNCHANGED stamps,
           \A r \in Requests : req'[r].pc = "adding" => req'[r] = req[r]
    PROVE  Overrun'
<1> SUFFICES ASSUME NEW t \in Times
             PROVE  Cardinality(stamps \cap Span(t)) + Cardinality(Adding(t)')
                      < Limit + Cardinality(Requests)
  BY DEF Overrun, Span, Times
<1>1. Adding(t)' \in SUBSET Adding(t) BY DEF Adding, Span
<1>2. IsFiniteSet(Adding(t)) BY FiniteSpans DEF IInv
<1>3. Cardinality(Adding(t)') <= Cardinality(Adding(t)) /\ Cardinality(Adding(t)') \in Nat
  BY <1>1, <1>2, FS_Subset, FS_CardinalityType
<1>4. Cardinality(stamps \cap Span(t)) + Cardinality(Adding(t)) < Limit + Cardinality(Requests)
  BY DEF IInv, Overrun
<1> QED BY <1>3, <1>4, FiniteSpans, LimitAssumption DEF IInv

\* A request that passes the count found fewer than Limit stamps within its span.
LEMMA CountOverrun == ASSUME IInv, NEW r \in Requests, Count(r) PROVE Overrun'
<1> USE LimitAssumption DEF IInv
<1>1. CASE Cardinality(Young(req[r].now)) < Limit
  <2>1. /\ req[r].pc = "counting" /\ req[r] \in [pc : InRedis \cup {"fallback"}, now : Times]
        /\ req' = [req EXCEPT ![r].pc = "adding"] /\ UNCHANGED stamps
    BY <1>1 DEF Count, TypeOK, Idle
  <2>2. /\ req'[r].now = req[r].now
        /\ \A x \in Requests : x # r => req'[x] = req[x]
    BY <2>1 DEF TypeOK
  <2> SUFFICES ASSUME NEW t \in Times
               PROVE  Cardinality(stamps \cap Span(t)) + Cardinality(Adding(t)')
                        < Limit + Cardinality(Requests)
    BY <2>1 DEF Overrun, Span, Times
  <2>3. CASE req[r].now \in Span(t)
    <3>1. stamps \cap Span(t) \in SUBSET Young(req[r].now) BY <2>1, <2>3, CountSees
    <3>2. IsFiniteSet(Young(req[r].now)) /\ Cardinality(Young(req[r].now)) \in Nat
      <4>1. Young(req[r].now) \in SUBSET members BY DEF Young
      <4> QED BY <4>1, FiniteSpans, FS_Subset, FS_CardinalityType
    <3>3. Cardinality(stamps \cap Span(t)) < Limit
      <4>1. Cardinality(stamps \cap Span(t)) <= Cardinality(Young(req[r].now))
        BY <3>1, <3>2, FS_Subset
      <4> QED BY <1>1, <3>2, <4>1, FiniteSpans
    <3>4. Adding(t)' \in SUBSET Requests BY DEF Adding
    <3>5. Cardinality(Adding(t)') <= Cardinality(Requests) /\ Cardinality(Adding(t)') \in Nat
      BY <3>4, FS_Subset, FS_CardinalityType
    <3> QED BY <3>3, <3>5, FiniteSpans
  <2>4. CASE req[r].now \notin Span(t)
    <3>1. Adding(t)' = Adding(t) BY <2>1, <2>2, <2>4 DEF Adding, Span
    <3> QED BY <3>1 DEF Overrun
  <2> QED BY <2>3, <2>4
<1>2. CASE ~(Cardinality(Young(req[r].now)) < Limit)
  BY <1>2, OverrunShrinks DEF Count, Finish, TypeOK, Idle
<1> QED BY <1>1, <1>2

\* A request that is added was charged before.
LEMMA AddOverrun == ASSUME IInv, NEW r \in Requests, Add(r) PROVE Overrun'
<1> USE LimitAssumption DEF IInv
<1>1. PICK now \in Times : now = req[r].now BY DEF Add, TypeOK, Idle
<1>2. /\ req[r].pc = "adding" /\ stamps' = stamps \cup {now} /\ req' = [req EXCEPT ![r] = Idle]
  BY <1>1 DEF Add, Finish
<1> SUFFICES ASSUME NEW t \in Times
             PROVE  Cardinality(stamps' \cap Span(t)) + Cardinality(Adding(t)')
                      < Limit + Cardinality(Requests)
  BY DEF Overrun, Span, Times
<1>3. Cardinality(stamps \cap Span(t)) + Cardinality(Adding(t)) < Limit + Cardinality(Requests)
  BY DEF Overrun
<1>4. CASE now \in Span(t)
  <2>1. stamps' \cap Span(t) = (stamps \cap Span(t)) \cup {now} BY <1>2, <1>4
  <2>2. Cardinality(stamps' \cap Span(t)) <= Cardinality(stamps \cap Span(t)) + 1
    <3>1. PICK A : A = stamps \cap Span(t) OBVIOUS
    <3>2. IsFiniteSet(A) /\ Cardinality(A) \in Nat BY <3>1, FiniteSpans
    <3>3. Cardinality(A \cup {now}) = IF now \in A THEN Cardinality(A) ELSE Cardinality(A) + 1
      BY <3>2, FS_AddElement
    <3> QED BY <2>1, <3>1, <3>2, <3>3
  <2>3. Adding(t)' = Adding(t) \ {r} /\ r \in Adding(t)
    BY <1>1, <1>2, <1>4 DEF Adding, TypeOK, Idle, Span
  <2>4. Cardinality(Adding(t)') = Cardinality(Adding(t)) - 1
    BY <2>3, FiniteSpans, FS_RemoveElement
  <2>5. Cardinality(stamps' \cap Span(t)) \in Nat
    BY <2>1, FiniteSpans, FS_AddElement, FS_CardinalityType
  <2> QED BY <1>3, <2>2, <2>4, <2>5, FiniteSpans
<1>5. CASE now \notin Span(t)
  <2>1. stamps' \cap Span(t) = stamps \cap Span(t) BY <1>2, <1>5
  <2>2. Adding(t)' = Adding(t) BY <1>1, <1>2, <1>5 DEF Adding, TypeOK, Idle, Span
  <2> QED BY <1>3, <2>1, <2>2
<1> QED BY <1>4, <1>5
-----------------------------------------------------------------------------
LEMMA Next_IInv == IInv /\ [Next]_vars => IInv'
<1> SUFFICES ASSUME IInv, [Next]_vars PROVE IInv' OBVIOUS
<1> USE LimitAssumption DEF IInv
<1>1. CASE Tick
  <2>1. clock \in Nat /\ clock' = clock + 1 /\ clock' \in 0..MaxClock
        /\ UNCHANGED <<members, entry, req, stamps, served>>
    BY <1>1 DEF Tick, TypeOK, Times
  <2>2. TypeOK' BY <2>1 DEF TypeOK, Times, Windows, Idle, InRedis
  <2>3. Aligned'
    <3>1. \A s \in Servers : entry[s].windowAt \in Int BY DEF TypeOK, Times
    <3>2. \A s \in Servers : TimeAt(s)' = TimeAt(s) + 1 /\ TimeAt(s) \in Nat
      BY <2>1, ClockTimes DEF TimeAt
    <3>3. \A s \in Servers : entry[s].windowAt <= TimeAt(s)' BY <3>1, <3>2 DEF Aligned
    <3> QED BY <2>1, <3>3 DEF Aligned, Windows
  <2>4. Counted' BY <2>1 DEF Counted, Windows
  <2>5. Lagging'
    <3>1. \A r \in Requests : req[r].pc \in InRedis => Age(r) < MaxLag
      BY <1>1 DEF Tick
    <3>2. \A r \in Requests : req[r].pc # "idle" => Age(r) \in Int /\ Age(r)' = Age(r) + 1
      <4> SUFFICES ASSUME NEW r \in Requests, req[r].pc # "idle"
                   PROVE  Age(r) \in Int /\ Age(r)' = Age(r) + 1
        OBVIOUS
      <4>1. req[r].now \in Nat BY DEF TypeOK, Times, Idle
      <4>2. TimeAt(ServerOf[r])' = TimeAt(ServerOf[r]) + 1 /\ TimeAt(ServerOf[r]) \in Nat
        BY <2>1, ClockTimes DEF TimeAt
      <4> QED BY <2>1, <4>1, <4>2 DEF Age
    <3>3. \A r \in Requests : req[r].pc \in InRedis => req[r].pc # "idle" BY DEF InRedis
    <3> QED BY <2>1, <3>1, <3>2, <3>3 DEF Lagging, InRedis
  <2>6. Kept' BY <2>1, SkewAssumption DEF Kept, TypeOK, Times
  <2>7. Overrun' BY <2>1, OverrunShrinks
  <2> QED BY <2>2, <2>3, <2>4, <2>5, <2>6, <2>7
<1>2. ASSUME UNCHANGED <<clock, entry, served>> PROVE Aligned' /\ Counted'
  BY <1>2 DEF Aligned, Counted, Windows, TimeAt
<1>3. ASSUME NEW r \in Requests, Arrive(r) PROVE IInv'
  <2> DEFINE now == TimeAt(ServerOf[r])
  <2>0. now \in Times /\ now \in Nat BY ClockTimes
  <2>1. /\ req' = [req EXCEPT ![r] = [pc |-> "counting", now |-> now]]
        /\ UNCHANGED <<clock, members, entry, stamps, served>>
        /\ now' = now
    BY <1>3 DEF Arrive, TimeAt
  <2> HIDE DEF now
  <2>2. TypeOK'
    <3>1. [pc |-> "counting", now |-> now] \in [pc : InRedis \cup {"fallback"}, now : Times]
      BY <2>0 DEF InRedis
    <3> QED BY <2>1, <3>1 DEF TypeOK, Times, Windows
  <2>3. Lagging'
    <3>1. req'[r] = [pc |-> "counting", now |-> now]
          /\ \A x \in Requests : x # r => req'[x] = req[x]
      BY <2>1 DEF TypeOK
    <3>2. Age(r)' = 0 BY <2>0, <2>1, <3>1 DEF Age, now
    <3>3. \A x \in Requests : x # r => Age(x)' = Age(x) BY <2>1, <3>1 DEF Age, TimeAt
    <3> QED BY <3>1, <3>2, <3>3 DEF Lagging
  <2>4. Kept' BY <2>1 DEF Kept
  <2>5. Overrun' BY <2>1, OverrunShrinks DEF TypeOK
  <2> QED BY <1>2, <2>1, <2>2, <2>3, <2>4, <2>5
<1>4. ASSUME NEW r \in Requests, Count(r) PROVE IInv'
  <2>1. /\ req[r] \in [pc : InRedis \cup {"fallback"}, now : Times] /\ req[r].pc = "counting"
        /\ req' \in {[req EXCEPT ![r] = Idle], [req EXCEPT ![r].pc = "adding"]}
        /\ members' = Young(req[r].now)
        /\ UNCHANGED <<clock, entry, stamps, served>>
    BY <1>4 DEF Count, Finish, TypeOK, Idle
  <2>2. /\ req' \in [Requests -> {Idle} \cup [pc : InRedis \cup {"fallback"}, now : Times]]
        /\ \A x \in Requests : x # r => req'[x] = req[x]
        /\ req'[r] = Idle \/ (req'[r].pc = "adding" /\ req'[r].now = req[r].now)
    <3>1. CASE req' = [req EXCEPT ![r] = Idle] BY <3>1 DEF TypeOK
    <3>2. CASE req' = [req EXCEPT ![r].pc = "adding"] BY <2>1, <3>2 DEF TypeOK, InRedis
    <3> QED BY <2>1, <3>1, <3>2
  <2>3. TypeOK' BY <2>1, <2>2 DEF TypeOK, Times, Windows, Young
  <2>5. Lagging' BY <2>1, <2>2 DEF Lagging, InRedis, Idle, Age, TimeAt
  <2>4. Kept' BY <2>1, PruneKeeps DEF InRedis
  <2> QED BY <1>2, <1>4, <2>1, <2>3, <2>4, <2>5, CountOverrun
<1>5. ASSUME NEW r \in Requests, Add(r) PROVE IInv'
  <2>1. /\ req[r] \in [pc : InRedis \cup {"fallback"}, now : Times]
        /\ req' = [req EXCEPT ![r] = Idle]
        /\ members' = members \cup {req[r].now} /\ stamps' = stamps \cup {req[r].now}
        /\ UNCHANGED <<clock, entry, served>>
    BY <1>5 DEF Add, Finish, TypeOK, Idle
  <2>2. TypeOK' BY <2>1 DEF TypeOK, InRedis, Times, Windows, Idle
  <2>3. Lagging' BY <2>1 DEF Lagging, TypeOK, InRedis, Idle, Age, TimeAt
  <2>4. Kept' BY <2>1 DEF Kept
  <2> QED BY <1>2, <1>5, <2>1, <2>2, <2>3, <2>4, AddOverrun
<1>6. ASSUME NEW r \in Requests, Fail(r) PROVE IInv'
  <2>1. /\ req[r] \in [pc : InRedis \cup {"fallback"}, now : Times] /\ req[r].pc \in InRedis
        /\ req' = [req EXCEPT ![r].pc = "fallback"]
        /\ members' \in {members, members \cup {req[r].now}, Young(req[r].now)}
        /\ UNCHANGED <<clock, entry, stamps, served>>
    BY <1>6 DEF Fail, FallBack, TypeOK, Idle, InRedis
  <2>2. TypeOK' BY <2>1 DEF TypeOK, InRedis, Times, Windows, Idle, Young
  <2>3. Lagging' BY <2>1 DEF Lagging, TypeOK, InRedis, Idle, Age, TimeAt
  <2>4. Kept' BY <2>1, PruneKeeps DEF Kept
  <2>5. Overrun' BY <2>1, OverrunShrinks DEF TypeOK
  <2> QED BY <1>2, <2>1, <2>2, <2>3, <2>4, <2>5
<1>7. ASSUME NEW r \in Requests, Allow(r) PROVE IInv'
  <2>1. req' = [req EXCEPT ![r] = Idle] /\ UNCHANGED <<clock, members, stamps>>
    BY <1>7 DEF Allow, Finish
  <2>2. TypeOK' BY <1>7, <2>1, AllowKeeps DEF TypeOK, InRedis, Times, Windows, Idle
  <2>3. Lagging' BY <2>1 DEF Lagging, TypeOK, InRedis, Idle, Age, TimeAt
  <2>4. Kept' BY <2>1 DEF Kept
  <2>5. Overrun' BY <2>1, OverrunShrinks DEF TypeOK, Idle
  <2> QED BY <1>7, <2>2, <2>3, <2>4, <2>5, AllowKeeps
<1>8. CASE UNCHANGED vars
  BY <1>8 DEF vars, TypeOK, Aligned, Counted, Lagging, Kept, Overrun, Adding, Span, Windows, Times,
     InRedis, Idle, Age, TimeAt
<1> QED BY <1>1, <1>3, <1>4, <1>5, <1>6, <1>7, <1>8 DEF Next

\* The limiter's own invariant, Redis and fallback together.
THEOREM Invariance == Spec => []IInv
BY Init_IInv, Next_IInv, PTL DEF Spec

\* No fallback's count exceeds the limit, and its window is one of the clock's.
THEOREM TypeCorrect == Spec => []TypeOK
BY Invariance, PTL DEF IInv

\* A process that counts for itself never exceeds the limit in a window of its clock.
THEOREM FallbackCapped == Spec => []FallbackLimit
<1>1. IInv => FallbackLimit BY DEF IInv, Counted, FallbackLimit
<1> QED BY <1>1, Invariance, PTL

\* Redis lets requests overrun the limit by less than there are requests, within a window
\* shortened by lag and skew.
THEOREM OverrunCapped == Spec => []OverrunBounded
<1>1. ASSUME IInv PROVE OverrunBounded
  <2> SUFFICES ASSUME NEW t \in Times
               PROVE  Cardinality(stamps \cap Span(t)) < Limit + Cardinality(Requests)
    BY DEF OverrunBounded, Span
  <2>1. Cardinality(stamps \cap Span(t)) + Cardinality(Adding(t)) < Limit + Cardinality(Requests)
    BY <1>1 DEF IInv, Overrun
  <2> QED BY <1>1, <2>1, FiniteSpans, LimitAssumption DEF IInv
<1> QED BY <1>1, Invariance, PTL
=============================================================================
