------------------------- MODULE SMSProtectionProofs -------------------------
(***************************************************************************)
(* The limits on SMS for any limits, spans, lag and number of checks.      *)
(* Checks are decided in another order than they are stamped, so a list of *)
(* times need not be sorted, and what a later check prunes may matter to   *)
(* one stamped before it.  Holds relates a list to the SMS it must still   *)
(* know, one place for each; the limits follow because whatever counts in  *)
(* the shortened hour of a check has a place in the list it looks at.      *)
(***************************************************************************)
EXTENDS SMSProtection, FiniteSetTheorems, SequenceTheorems, TLAPS

-----------------------------------------------------------------------------
(* SlidingWindow *)

LEMMA UpTo == \A n \in Nat : IsFiniteSet(1..n) /\ Cardinality(1..n) = n
<1> SUFFICES ASSUME NEW n \in Nat PROVE IsFiniteSet(1..n) /\ Cardinality(1..n) = n OBVIOUS
<1>1. IsFiniteSet(1..n) /\ Cardinality(1..n) = IF 1 > n THEN 0 ELSE n - 1 + 1 BY FS_Interval
<1> QED BY <1>1

\* What is outdated is a prefix.
LEMMA OutdatedPrefix ==
    ASSUME NEW times \in Seq(Int), NEW now \in Int, NEW window \in Int
    PROVE  \E k \in 0..Len(times) :
             /\ Cardinality(Outdated(times, now, window)) = k
             /\ Outdated(times, now, window) = 1..k
<1> DEFINE O == Outdated(times, now, window)
<1>1. O \in SUBSET (1..Len(times)) /\ \A i \in O : 1..i \subseteq O
  BY DEF Outdated
<1> HIDE DEF O
<1>2. IsFiniteSet(1..Len(times)) BY LenProperties, UpTo
<1>3. IsFiniteSet(O) BY <1>1, <1>2, FS_Subset
<1>4. PICK k \in Nat : k = Cardinality(O) BY <1>3, FS_CardinalityType
<1>5. k <= Len(times)
  <2>1. k <= Cardinality(1..Len(times)) BY <1>1, <1>2, <1>4, FS_Subset
  <2>2. Len(times) \in Nat /\ Cardinality(1..Len(times)) = Len(times) BY LenProperties, UpTo
  <2> QED BY <2>1, <2>2
<1>6. ASSUME NEW i \in O PROVE i \in 1..k
  <2>1. i \in Nat /\ 1 <= i /\ 1..i \in SUBSET O BY <1>1
  <2>2. Cardinality(1..i) <= k BY <1>3, <1>4, <2>1, FS_Subset
  <2>3. Cardinality(1..i) = i BY <2>1, UpTo
  <2> QED BY <2>1, <2>2, <2>3
<1>7. O = 1..k
  <2>1. IsFiniteSet(1..k) /\ Cardinality(1..k) = k BY UpTo
  <2>2. O \in SUBSET (1..k) BY <1>6
  <2> QED BY <1>4, <2>1, <2>2, FS_Subset
<1> QED BY <1>4, <1>5, <1>7 DEF O

\* PruneOld drops a prefix of times that are too old, and stops at one that is not.
LEMMA Pruning ==
    ASSUME NEW S \in SUBSET Int, NEW times \in Seq(S), NEW now \in Int, NEW window \in Int
    PROVE  \E k \in 0..Len(times) :
             /\ PruneOld(times, now, window) \in Seq(S)
             /\ Len(PruneOld(times, now, window)) = Len(times) - k
             /\ \A i \in 1..(Len(times) - k) : PruneOld(times, now, window)[i] = times[i + k]
             /\ \A i \in 1..k : times[i] < now - window
             /\ k < Len(times) => times[k + 1] >= now - window
<1>1. times \in Seq(Int) BY SeqMonotonic
<1>2. PICK k \in 0..Len(times) : /\ Cardinality(Outdated(times, now, window)) = k
                                 /\ Outdated(times, now, window) = 1..k
  BY <1>1, OutdatedPrefix
<1> DEFINE p == PruneOld(times, now, window)
<1>3. p = SubSeq(times, k + 1, Len(times)) BY <1>2 DEF PruneOld
<1> HIDE DEF p
<1>4. Len(times) \in Nat /\ \A i \in 1..Len(times) : times[i] \in S BY ElementOfSeq, LenProperties
<1>5. /\ p \in Seq(S)
      /\ Len(p) = Len(times) - k
      /\ \A i \in 1..(Len(times) - k) : p[i] = times[i + k]
  <2>1. k + 1 \in Int /\ Len(times) \in Int /\ \A i \in (k + 1)..Len(times) : times[i] \in S
    BY <1>4
  <2> QED BY <1>3, <1>4, <2>1, SubSeqProperties
<1>6. \A i \in 1..k : times[i] < now - window
  <2>1. \A i \in 1..k : i \in Outdated(times, now, window) BY <1>2
  <2> QED BY <2>1 DEF Outdated
<1>7. ASSUME k < Len(times) PROVE times[k + 1] >= now - window
  <2>1. k + 1 \notin Outdated(times, now, window) /\ k + 1 \in DOMAIN times BY <1>2, <1>4, <1>7
  <2>2. PICK j \in 1..(k + 1) : ~(times[j] < now - window) BY <2>1 DEF Outdated
  <2>3. j = k + 1 BY <1>2, <1>6, <2>2
  <2>4. times[k + 1] \in Int
    <3>1. k + 1 \in 1..Len(times) BY <1>4, <1>7
    <3> QED BY <1>4, <3>1
  <2> QED BY <2>2, <2>3, <2>4
<1> QED BY <1>5, <1>6, <1>7 DEF p
-----------------------------------------------------------------------------
(* A list of times and the SMS it must know *)

Since(S, since) == {s \in S : s.at >= since}

\* The list has a place of its own for each SMS of S since that time.
Holds(times, S, since) ==
    \E f \in [Since(S, since) -> 1..Len(times)] :
        /\ \A s \in Since(S, since) : times[f[s]] = s.at
        /\ \A s, t \in Since(S, since) : f[s] = f[t] => s = t

Stamped(S) == \A s \in S : s.at \in Times

LEMMA HoldsLater ==
    ASSUME NEW times, NEW S, Stamped(S), NEW c \in Int, NEW d \in Int, c <= d, Holds(times, S, c)
    PROVE  Holds(times, S, d)
<1>1. PICK f \in [Since(S, c) -> 1..Len(times)] :
        /\ \A s \in Since(S, c) : times[f[s]] = s.at
        /\ \A s, t \in Since(S, c) : f[s] = f[t] => s = t
  BY DEF Holds
<1>2. Since(S, d) \subseteq Since(S, c) BY DEF Since, Stamped, Times
<1> DEFINE g == [s \in Since(S, d) |-> f[s]]
<1>3. /\ g \in [Since(S, d) -> 1..Len(times)]
      /\ \A s \in Since(S, d) : times[g[s]] = s.at
      /\ \A s, t \in Since(S, d) : g[s] = g[t] => s = t
  BY <1>1, <1>2
<1> QED BY <1>3 DEF Holds

\* A check that prunes is stamped now at the latest, so it drops none of them.
LEMMA HoldsPruned ==
    ASSUME NEW times \in Seq(Times), NEW S, Stamped(S), NEW now \in Int, NEW c \in Int,
           now - Hour <= c, Holds(times, S, c)
    PROVE  Holds(PruneOld(times, now, Hour), S, c)
<1>1. Hour \in Int /\ Times \in SUBSET Int BY TimeAssumption DEF Times
<1> DEFINE p == PruneOld(times, now, Hour)
<1>2. PICK k \in 0..Len(times) :
        /\ Len(p) = Len(times) - k
        /\ \A i \in 1..(Len(times) - k) : p[i] = times[i + k]
        /\ \A i \in 1..k : times[i] < now - Hour
  BY <1>1, Pruning
<1> HIDE DEF p
<1>3. PICK f \in [Since(S, c) -> 1..Len(times)] :
        /\ \A s \in Since(S, c) : times[f[s]] = s.at
        /\ \A s, t \in Since(S, c) : f[s] = f[t] => s = t
  BY DEF Holds
<1>4. Len(times) \in Nat BY LenProperties
<1>5. ASSUME NEW s \in Since(S, c) PROVE f[s] - k \in 1..Len(p) /\ p[f[s] - k] = s.at
  <2>1. f[s] \in 1..Len(times) /\ s.at >= c /\ s.at \in Int
    BY <1>1, <1>3 DEF Since, Stamped, Times
  <2>2. ~(f[s] \in 1..k) BY <1>1, <1>2, <1>3, <2>1
  <2>3. f[s] - k \in 1..(Len(times) - k) /\ (f[s] - k) + k = f[s] BY <1>4, <2>1, <2>2
  <2> QED BY <1>2, <1>3, <2>3
<1> DEFINE g == [s \in Since(S, c) |-> f[s] - k]
<1>6. \A s, t \in Since(S, c) : f[s] - k = f[t] - k => s = t
  <2>1. \A s \in Since(S, c) : f[s] \in Int BY <1>3
  <2> QED BY <1>3, <2>1
<1>7. /\ g \in [Since(S, c) -> 1..Len(p)]
      /\ \A s \in Since(S, c) : p[g[s]] = s.at
      /\ \A s, t \in Since(S, c) : g[s] = g[t] => s = t
  BY <1>5, <1>6
<1> QED BY <1>7 DEF Holds, p

LEMMA HoldsAppended ==
    ASSUME NEW times \in Seq(Times), NEW S, NEW s, s.at \in Times, NEW c, Holds(times, S, c)
    PROVE  Holds(Append(times, s.at), S \cup {s}, c)
<1>1. PICK f \in [Since(S, c) -> 1..Len(times)] :
        /\ \A t \in Since(S, c) : times[f[t]] = t.at
        /\ \A t, u \in Since(S, c) : f[t] = f[u] => t = u
  BY DEF Holds
<1>2. PICK n \in Nat : n = Len(times) BY LenProperties
<1> DEFINE q == Append(times, s.at)
<1>3. Len(q) = n + 1 /\ q[n + 1] = s.at /\ \A i \in 1..n : q[i] = times[i]
  BY <1>2, AppendProperties
<1> HIDE DEF q
<1> DEFINE T == Since(S \cup {s}, c)
           g == [t \in T |-> IF t \in Since(S, c) THEN f[t] ELSE n + 1]
<1>4. \A t \in T : t \in Since(S, c) \/ t = s BY DEF Since
<1>5. /\ g \in [T -> 1..Len(q)]
      /\ \A t \in T : q[g[t]] = t.at
      /\ \A t, u \in T : g[t] = g[u] => t = u
  <2>1. \A t \in Since(S, c) : f[t] \in 1..n /\ f[t] # n + 1 /\ f[t] \in 1..(n + 1)
    BY <1>1, <1>2
  <2> HIDE DEF T
  <2> QED BY <1>1, <1>3, <1>4, <2>1
<1> QED BY <1>5 DEF Holds, q

\* Of SMS that the list holds, there are no more than it has places.
LEMMA HoldsBound ==
    ASSUME NEW times \in Seq(Times), NEW S, NEW c, Holds(times, S, c), NEW T \in SUBSET Since(S, c)
    PROVE  IsFiniteSet(T) /\ Cardinality(T) \in Nat /\ Cardinality(T) <= Len(times)
<1>1. PICK f \in [Since(S, c) -> 1..Len(times)] :
        \A s, t \in Since(S, c) : f[s] = f[t] => s = t
  BY DEF Holds
<1> DEFINE g == [s \in T |-> f[s]]
<1>2. g \in Injection(T, 1..Len(times)) BY <1>1 DEF Injection, IsInjective
<1> HIDE DEF g
<1>3. Len(times) \in Nat BY LenProperties
<1>4. IsFiniteSet(1..Len(times)) /\ Cardinality(1..Len(times)) = Len(times) BY <1>3, UpTo
<1>5. IsFiniteSet(T) /\ Cardinality(T) <= Cardinality(1..Len(times)) BY <1>2, <1>4, FS_Injection
<1> QED BY <1>4, <1>5, FS_CardinalityType

\* In no hour, shortened by the longest wait, were more than limit of them sent.
Capped(S, limit) == \A e \in Times :
    LET R == {s \in S : s.at \in (e - (Hour - MaxLag))..e} IN
    IsFiniteSet(R) /\ Cardinality(R) <= limit

\* What is known of a key: its list, the SMS sent for it, and the time.
Known(times, S, limit, now) ==
    /\ times \in Seq(Times) /\ Len(times) <= limit
    /\ Holds(times, S, now - Hour)
    /\ Capped(S, limit)

LEMMA KnownPruned ==
    ASSUME NEW times, NEW S, Stamped(S), NEW limit \in Nat, NEW c \in Times, NEW at \in Times,
           at <= c, Known(times, S, limit, c)
    PROVE  Known(PruneOld(times, at, Hour), S, limit, c)
<1>1. Hour \in Int /\ Times \in SUBSET Int /\ c - Hour \in Int /\ at - Hour <= c - Hour
  BY TimeAssumption DEF Times
<1>2. times \in Seq(Times) BY DEF Known
<1>3. PruneOld(times, at, Hour) \in Seq(Times) /\ Len(PruneOld(times, at, Hour)) <= Len(times)
  <2>1. Len(times) \in Nat BY <1>2, LenProperties
  <2>2. \E k \in 0..Len(times) : /\ PruneOld(times, at, Hour) \in Seq(Times)
                                 /\ Len(PruneOld(times, at, Hour)) = Len(times) - k
    BY <1>1, <1>2, Pruning
  <2> QED BY <2>1, <2>2
<1>4. Holds(PruneOld(times, at, Hour), S, c - Hour)
  BY <1>1, <1>2, HoldsPruned DEF Known
<1>5. Len(times) \in Nat /\ Len(PruneOld(times, at, Hour)) \in Nat BY <1>2, <1>3, LenProperties
<1> QED BY <1>3, <1>4, <1>5 DEF Known

LEMMA KnownLater ==
    ASSUME NEW times, NEW S, Stamped(S), NEW limit, NEW c \in Times, NEW d \in Times, c <= d,
           Known(times, S, limit, c)
    PROVE  Known(times, S, limit, d)
<1>1. c - Hour \in Int /\ d - Hour \in Int /\ c - Hour <= d - Hour BY TimeAssumption DEF Times
<1> QED BY <1>1, HoldsLater DEF Known

\* A list with room takes one more, and the limit still holds around it.
LEMMA KnownAppended ==
    ASSUME NEW times, NEW S, Stamped(S), NEW limit \in Nat, NEW c \in Times, NEW s, s.at \in Times,
           s.at <= c, c - s.at <= MaxLag, Known(times, S, limit, c), Len(times) < limit
    PROVE  Known(Append(times, s.at), S \cup {s}, limit, c)
<1>1. times \in Seq(Times) BY DEF Known
<1>2. Len(times) \in Nat BY <1>1, LenProperties
<1>3. Append(times, s.at) \in Seq(Times) /\ Len(Append(times, s.at)) <= limit
  BY <1>1, <1>2, AppendProperties
<1>4. Holds(Append(times, s.at), S \cup {s}, c - Hour)
  BY <1>1, HoldsAppended DEF Known
<1>5. Capped(S \cup {s}, limit)
  <2> SUFFICES ASSUME NEW e \in Times
               PROVE  LET R == {t \in S \cup {s} : t.at \in (e - (Hour - MaxLag))..e} IN
                      IsFiniteSet(R) /\ Cardinality(R) <= limit
    BY DEF Capped
  <2> DEFINE R == {t \in S : t.at \in (e - (Hour - MaxLag))..e}
             R1 == {t \in S \cup {s} : t.at \in (e - (Hour - MaxLag))..e}
  <2>1. IsFiniteSet(R) /\ Cardinality(R) <= limit BY DEF Known, Capped
  <2>2. CASE s.at \in (e - (Hour - MaxLag))..e
    <3>1. R \in SUBSET Since(S, c - Hour)
      <4> SUFFICES ASSUME NEW t \in R PROVE t.at >= c - Hour BY DEF Since
      <4>1. t.at \in Int /\ t.at >= e - (Hour - MaxLag) /\ s.at <= e
        BY <2>2 DEF Stamped, Times
      <4> QED BY <4>1, TimeAssumption DEF Times
    <3>2. Cardinality(R) \in Nat /\ Cardinality(R) < limit
      <4>1. Cardinality(R) \in Nat /\ Cardinality(R) <= Len(times)
        BY <1>1, <3>1, HoldsBound DEF Known
      <4> QED BY <1>2, <4>1
    <3>3. R1 = R \cup {s} BY <2>2
    <3> HIDE DEF R, R1
    <3>4. /\ IsFiniteSet(R \cup {s})
          /\ Cardinality(R \cup {s}) = IF s \in R THEN Cardinality(R) ELSE Cardinality(R) + 1
      BY <2>1, FS_AddElement
    <3>5. IsFiniteSet(R1) /\ Cardinality(R1) <= limit BY <3>2, <3>3, <3>4
    <3> QED BY <3>5 DEF R1
  <2>3. CASE s.at \notin (e - (Hour - MaxLag))..e
    <3>1. R1 = R BY <2>3
    <3> QED BY <2>1, <3>1
  <2> QED BY <2>2, <2>3
<1> QED BY <1>3, <1>4, <1>5 DEF Known
-----------------------------------------------------------------------------
(* The inductive invariant *)

ByPhone(p) == {s \in sent : s.phone = p}
ByIP(ip)   == {s \in sent : s.ip = ip}
ByFP(fp)   == {s \in sent : s.fp = fp}

Lists ==
    /\ phoneCounters \in [Phones -> Seq(Times)]
    /\ ipCounters \in [IPs -> Seq(Times)]
    /\ fpCounters \in [Fingerprints -> Seq(Times)]

\* What limits SMS knows of every phone, IP and fingerprint.
KeysKnown ==
    /\ \A p \in Phones : Known(phoneCounters[p], ByPhone(p), PhoneLimit, clock)
    /\ \A ip \in IPs : Known(ipCounters[ip], ByIP(ip), IPLimit, clock)
    /\ \A fp \in Fingerprints \ {Missing} : Known(fpCounters[fp], ByFP(fp), FPLimit, clock)

\* A check that waits for the mutex was stamped at most MaxLag ago.
Waiting == \A c \in Checks : check[c].pc = "waiting" =>
    check[c].ask.at <= clock /\ clock - check[c].ask.at <= MaxLag

\* The last time in a phone's list is the latest of what was sent to it.
Recorded(times, at, since) ==
    \/ times # <<>> /\ at <= times[Len(times)]
    \/ at < since

LastKnown == \A s \in sent : Recorded(phoneCounters[s.phone], s.at, clock - Hour)

\* An app's cents are its charges of the day they are dated; it has none of a later day.
Charged == \A app \in Apps :
    /\ tenantCosts[app].day <= Today
    /\ \A d \in Days : /\ d = tenantCosts[app].day => charges[app][d] = tenantCosts[app].cents
                       /\ d > tenantCosts[app].day => charges[app][d] = 0

IInv == TypeOK /\ Lists /\ KeysKnown /\ Waiting /\ LastKnown /\ PhoneGap /\ Charged

LEMMA Constants ==
    /\ Hour \in Nat /\ Gap \in Nat \ {0} /\ MaxLag \in Nat /\ Gap + MaxLag < Hour
    /\ Second \in Nat \ {0} /\ Day \in Nat \ {0} /\ MaxClock \in Nat
    /\ PhoneLimit \in Nat \ {0} /\ IPLimit \in Nat \ {0} /\ FPLimit \in Nat \ {0}
    /\ Times \subseteq Nat /\ Times \in SUBSET Int
BY TimeAssumption, LimitAssumption DEF Times

LEMMA DivFacts ==
    ASSUME NEW n \in Nat, NEW d \in Nat \ {0}
    PROVE  n \div d \in Nat /\ n < (n \div d) * d + d
OBVIOUS

LEMMA DivOrder ==
    ASSUME NEW n \in Nat, NEW m \in Nat, n <= m, NEW d \in Nat \ {0}
    PROVE  n \div d <= m \div d
OBVIOUS

LEMMA TodayIsADay == ASSUME clock \in Times PROVE Today \in Days
<1>1. clock \in Nat /\ MaxClock \in Nat /\ clock <= MaxClock /\ Day \in Nat \ {0}
  BY Constants DEF Times
<1>2. Today \in Nat /\ Today <= MaxClock \div Day BY <1>1, DivFacts, DivOrder DEF Today
<1>3. MaxClock \div Day \in Nat BY <1>1, DivFacts
<1> QED BY <1>2, <1>3 DEF Days

LEMMA Init_IInv == Init => IInv
<1> SUFFICES ASSUME Init PROVE IInv OBVIOUS
<1> USE Constants DEF Init
<1>1. \A T : <<>> \in Seq(T) /\ Len(<<>>) = 0 BY EmptySeq
<1>2. TypeOK /\ Lists BY <1>1 DEF TypeOK, Lists, NoCost, Days, Times
<1>3. ASSUME NEW limit \in Nat, NEW c PROVE Known(<<>>, {}, limit, c)
  <2>1. IsFiniteSet({}) /\ Cardinality({}) = 0 BY FS_EmptySet
  <2>2. Capped({}, limit) BY <2>1 DEF Capped
  <2>3. Holds(<<>>, {}, c - Hour)
    <3> DEFINE f == [s \in {} |-> 0]
    <3>1. Since({}, c - Hour) = {} BY DEF Since
    <3>2. f \in [{} -> 1..Len(<<>>)] OBVIOUS
    <3> QED BY <3>1, <3>2 DEF Holds
  <2> QED BY <1>1, <2>2, <2>3 DEF Known
<1>4. KeysKnown BY <1>3 DEF KeysKnown, ByPhone, ByIP, ByFP
<1>5. Waiting /\ LastKnown /\ PhoneGap BY DEF Waiting, Idle, LastKnown, PhoneGap
<1>6. Charged
  <2>1. Today \in Nat BY DivFacts DEF Today
  <2> QED BY <2>1 DEF Charged, NoCost, Days
<1> QED BY <1>2, <1>4, <1>5, <1>6 DEF IInv
-----------------------------------------------------------------------------
(* Lists under a check *)

\* Pruning keeps the last time, or everything was before the hour.
LEMMA RecordedPruned ==
    ASSUME NEW times \in Seq(Times), NEW now \in Times, NEW c \in Times, now <= c,
           NEW at \in Times, Recorded(times, at, c - Hour)
    PROVE  Recorded(PruneOld(times, now, Hour), at, c - Hour)
<1>0. Times \in SUBSET Int /\ now \in Int /\ Hour \in Int BY Constants
<1> DEFINE p == PruneOld(times, now, Hour)
<1>1. PICK k \in 0..Len(times) :
        /\ p \in Seq(Times) /\ Len(p) = Len(times) - k
        /\ \A i \in 1..(Len(times) - k) : p[i] = times[i + k]
        /\ \A i \in 1..k : times[i] < now - Hour
  BY <1>0, Pruning
<1> HIDE DEF p
<1>2. Len(times) \in Nat /\ \A i \in 1..Len(times) : times[i] \in Times
  BY LenProperties, ElementOfSeq
<1>3. CASE times # <<>> /\ at <= times[Len(times)]
  <2>1. Len(times) \in 1..Len(times) BY <1>2, <1>3, EmptySeq
  <2>2. CASE k = Len(times)
    <3>1. times[Len(times)] < now - Hour /\ times[Len(times)] \in Times BY <1>1, <1>2, <2>1, <2>2
    <3> QED BY <1>3, <3>1, Constants DEF Recorded, Times
  <2>3. CASE k # Len(times)
    <3>1. Len(times) - k \in 1..(Len(times) - k) BY <1>1, <1>2, <2>3
    <3>2. p[Len(p)] = times[Len(times)]
      <4>1. p[Len(times) - k] = times[(Len(times) - k) + k] BY <1>1, <3>1
      <4>2. (Len(times) - k) + k = Len(times) BY <1>2
      <4> QED BY <1>1, <4>1, <4>2
    <3>3. p # <<>> BY <1>1, <3>1, EmptySeq
    <3> QED BY <1>3, <3>2, <3>3 DEF Recorded, p
  <2> QED BY <2>2, <2>3
<1>4. CASE at < c - Hour BY <1>4 DEF Recorded
<1> QED BY <1>3, <1>4 DEF Recorded

\* Whatever a check prunes, and nothing else of the state, the lists stay known.
LEMMA ListsPruned ==
    ASSUME IInv, NEW at \in Times, at <= clock, UNCHANGED <<clock, sent>>,
           phoneCounters' \in [Phones -> Seq(Times)], ipCounters' \in [IPs -> Seq(Times)],
           fpCounters' \in [Fingerprints -> Seq(Times)],
           \A p \in Phones :
              phoneCounters'[p] \in {phoneCounters[p], PruneOld(phoneCounters[p], at, Hour)},
           \A ip \in IPs : ipCounters'[ip] \in {ipCounters[ip], PruneOld(ipCounters[ip], at, Hour)},
           \A fp \in Fingerprints :
              fpCounters'[fp] \in {fpCounters[fp], PruneOld(fpCounters[fp], at, Hour)}
    PROVE  Lists' /\ KeysKnown' /\ LastKnown' /\ PhoneGap'
<1> USE DEF IInv
<1>1. Stamped(sent) /\ clock \in Times BY DEF TypeOK, Asks, Stamped
<1>2. \A p \in Phones : Known(phoneCounters'[p], ByPhone(p), PhoneLimit, clock)
  <2> SUFFICES ASSUME NEW p \in Phones
               PROVE  Known(phoneCounters'[p], ByPhone(p), PhoneLimit, clock)
    OBVIOUS
  <2>1. Stamped(ByPhone(p)) /\ Known(phoneCounters[p], ByPhone(p), PhoneLimit, clock)
    BY <1>1 DEF KeysKnown, Stamped, ByPhone
  <2>2. Known(PruneOld(phoneCounters[p], at, Hour), ByPhone(p), PhoneLimit, clock)
    BY <1>1, <2>1, KnownPruned, Constants
  <2> QED BY <2>1, <2>2
<1>3. \A ip \in IPs : Known(ipCounters'[ip], ByIP(ip), IPLimit, clock)
  <2> SUFFICES ASSUME NEW ip \in IPs PROVE Known(ipCounters'[ip], ByIP(ip), IPLimit, clock)
    OBVIOUS
  <2>1. Stamped(ByIP(ip)) /\ Known(ipCounters[ip], ByIP(ip), IPLimit, clock)
    BY <1>1 DEF KeysKnown, Stamped, ByIP
  <2>2. Known(PruneOld(ipCounters[ip], at, Hour), ByIP(ip), IPLimit, clock)
    BY <1>1, <2>1, KnownPruned, Constants
  <2> QED BY <2>1, <2>2
<1>4. \A fp \in Fingerprints \ {Missing} : Known(fpCounters'[fp], ByFP(fp), FPLimit, clock)
  <2> SUFFICES ASSUME NEW fp \in Fingerprints \ {Missing}
               PROVE  Known(fpCounters'[fp], ByFP(fp), FPLimit, clock)
    OBVIOUS
  <2>1. Stamped(ByFP(fp)) /\ Known(fpCounters[fp], ByFP(fp), FPLimit, clock)
    BY <1>1 DEF KeysKnown, Stamped, ByFP
  <2>2. Known(PruneOld(fpCounters[fp], at, Hour), ByFP(fp), FPLimit, clock)
    BY <1>1, <2>1, KnownPruned, Constants
  <2> QED BY <2>1, <2>2
<1>5. KeysKnown' BY <1>2, <1>3, <1>4 DEF KeysKnown, ByPhone, ByIP, ByFP
<1>6. LastKnown'
  <2> SUFFICES ASSUME NEW s \in sent
               PROVE  Recorded(phoneCounters'[s.phone], s.at, clock - Hour)
    BY DEF LastKnown
  <2>1. s.phone \in Phones /\ s.at \in Times BY DEF TypeOK, Asks
  <2>2. Recorded(phoneCounters[s.phone], s.at, clock - Hour) BY DEF LastKnown
  <2>3. phoneCounters[s.phone] \in Seq(Times) BY <2>1 DEF Lists
  <2>4. Recorded(PruneOld(phoneCounters[s.phone], at, Hour), s.at, clock - Hour)
    BY <1>1, <2>1, <2>2, <2>3, RecordedPruned
  <2> QED BY <2>1, <2>2, <2>4
<1>7. PhoneGap' BY DEF PhoneGap
<1> QED BY <1>5, <1>6, <1>7 DEF Lists

LEMMA PrunedList ==
    ASSUME NEW times \in Seq(Times), NEW now \in Int
    PROVE  /\ PruneOld(times, now, Hour) \in Seq(Times)
           /\ Len(PruneOld(times, now, Hour)) \in Nat
           /\ Len(PruneOld(times, now, Hour)) <= Len(times)
           /\ Len(PruneOld(times, now, Hour)) > 0 =>
                /\ PruneOld(times, now, Hour)[1] \in Times
                /\ PruneOld(times, now, Hour)[1] >= now - Hour
           /\ PruneOld(times, now, Hour) # <<>> =>
                PruneOld(times, now, Hour)[Len(PruneOld(times, now, Hour))] \in Times
<1>0. Times \in SUBSET Int /\ Hour \in Int BY Constants
<1> DEFINE p == PruneOld(times, now, Hour)
<1>1. PICK k \in 0..Len(times) :
        /\ p \in Seq(Times) /\ Len(p) = Len(times) - k
        /\ \A i \in 1..(Len(times) - k) : p[i] = times[i + k]
        /\ k < Len(times) => times[k + 1] >= now - Hour
  BY <1>0, Pruning
<1> HIDE DEF p
<1>2. Len(times) \in Nat /\ Len(p) \in Nat BY <1>1, LenProperties
<1>3. ASSUME Len(p) > 0 PROVE p[1] \in Times /\ p[1] >= now - Hour
  <2>1. 1 \in 1..Len(p) /\ k < Len(times) BY <1>1, <1>2, <1>3
  <2>2. p[1] = times[1 + k] /\ 1 + k = k + 1 BY <1>1, <2>1
  <2> QED BY <1>1, <2>1, <2>2, ElementOfSeq
<1>4. ASSUME p # <<>> PROVE p[Len(p)] \in Times
  <2>1. Len(p) \in 1..Len(p) BY <1>1, <1>2, <1>4, EmptySeq
  <2> QED BY <1>1, <2>1, ElementOfSeq
<1> QED BY <1>1, <1>2, <1>3, <1>4 DEF p

\* A client waits longer than what was left.
LEMMA WaitForEnough ==
    ASSUME NEW left \in Nat
    PROVE  WaitFor(left) \in Nat \ {0} /\ WaitFor(left) * Second > left
<1>1. left \div Second \in Nat /\ left < (left \div Second) * Second + Second
  BY Constants, DivFacts
<1>2. (left \div Second + 1) * Second = (left \div Second) * Second + Second
  BY <1>1, Constants
<1> QED BY <1>1, <1>2 DEF WaitFor

\* What is left until a rule lets a request pass again.
LeftOf(ask, rule) ==
    CASE rule = "too soon"    -> Gap - Elapsed(ask)
      [] rule = "phone"       -> Hour - (ask.at - PhoneTimes(ask)[1])
      [] rule = "ip"          -> Hour - (ask.at - IPTimes(ask)[1])
      [] rule = "fingerprint" -> Hour - (ask.at - FPTimes(ask)[1])

RuleNames == {"too soon", "phone", "ip", "fingerprint"}

LEMMA FullList ==
    ASSUME NEW times \in Seq(Times), NEW at \in Times, NEW limit \in Nat \ {0},
           Len(times) <= limit, Len(PruneOld(times, at, Hour)) >= limit
    PROVE  /\ Len(PruneOld(times, at, Hour)) = limit
           /\ Len(PruneOld(times, at, Hour)) - limit + 1 = 1
           /\ PruneOld(times, at, Hour)[1] \in Times
           /\ Hour - (at - PruneOld(times, at, Hour)[1]) \in Nat
<1>1. at \in Int BY Constants
<1>2. Len(times) \in Nat BY LenProperties
<1>3. /\ Len(PruneOld(times, at, Hour)) \in Nat
      /\ Len(PruneOld(times, at, Hour)) <= Len(times)
      /\ Len(PruneOld(times, at, Hour)) > 0 =>
           /\ PruneOld(times, at, Hour)[1] \in Times
           /\ PruneOld(times, at, Hour)[1] >= at - Hour
  BY <1>1, PrunedList
<1> DEFINE p == PruneOld(times, at, Hour)
<1> HIDE DEF p
<1>4. Len(p) \in Nat /\ Len(p) = limit /\ Len(p) > 0 BY <1>2, <1>3 DEF p
<1>5. p[1] \in Times /\ p[1] >= at - Hour BY <1>3, <1>4 DEF p
<1>6. p[1] \in Int /\ Hour \in Int BY <1>5, TimeAssumption DEF Times
<1>7. Hour - (at - p[1]) \in Nat BY <1>1, <1>5, <1>6
<1>8. Len(p) - limit + 1 = 1 BY <1>4
<1> QED BY <1>4, <1>5, <1>7, <1>8 DEF p

LEMMA WaitIsPositive ==
    ASSUME IInv, NEW ask \in Asks, NEW rule \in RuleNames, Refuses(rule, ask)
    PROVE  /\ WaitSeconds(ask, rule) \in Nat \ {0}
           /\ LeftOf(ask, rule) \in Nat
           /\ WaitSeconds(ask, rule) * Second > LeftOf(ask, rule)
<1> USE DEF IInv
<1>1. ask.phone \in Phones /\ ask.ip \in IPs /\ ask.fp \in FPKeys /\ ask.at \in Times
  BY DEF Asks
<1>2. CASE rule = "too soon"
  <2>1. TooSoon(ask) BY <1>2 DEF Refuses
  <2>2. phoneCounters[ask.phone] \in Seq(Times) /\ ask.at \in Int BY <1>1, Constants DEF Lists
  <2>3. PhoneTimes(ask)[Len(PhoneTimes(ask))] \in Times
    BY <2>1, <2>2, PrunedList DEF TooSoon, PhoneTimes
  <2>4. Gap - Elapsed(ask) \in Nat
    <3>1. Elapsed(ask) \in Int
      <4>1. PhoneTimes(ask)[Len(PhoneTimes(ask))] \in Int BY <2>3, Constants
      <4> QED BY <2>2, <4>1 DEF Elapsed
    <3>2. Elapsed(ask) < Gap /\ Gap \in Int BY <2>1, Constants DEF TooSoon
    <3> QED BY <3>1, <3>2
  <2>5. WaitSeconds(ask, rule) = WaitFor(Gap - Elapsed(ask)) BY <1>2 DEF WaitSeconds
  <2>6. LeftOf(ask, rule) = Gap - Elapsed(ask) BY <1>2 DEF LeftOf
  <2> QED BY <2>4, <2>5, <2>6, WaitForEnough
<1>3. CASE rule = "phone"
  <2>1. PhoneFull(ask) BY <1>3 DEF Refuses
  <2>2. phoneCounters[ask.phone] \in Seq(Times) /\ Len(phoneCounters[ask.phone]) <= PhoneLimit
    BY <1>1 DEF TypeOK
  <2>3. /\ Len(PhoneTimes(ask)) - PhoneLimit + 1 = 1
        /\ Hour - (ask.at - PhoneTimes(ask)[1]) \in Nat
    BY <1>1, <2>1, <2>2, FullList, Constants DEF PhoneFull, PhoneTimes
  <2>4. WaitSeconds(ask, rule) = WaitFor(Hour - (ask.at - PhoneTimes(ask)[1]))
    BY <1>3, <2>3 DEF WaitSeconds
  <2>5. LeftOf(ask, rule) = Hour - (ask.at - PhoneTimes(ask)[1]) BY <1>3 DEF LeftOf
  <2> QED BY <2>3, <2>4, <2>5, WaitForEnough
<1>4. CASE rule = "ip"
  <2>1. IPFull(ask) BY <1>4 DEF Refuses
  <2>2. ipCounters[ask.ip] \in Seq(Times) /\ Len(ipCounters[ask.ip]) <= IPLimit
    BY <1>1 DEF TypeOK
  <2>3. /\ Len(IPTimes(ask)) - IPLimit + 1 = 1
        /\ Hour - (ask.at - IPTimes(ask)[1]) \in Nat
    BY <1>1, <2>1, <2>2, FullList, Constants DEF IPFull, IPTimes
  <2>4. WaitSeconds(ask, rule) = WaitFor(Hour - (ask.at - IPTimes(ask)[1]))
    BY <1>4, <2>3 DEF WaitSeconds
  <2>5. LeftOf(ask, rule) = Hour - (ask.at - IPTimes(ask)[1]) BY <1>4 DEF LeftOf
  <2> QED BY <2>3, <2>4, <2>5, WaitForEnough
<1>5. CASE rule = "fingerprint"
  <2>1. FPFull(ask) /\ ask.fp \in Fingerprints BY <1>1, <1>5 DEF Refuses, FPFull, FPKeys
  <2>2. fpCounters[ask.fp] \in Seq(Times) /\ Len(fpCounters[ask.fp]) <= FPLimit
    BY <2>1 DEF TypeOK
  <2>3. /\ Len(FPTimes(ask)) - FPLimit + 1 = 1
        /\ Hour - (ask.at - FPTimes(ask)[1]) \in Nat
    BY <1>1, <2>1, <2>2, FullList, Constants DEF FPFull, FPTimes
  <2>4. WaitSeconds(ask, rule) = WaitFor(Hour - (ask.at - FPTimes(ask)[1]))
    BY <1>5, <2>3 DEF WaitSeconds
  <2>5. LeftOf(ask, rule) = Hour - (ask.at - FPTimes(ask)[1]) BY <1>5 DEF LeftOf
  <2> QED BY <2>3, <2>4, <2>5, WaitForEnough
<1> QED BY <1>2, <1>3, <1>4, <1>5 DEF RuleNames
-----------------------------------------------------------------------------
(* The steps of a check *)

AskedBy == {"waiting", "allowed", "charged"}

LEMMA WaitingAsk ==
    ASSUME IInv, NEW c \in Checks, check[c].pc = "waiting"
    PROVE  /\ check[c] \in [pc : AskedBy, ask : Asks]
           /\ check[c].ask \in Asks
           /\ check[c].ask.phone \in Phones /\ check[c].ask.ip \in IPs
           /\ check[c].ask.fp \in FPKeys /\ check[c].ask.at \in Times
           /\ check[c].ask.at <= clock /\ clock - check[c].ask.at <= MaxLag
<1>1. check[c] \in [pc : AskedBy, ask : Asks]
  BY DEF IInv, TypeOK, Idle, AskedBy
<1> QED BY <1>1 DEF Asks, IInv, Waiting

LEMMA RefuseKeeps ==
    ASSUME IInv, NEW c \in Checks, NEW rule \in RuleNames, Refuse(c, rule)
    PROVE  IInv'
<1> USE DEF IInv
<1>1. PICK ask \in Asks :
        /\ ask = check[c].ask /\ ask.phone \in Phones /\ ask.ip \in IPs
        /\ ask.fp \in FPKeys /\ ask.at \in Times /\ ask.at <= clock
  BY WaitingAsk DEF Refuse
<1>2. Refuses(rule, ask) BY <1>1 DEF Refuse, RefusedBy
<1>3. rule = "fingerprint" => ask.fp \in Fingerprints BY <1>1, <1>2 DEF Refuses, FPFull, FPKeys
<1>4. PICK wait \in Nat \ {0} :
        check' = [check EXCEPT ![c] = [pc |-> "refused", ask |-> ask, wait |-> wait]]
  BY <1>1, <1>2, WaitIsPositive DEF Refuse
<1>5. UNCHANGED <<clock, tenantCosts, sent, charges>> BY DEF Refuse
<1>6. ask.at \in Int BY <1>1 DEF Times
<1>7. /\ phoneCounters' = [phoneCounters EXCEPT ![ask.phone] = PhoneTimes(ask)]
      /\ ipCounters' = IF rule \in {"too soon", "phone"} THEN ipCounters
                       ELSE [ipCounters EXCEPT ![ask.ip] = IPTimes(ask)]
      /\ fpCounters' = IF rule # "fingerprint" THEN fpCounters
                       ELSE [fpCounters EXCEPT ![ask.fp] = FPTimes(ask)]
  BY <1>1 DEF Refuse
<1>8. /\ phoneCounters' \in [Phones -> Seq(Times)]
      /\ \A p \in Phones :
           phoneCounters'[p] \in {phoneCounters[p], PruneOld(phoneCounters[p], ask.at, Hour)}
  <2>1. PhoneTimes(ask) \in Seq(Times) BY <1>1, <1>6, PrunedList DEF Lists, PhoneTimes
  <2> QED BY <1>1, <1>7, <2>1 DEF Lists, PhoneTimes
<1>9. /\ ipCounters' \in [IPs -> Seq(Times)]
      /\ \A ip \in IPs : ipCounters'[ip] \in {ipCounters[ip], PruneOld(ipCounters[ip], ask.at, Hour)}
  <2>1. IPTimes(ask) \in Seq(Times) BY <1>1, <1>6, PrunedList DEF Lists, IPTimes
  <2> QED BY <1>1, <1>7, <2>1 DEF Lists, IPTimes
<1>10. /\ fpCounters' \in [Fingerprints -> Seq(Times)]
       /\ \A fp \in Fingerprints :
            fpCounters'[fp] \in {fpCounters[fp], PruneOld(fpCounters[fp], ask.at, Hour)}
  <2>1. CASE rule = "fingerprint"
    <3>1. FPTimes(ask) \in Seq(Times) BY <1>3, <1>6, <2>1, PrunedList DEF Lists, FPTimes
    <3> QED BY <1>3, <1>7, <2>1, <3>1 DEF Lists, FPTimes
  <2>2. CASE rule # "fingerprint" BY <1>7, <2>2 DEF Lists
  <2> QED BY <2>1, <2>2
<1>11. Lists' /\ KeysKnown' /\ LastKnown' /\ PhoneGap'
  BY <1>1, <1>5, <1>8, <1>9, <1>10, ListsPruned
<1>12. TypeOK'
  <2>1. ASSUME NEW times \in Seq(Times), NEW limit \in Nat, Len(times) <= limit
        PROVE  Len(PruneOld(times, ask.at, Hour)) <= limit
    <3>1. Len(times) \in Nat BY LenProperties
    <3>2. Len(PruneOld(times, ask.at, Hour)) \in Nat
          /\ Len(PruneOld(times, ask.at, Hour)) <= Len(times)
      BY <1>6, PrunedList
    <3> QED BY <2>1, <3>1, <3>2
  <2>2. \A p \in Phones : phoneCounters'[p] \in Seq(Times) /\ Len(phoneCounters'[p]) <= PhoneLimit
    BY <1>8, <2>1, Constants DEF TypeOK
  <2>3. \A ip \in IPs : ipCounters'[ip] \in Seq(Times) /\ Len(ipCounters'[ip]) <= IPLimit
    BY <1>9, <2>1, Constants DEF TypeOK
  <2>4. \A fp \in Fingerprints : fpCounters'[fp] \in Seq(Times) /\ Len(fpCounters'[fp]) <= FPLimit
    BY <1>10, <2>1, Constants DEF TypeOK
  <2>5. check' \in [Checks -> {Idle} \cup [pc : {"waiting", "allowed", "charged"}, ask : Asks]
                     \cup [pc : {"refused"}, ask : Asks, wait : Nat \ {0}]]
    BY <1>4 DEF TypeOK
  <2> QED BY <1>5, <2>2, <2>3, <2>4, <2>5 DEF TypeOK, Days
<1>13. Waiting' BY <1>4, <1>5 DEF Waiting, TypeOK
<1>14. Charged' BY <1>5 DEF Charged, Today, Days
<1> QED BY <1>11, <1>12, <1>13, <1>14

\* No rule refuses an allowed request: it is a Gap after all that was sent to the phone.
LEMMA AllowedGap ==
    ASSUME IInv, NEW ask \in Asks, ask.phone \in Phones, ask.at \in Times, ask.at <= clock,
           clock - ask.at <= MaxLag, ~TooSoon(ask), NEW s \in sent, s.phone = ask.phone
    PROVE  ask.at - s.at >= Gap /\ s.at \in Times
<1> USE DEF IInv
<1>1. phoneCounters[ask.phone] \in Seq(Times) /\ s.at \in Times /\ clock \in Times
  BY DEF Lists, TypeOK, Asks
<1>2. Recorded(PhoneTimes(ask), s.at, clock - Hour)
  <2>1. Recorded(phoneCounters[ask.phone], s.at, clock - Hour) BY DEF LastKnown
  <2> QED BY <1>1, <2>1, RecordedPruned DEF PhoneTimes
<1>3. ask.at \in Int /\ s.at \in Int /\ clock \in Int BY <1>1 DEF Times
<1>4. CASE PhoneTimes(ask) # <<>> /\ s.at <= PhoneTimes(ask)[Len(PhoneTimes(ask))]
  <2>1. PhoneTimes(ask)[Len(PhoneTimes(ask))] \in Times
    BY <1>1, <1>3, <1>4, PrunedList DEF PhoneTimes
  <2>2. PhoneTimes(ask)[Len(PhoneTimes(ask))] \in Int BY <2>1 DEF Times
  <2>3. ask.at - PhoneTimes(ask)[Len(PhoneTimes(ask))] >= Gap
    BY <1>3, <1>4, <2>2, TimeAssumption DEF TooSoon, Elapsed
  <2> QED BY <1>1, <1>3, <1>4, <2>2, <2>3, TimeAssumption
<1>5. CASE s.at < clock - Hour BY <1>1, <1>3, <1>5, TimeAssumption
<1> QED BY <1>2, <1>4, <1>5 DEF Recorded

\* One list after an allowed request of its key.
LEMMA ListAllowed ==
    ASSUME NEW times, NEW S, Stamped(S), NEW limit \in Nat \ {0}, NEW c \in Times, NEW ask,
           ask.at \in Times, ask.at <= c, c - ask.at <= MaxLag, Known(times, S, limit, c),
           ~(Len(PruneOld(times, ask.at, Hour)) >= limit)
    PROVE  Known(Append(PruneOld(times, ask.at, Hour), ask.at), S \cup {ask}, limit, c)
<1>1. Known(PruneOld(times, ask.at, Hour), S, limit, c) BY KnownPruned
<1>2. Len(PruneOld(times, ask.at, Hour)) < limit
  <2>1. Len(PruneOld(times, ask.at, Hour)) \in Nat BY <1>1, LenProperties DEF Known
  <2> QED BY <2>1
<1> QED BY <1>1, <1>2, KnownAppended

LEMMA AllowKeeps == ASSUME IInv, NEW c \in Checks, Allow(c) PROVE IInv'
<1> USE DEF IInv
<1>1. PICK ask \in Asks :
        /\ ask = check[c].ask /\ ask.phone \in Phones /\ ask.ip \in IPs /\ ask.fp \in FPKeys
        /\ ask.at \in Times /\ ask.at <= clock /\ clock - ask.at <= MaxLag
  BY WaitingAsk DEF Allow
<1>2. ~TooSoon(ask) /\ ~PhoneFull(ask) /\ ~IPFull(ask) /\ ~FPFull(ask)
  <2>1. Allows(ask) BY <1>1 DEF Allow
  <2>2. \A i \in 1..4 : ~Refuses(Rules[i], ask) BY <2>1 DEF Allows
  <2>3. /\ ~Refuses("too soon", ask) /\ ~Refuses("phone", ask)
        /\ ~Refuses("ip", ask) /\ ~Refuses("fingerprint", ask)
    <3>1. Rules[1] = "too soon" /\ Rules[2] = "phone" /\ Rules[3] = "ip" /\ Rules[4] = "fingerprint"
      BY DEF Rules
    <3>2. /\ ~Refuses(Rules[1], ask) /\ ~Refuses(Rules[2], ask)
          /\ ~Refuses(Rules[3], ask) /\ ~Refuses(Rules[4], ask)
      BY <2>2
    <3> QED BY <3>1, <3>2
  <2> QED BY <2>3 DEF Refuses
<1>3. /\ check' = [check EXCEPT ![c].pc = "allowed"] /\ sent' = sent \cup {ask}
      /\ phoneCounters' = [phoneCounters EXCEPT ![ask.phone] = Append(PhoneTimes(ask), ask.at)]
      /\ ipCounters' = [ipCounters EXCEPT ![ask.ip] = Append(IPTimes(ask), ask.at)]
      /\ fpCounters' = IF ask.fp = Missing THEN fpCounters
                       ELSE [fpCounters EXCEPT ![ask.fp] = Append(FPTimes(ask), ask.at)]
      /\ UNCHANGED <<clock, tenantCosts, charges>>
  BY <1>1 DEF Allow
<1>4. Stamped(sent) /\ clock \in Times BY DEF TypeOK, Asks, Stamped
<1>5. \A p \in Phones : Known(phoneCounters'[p], ByPhone(p)', PhoneLimit, clock)
  <2> SUFFICES ASSUME NEW p \in Phones
               PROVE  Known(phoneCounters'[p], ByPhone(p)', PhoneLimit, clock)
    OBVIOUS
  <2>1. Stamped(ByPhone(p)) /\ Known(phoneCounters[p], ByPhone(p), PhoneLimit, clock)
    BY <1>4 DEF KeysKnown, Stamped, ByPhone
  <2>2. CASE p = ask.phone
    <3>1. phoneCounters'[p] = Append(PruneOld(phoneCounters[p], ask.at, Hour), ask.at)
      BY <1>1, <1>3, <2>2 DEF Lists, PhoneTimes
    <3>2. ByPhone(p)' = ByPhone(p) \cup {ask} BY <1>3, <2>2 DEF ByPhone
    <3>3. ~(Len(PruneOld(phoneCounters[p], ask.at, Hour)) >= PhoneLimit)
      BY <1>2, <2>2 DEF PhoneFull, PhoneTimes
    <3>4. PhoneLimit \in Nat \ {0} BY LimitAssumption
    <3>5. Known(Append(PruneOld(phoneCounters[p], ask.at, Hour), ask.at), ByPhone(p) \cup {ask}, PhoneLimit, clock)
      BY <1>1, <1>4, <2>1, <3>3, <3>4, ListAllowed
    <3> QED BY <3>1, <3>2, <3>5
  <2>3. CASE p # ask.phone
    <3>1. phoneCounters'[p] = phoneCounters[p] BY <1>3, <2>3 DEF Lists
    <3>2. ByPhone(p)' = ByPhone(p) BY <1>3, <2>3 DEF ByPhone
    <3> QED BY <2>1, <3>1, <3>2
  <2> QED BY <2>2, <2>3
<1>6. \A ip \in IPs : Known(ipCounters'[ip], ByIP(ip)', IPLimit, clock)
  <2> SUFFICES ASSUME NEW ip \in IPs PROVE Known(ipCounters'[ip], ByIP(ip)', IPLimit, clock)
    OBVIOUS
  <2>1. Stamped(ByIP(ip)) /\ Known(ipCounters[ip], ByIP(ip), IPLimit, clock)
    BY <1>4 DEF KeysKnown, Stamped, ByIP
  <2>2. CASE ip = ask.ip
    <3>1. ipCounters'[ip] = Append(PruneOld(ipCounters[ip], ask.at, Hour), ask.at)
      BY <1>1, <1>3, <2>2 DEF Lists, IPTimes
    <3>2. ByIP(ip)' = ByIP(ip) \cup {ask} BY <1>3, <2>2 DEF ByIP
    <3>3. ~(Len(PruneOld(ipCounters[ip], ask.at, Hour)) >= IPLimit)
      BY <1>2, <2>2 DEF IPFull, IPTimes
    <3>4. IPLimit \in Nat \ {0} BY LimitAssumption
    <3>5. Known(Append(PruneOld(ipCounters[ip], ask.at, Hour), ask.at), ByIP(ip) \cup {ask}, IPLimit, clock)
      BY <1>1, <1>4, <2>1, <3>3, <3>4, ListAllowed
    <3> QED BY <3>1, <3>2, <3>5
  <2>3. CASE ip # ask.ip
    <3>1. ipCounters'[ip] = ipCounters[ip] BY <1>3, <2>3 DEF Lists
    <3>2. ByIP(ip)' = ByIP(ip) BY <1>3, <2>3 DEF ByIP
    <3> QED BY <2>1, <3>1, <3>2
  <2> QED BY <2>2, <2>3
<1>7. \A fp \in Fingerprints \ {Missing} : Known(fpCounters'[fp], ByFP(fp)', FPLimit, clock)
  <2> SUFFICES ASSUME NEW fp \in Fingerprints \ {Missing}
               PROVE  Known(fpCounters'[fp], ByFP(fp)', FPLimit, clock)
    OBVIOUS
  <2>1. Stamped(ByFP(fp)) /\ Known(fpCounters[fp], ByFP(fp), FPLimit, clock)
    BY <1>4 DEF KeysKnown, Stamped, ByFP
  <2>2. CASE fp = ask.fp
    <3>1. fpCounters'[fp] = Append(PruneOld(fpCounters[fp], ask.at, Hour), ask.at)
      BY <1>1, <1>3, <2>2 DEF Lists, FPTimes
    <3>2. ByFP(fp)' = ByFP(fp) \cup {ask} BY <1>3, <2>2 DEF ByFP
    <3>3. ~(Len(PruneOld(fpCounters[fp], ask.at, Hour)) >= FPLimit)
      BY <1>2, <2>2 DEF FPFull, FPTimes
    <3>4. FPLimit \in Nat \ {0} BY LimitAssumption
    <3>5. Known(Append(PruneOld(fpCounters[fp], ask.at, Hour), ask.at), ByFP(fp) \cup {ask}, FPLimit, clock)
      BY <1>1, <1>4, <2>1, <3>3, <3>4, ListAllowed
    <3> QED BY <3>1, <3>2, <3>5
  <2>3. CASE fp # ask.fp
    <3>1. fpCounters'[fp] = fpCounters[fp] BY <1>3, <2>3 DEF Lists
    <3>2. ByFP(fp)' = ByFP(fp) BY <1>3, <2>3 DEF ByFP
    <3> QED BY <2>1, <3>1, <3>2
  <2> QED BY <2>2, <2>3
<1>8. KeysKnown' BY <1>3, <1>5, <1>6, <1>7 DEF KeysKnown
<1>9. ask.at \in Int BY <1>1 DEF Times
<1>10. /\ PhoneTimes(ask) \in Seq(Times) /\ IPTimes(ask) \in Seq(Times)
       /\ ask.fp # Missing => ask.fp \in Fingerprints /\ FPTimes(ask) \in Seq(Times)
  BY <1>1, <1>9, PrunedList DEF Lists, PhoneTimes, IPTimes, FPTimes, FPKeys
<1>11. Lists'
  <2>1. \A q \in Seq(Times) : Append(q, ask.at) \in Seq(Times) BY <1>1, AppendProperties
  <2>2. phoneCounters' \in [Phones -> Seq(Times)] BY <1>1, <1>3, <1>10, <2>1 DEF Lists
  <2>3. ipCounters' \in [IPs -> Seq(Times)] BY <1>1, <1>3, <1>10, <2>1 DEF Lists
  <2>4. fpCounters' \in [Fingerprints -> Seq(Times)] BY <1>1, <1>3, <1>10, <2>1 DEF Lists
  <2> QED BY <2>2, <2>3, <2>4 DEF Lists
<1>12. TypeOK'
  <2>1. \A p \in Phones : phoneCounters'[p] \in Seq(Times) /\ Len(phoneCounters'[p]) <= PhoneLimit
    BY <1>5 DEF Known
  <2>2. \A ip \in IPs : ipCounters'[ip] \in Seq(Times) /\ Len(ipCounters'[ip]) <= IPLimit
    BY <1>6 DEF Known
  <2>3. \A fp \in Fingerprints : fpCounters'[fp] \in Seq(Times) /\ Len(fpCounters'[fp]) <= FPLimit
    <3>1. ASSUME Missing \in Fingerprints PROVE fpCounters'[Missing] = fpCounters[Missing]
      BY <1>3, <3>1 DEF Lists
    <3> QED BY <1>7, <3>1 DEF Known, TypeOK
  <2>4. check' \in [Checks -> {Idle} \cup [pc : {"waiting", "allowed", "charged"}, ask : Asks]
                     \cup [pc : {"refused"}, ask : Asks, wait : Nat \ {0}]]
    <3>1. check[c] \in [pc : AskedBy, ask : Asks] BY WaitingAsk DEF Allow
    <3> QED BY <1>3, <3>1 DEF TypeOK, AskedBy
  <2> QED BY <1>3, <2>1, <2>2, <2>3, <2>4 DEF TypeOK, Days
<1>13. Waiting' BY <1>3 DEF Waiting, TypeOK
<1>14. LastKnown'
  <2> SUFFICES ASSUME NEW s \in sent'
               PROVE  Recorded(phoneCounters'[s.phone], s.at, clock - Hour)
    BY <1>3 DEF LastKnown
  <2>1. CASE s.phone = ask.phone
    <3>1. s.at <= ask.at
      <4>1. CASE s = ask BY <1>9, <4>1
      <4>2. CASE s \in sent
        <5>1. ask.at - s.at >= Gap /\ s.at \in Times BY <1>1, <1>2, <2>1, <4>2, AllowedGap
        <5>2. s.at \in Int /\ Gap \in Nat BY <5>1, TimeAssumption DEF Times
        <5> QED BY <1>9, <5>1, <5>2
      <4> QED BY <1>3, <4>1, <4>2
    <3> DEFINE q == Append(PhoneTimes(ask), ask.at)
    <3>2. q # <<>> /\ Len(q) = Len(PhoneTimes(ask)) + 1 /\ q[Len(PhoneTimes(ask)) + 1] = ask.at
      BY <1>1, <1>10, AppendProperties
    <3>3. phoneCounters'[s.phone] = q BY <1>1, <1>3, <2>1 DEF Lists
    <3> HIDE DEF q
    <3> QED BY <3>1, <3>2, <3>3 DEF Recorded
  <2>2. CASE s.phone # ask.phone
    <3>1. s \in sent BY <1>3, <2>2
    <3>2. phoneCounters'[s.phone] = phoneCounters[s.phone] BY <1>3, <2>2, <3>1 DEF Lists, TypeOK, Asks
    <3> QED BY <3>1, <3>2 DEF LastKnown
  <2> QED BY <2>1, <2>2
<1>15. PhoneGap'
  <2>1. \A s \in sent : s.phone = ask.phone => ask.at - s.at >= Gap
    BY <1>1, <1>2, AllowedGap
  <2> QED BY <1>3, <2>1 DEF PhoneGap
<1>16. Charged' BY <1>3 DEF Charged, Today, Days
<1> QED BY <1>8, <1>11, <1>12, <1>13, <1>14, <1>15, <1>16

\* A charge is of today, and today's first starts from nothing.
LEMMA CostKeeps == ASSUME IInv, NEW c \in Checks, RecordSMSCost(c) PROVE IInv'
<1> USE DEF IInv
<1>1. check[c] \in [pc : AskedBy, ask : Asks] /\ check[c].pc = "allowed"
  BY DEF RecordSMSCost, TypeOK, Idle, AskedBy
<1>2. PICK app \in Apps : app = check[c].ask.app BY <1>1 DEF Asks
<1>3. PICK today \in Days : today = Today BY TodayIsADay DEF TypeOK
<1>4. /\ tenantCosts' = [tenantCosts EXCEPT ![app] =
                           IF tenantCosts[app].day # today
                             THEN [day |-> today, cents |-> 1]
                             ELSE [day |-> today, cents |-> tenantCosts[app].cents + 1]]
      /\ charges' = [charges EXCEPT ![app][today] = charges[app][today] + 1]
      /\ check' = [check EXCEPT ![c].pc = "charged"]
      /\ UNCHANGED <<clock, phoneCounters, ipCounters, fpCounters, sent>>
  BY <1>2, <1>3 DEF RecordSMSCost, counters
<1>5. PICK day \in Days \cup {-1}, cents \in Nat :
        tenantCosts[app] = [day |-> day, cents |-> cents]
  BY DEF TypeOK
<1>6. /\ charges[app] \in [Days -> Nat] /\ Days \subseteq Int
      /\ charges' = [charges EXCEPT ![app] = [charges[app] EXCEPT ![today] = charges[app][today] + 1]]
  BY <1>4 DEF TypeOK, Days
<1>7. PICK cents1 \in Nat :
        /\ cents1 = charges[app][today] + 1
        /\ tenantCosts' = [tenantCosts EXCEPT ![app] = [day |-> today, cents |-> cents1]]
  <2>1. CASE day = today
    <3>1. charges[app][today] = cents /\ cents + 1 \in Nat BY <1>5, <2>1 DEF Charged
    <3>2. tenantCosts[app].day = today /\ tenantCosts[app].cents = cents BY <1>5, <2>1
    <3>3. tenantCosts' = [tenantCosts EXCEPT ![app] = [day |-> today, cents |-> cents + 1]]
      BY <1>4, <3>2
    <3> QED BY <3>1, <3>3
  <2>2. CASE day # today
    <3>1. today > day
      <4>1. day <= today BY <1>3, <1>5 DEF Charged
      <4> QED BY <1>6, <2>2, <4>1
    <3>2. charges[app][today] = 0 BY <1>5, <3>1 DEF Charged
    <3>3. tenantCosts[app].day # today BY <1>5, <2>2
    <3>4. tenantCosts' = [tenantCosts EXCEPT ![app] = [day |-> today, cents |-> 1]]
      BY <1>4, <3>3
    <3>5. 1 \in Nat /\ 1 = charges[app][today] + 1 BY <3>2
    <3> QED BY <3>4, <3>5
  <2> QED BY <2>1, <2>2
<1>8. TypeOK'
  <2>1. check' \in [Checks -> {Idle} \cup [pc : {"waiting", "allowed", "charged"}, ask : Asks]
                     \cup [pc : {"refused"}, ask : Asks, wait : Nat \ {0}]]
    BY <1>1, <1>4 DEF TypeOK, AskedBy
  <2>2. tenantCosts' \in [Apps -> [day : Days \cup {-1}, cents : Nat]]
    BY <1>7 DEF TypeOK
  <2>3. charges' \in [Apps -> [Days -> Nat]]
    <3>1. [charges[app] EXCEPT ![today] = charges[app][today] + 1] \in [Days -> Nat] BY <1>6
    <3> QED BY <1>6, <3>1 DEF TypeOK
  <2> QED BY <1>4, <2>1, <2>2, <2>3 DEF TypeOK, Days
<1>9. Lists' /\ KeysKnown' /\ LastKnown' /\ PhoneGap'
  BY <1>4 DEF Lists, KeysKnown, ByPhone, ByIP, ByFP, LastKnown, PhoneGap
<1>10. Waiting' BY <1>4 DEF Waiting, TypeOK
<1>11. Charged'
  <2>1. /\ tenantCosts'[app] = [day |-> today, cents |-> cents1]
        /\ \A x \in Apps : x # app => tenantCosts'[x] = tenantCosts[x] /\ charges'[x] = charges[x]
    BY <1>6, <1>7 DEF TypeOK
  <2>2. \A d \in Days : charges'[app][d] = IF d = today THEN cents1 ELSE charges[app][d]
    BY <1>6, <1>7 DEF TypeOK
  <2>3. Today' = today BY <1>3, <1>4 DEF Today
  <2>4. \A d \in Days : d > today => charges[app][d] = 0 /\ d # today
    <3>1. day <= today /\ day \in Int BY <1>3, <1>5 DEF Charged, Days
    <3>2. \A d \in Days : d > today => d > day BY <1>6, <3>1
    <3> QED BY <1>5, <1>6, <3>2 DEF Charged
  <2>5. /\ tenantCosts'[app].day <= Today'
        /\ \A d \in Days : /\ d = tenantCosts'[app].day => charges'[app][d] = tenantCosts'[app].cents
                           /\ d > tenantCosts'[app].day => charges'[app][d] = 0
    BY <1>6, <2>1, <2>2, <2>3, <2>4
  <2>6. ASSUME NEW x \in Apps, x # app
        PROVE  /\ tenantCosts'[x].day <= Today'
               /\ \A d \in Days : /\ d = tenantCosts'[x].day => charges'[x][d] = tenantCosts'[x].cents
                                  /\ d > tenantCosts'[x].day => charges'[x][d] = 0
    BY <1>3, <2>1, <2>3, <2>6 DEF Charged
  <2>7. Days' = Days BY DEF Days
  <2> QED BY <2>5, <2>6, <2>7 DEF Charged
<1> QED BY <1>8, <1>9, <1>10, <1>11

LEMMA TickKeeps == ASSUME IInv, Tick PROVE IInv'
<1> USE DEF IInv
<1>1. /\ clock' = clock + 1 /\ clock \in Times /\ clock' \in Times /\ clock <= clock'
      /\ clock \in Nat
      /\ UNCHANGED <<phoneCounters, ipCounters, fpCounters, tenantCosts, check, sent, charges>>
  BY TimeAssumption DEF Tick, TypeOK, Times, counters
<1>2. Stamped(sent) BY DEF TypeOK, Asks, Stamped
<1>3. TypeOK' BY <1>1 DEF TypeOK, Days
<1>4. KeysKnown'
  <2>1. ASSUME NEW p \in Phones PROVE Known(phoneCounters[p], ByPhone(p), PhoneLimit, clock')
    <3>1. Stamped(ByPhone(p)) /\ Known(phoneCounters[p], ByPhone(p), PhoneLimit, clock)
      BY <1>2 DEF KeysKnown, Stamped, ByPhone
    <3> QED BY <1>1, <3>1, KnownLater
  <2>2. ASSUME NEW ip \in IPs PROVE Known(ipCounters[ip], ByIP(ip), IPLimit, clock')
    <3>1. Stamped(ByIP(ip)) /\ Known(ipCounters[ip], ByIP(ip), IPLimit, clock)
      BY <1>2 DEF KeysKnown, Stamped, ByIP
    <3> QED BY <1>1, <3>1, KnownLater
  <2>3. ASSUME NEW fp \in Fingerprints \ {Missing}
        PROVE  Known(fpCounters[fp], ByFP(fp), FPLimit, clock')
    <3>1. Stamped(ByFP(fp)) /\ Known(fpCounters[fp], ByFP(fp), FPLimit, clock)
      BY <1>2 DEF KeysKnown, Stamped, ByFP
    <3> QED BY <1>1, <3>1, KnownLater
  <2> QED BY <1>1, <2>1, <2>2, <2>3 DEF KeysKnown, ByPhone, ByIP, ByFP
<1>5. Waiting'
  <2> SUFFICES ASSUME NEW c \in Checks, check[c].pc = "waiting"
               PROVE  check[c].ask.at <= clock' /\ clock' - check[c].ask.at <= MaxLag
    BY <1>1 DEF Waiting
  <2>1. clock - check[c].ask.at < MaxLag BY DEF Tick
  <2>2. check[c].ask.at \in Times /\ check[c].ask.at <= clock BY WaitingAsk
  <2>3. check[c].ask.at \in Int BY <2>2 DEF Times
  <2> QED BY <1>1, <2>1, <2>2, <2>3, TimeAssumption
<1>6. LastKnown'
  <2>1. ASSUME NEW s \in sent PROVE s.at < clock - Hour => s.at < clock' - Hour
    <3>1. s.at \in Int BY <1>2 DEF Stamped, Times
    <3> QED BY <1>1, <3>1, TimeAssumption
  <2> QED BY <1>1, <2>1 DEF LastKnown, Recorded
<1>7. PhoneGap' /\ Lists' BY <1>1 DEF PhoneGap, Lists
<1>8. Charged'
  <2>1. clock \in Nat /\ clock' \in Nat /\ Day \in Nat \ {0}
    BY <1>1, TimeAssumption DEF Times
  <2>2. Today <= Today' /\ Today \in Int /\ Today' \in Int BY <1>1, <2>1, DivFacts, DivOrder DEF Today
  <2>3. \A app \in Apps : tenantCosts[app].day \in Int BY DEF TypeOK, Days
  <2>4. \A app \in Apps : tenantCosts[app].day <= Today' BY <2>2, <2>3 DEF Charged
  <2> QED BY <1>1, <2>4 DEF Charged, Days
<1> QED BY <1>3, <1>4, <1>5, <1>6, <1>7, <1>8

LEMMA ArriveKeeps ==
    ASSUME IInv, NEW c \in Checks, NEW phone \in Phones, NEW ip \in IPs, NEW fp \in FPKeys,
           NEW app \in Apps, Arrive(c, phone, ip, fp, app)
    PROVE  IInv'
<1> USE DEF IInv
<1>1. PICK ask \in Asks : ask = [phone |-> phone, ip |-> ip, fp |-> fp, app |-> app, at |-> clock]
  BY DEF TypeOK, Asks
<1>2. /\ check' = [check EXCEPT ![c] = [pc |-> "waiting", ask |-> ask]]
      /\ UNCHANGED <<clock, phoneCounters, ipCounters, fpCounters, tenantCosts, sent, charges>>
  BY <1>1 DEF Arrive, counters
<1>3. TypeOK' BY <1>2 DEF TypeOK, Days
<1>4. Lists' /\ KeysKnown' /\ LastKnown' /\ PhoneGap' /\ Charged'
  BY <1>2 DEF Lists, KeysKnown, ByPhone, ByIP, ByFP, LastKnown, PhoneGap, Charged, Today, Days
<1>5. Waiting'
  <2>1. ask.at = clock /\ clock \in Int BY <1>1 DEF TypeOK, Times
  <2>2. ask.at <= clock /\ clock - ask.at <= MaxLag BY <2>1, TimeAssumption
  <2> QED BY <1>2, <2>2 DEF Waiting, TypeOK
<1> QED BY <1>3, <1>4, <1>5

LEMMA ReplyKeeps == ASSUME IInv, NEW c \in Checks, Reply(c) PROVE IInv'
<1> USE DEF IInv
<1>1. /\ check' = [check EXCEPT ![c] = Idle]
      /\ UNCHANGED <<clock, phoneCounters, ipCounters, fpCounters, tenantCosts, sent, charges>>
  BY DEF Reply, counters
<1>2. TypeOK' BY <1>1 DEF TypeOK, Days
<1>3. Lists' /\ KeysKnown' /\ LastKnown' /\ PhoneGap' /\ Charged'
  BY <1>1 DEF Lists, KeysKnown, ByPhone, ByIP, ByFP, LastKnown, PhoneGap, Charged, Today, Days
<1>4. Waiting' BY <1>1 DEF Waiting, TypeOK, Idle
<1> QED BY <1>2, <1>3, <1>4

LEMMA Next_IInv == IInv /\ [Next]_vars => IInv'
<1> SUFFICES ASSUME IInv, [Next]_vars PROVE IInv' OBVIOUS
<1>1. CASE Tick BY <1>1, TickKeeps
<1>2. ASSUME NEW c \in Checks, NEW phone \in Phones, NEW ip \in IPs, NEW fp \in FPKeys,
             NEW app \in Apps, Arrive(c, phone, ip, fp, app)
      PROVE  IInv'
  BY <1>2, ArriveKeeps
<1>3. ASSUME NEW c \in Checks, NEW rule \in RuleNames, Refuse(c, rule) PROVE IInv'
  BY <1>3, RefuseKeeps
<1>4. ASSUME NEW c \in Checks, Allow(c) PROVE IInv' BY <1>4, AllowKeeps
<1>5. ASSUME NEW c \in Checks, RecordSMSCost(c) PROVE IInv' BY <1>5, CostKeeps
<1>6. ASSUME NEW c \in Checks, Reply(c) PROVE IInv' BY <1>6, ReplyKeeps
<1>7. CASE UNCHANGED vars
  <2>1. UNCHANGED <<clock, phoneCounters, ipCounters, fpCounters, tenantCosts, check, sent, charges>>
    BY <1>7 DEF vars, counters
  <2>2. TypeOK' /\ Lists' BY <2>1 DEF IInv, TypeOK, Days, Lists
  <2>3. KeysKnown' /\ Waiting' /\ LastKnown' /\ PhoneGap' /\ Charged'
    BY <2>1 DEF IInv, KeysKnown, ByPhone, ByIP, ByFP, Waiting, LastKnown, PhoneGap, Charged,
                Today, Days
  <2> QED BY <2>2, <2>3 DEF IInv
<1> QED BY <1>1, <1>2, <1>3, <1>4, <1>5, <1>6, <1>7 DEF Next, RuleNames

THEOREM Invariance == Spec => []IInv
<1> QED BY Init_IInv, Next_IInv, PTL DEF Spec
-----------------------------------------------------------------------------
(* What the protector promises *)

\* The lists are never longer than their limits, and a refused client is told to
\* wait a positive time: no interleaving of checks makes the index or the wait of
\* CheckSMSRequest's replies meaningless.
THEOREM TypeCorrect == Spec => []TypeOK
<1>1. IInv => TypeOK BY DEF IInv
<1> QED BY <1>1, Invariance, PTL

\* Two SMS to a phone are a minute apart, in whatever order their checks were decided.
THEOREM GapKept == Spec => []PhoneGap
<1>1. IInv => PhoneGap BY DEF IInv
<1> QED BY <1>1, Invariance, PTL

LEMMA CappedCount ==
    ASSUME NEW S, NEW limit \in Nat, Capped(S, limit), NEW e \in Times
    PROVE  Cardinality({t \in S : t.at \in (e - (Hour - MaxLag))..e}) <= limit
BY DEF Capped

LEMMA LimitsFollow == IInv => LimitsHold
<1> SUFFICES ASSUME IInv, NEW s \in sent
             PROVE  LET Recent == {t \in sent : t.at \in (s.at - (Hour - MaxLag))..s.at} IN
                    /\ Cardinality({t \in Recent : t.phone = s.phone}) <= PhoneLimit
                    /\ Cardinality({t \in Recent : t.ip = s.ip}) <= IPLimit
                    /\ s.fp # Missing => Cardinality({t \in Recent : t.fp = s.fp}) <= FPLimit
  BY DEF LimitsHold
<1>1. s.phone \in Phones /\ s.ip \in IPs /\ s.fp \in FPKeys /\ s.at \in Times
  BY DEF IInv, TypeOK, Asks
<1> DEFINE Span == (s.at - (Hour - MaxLag))..s.at
           Recent == {t \in sent : t.at \in Span}
<1> HIDE DEF Span
<1>2. /\ {t \in Recent : t.phone = s.phone} = {t \in ByPhone(s.phone) : t.at \in Span}
      /\ {t \in Recent : t.ip = s.ip} = {t \in ByIP(s.ip) : t.at \in Span}
      /\ {t \in Recent : t.fp = s.fp} = {t \in ByFP(s.fp) : t.at \in Span}
  BY DEF ByPhone, ByIP, ByFP
<1>3. PhoneLimit \in Nat /\ IPLimit \in Nat /\ FPLimit \in Nat BY LimitAssumption
<1>4. Cardinality({t \in ByPhone(s.phone) : t.at \in Span}) <= PhoneLimit
  <2>1. Capped(ByPhone(s.phone), PhoneLimit) BY <1>1 DEF IInv, KeysKnown, Known
  <2> QED BY <1>1, <1>3, <2>1, CappedCount DEF Span
<1>5. Cardinality({t \in ByIP(s.ip) : t.at \in Span}) <= IPLimit
  <2>1. Capped(ByIP(s.ip), IPLimit) BY <1>1 DEF IInv, KeysKnown, Known
  <2> QED BY <1>1, <1>3, <2>1, CappedCount DEF Span
<1>6. ASSUME s.fp # Missing
      PROVE  Cardinality({t \in ByFP(s.fp) : t.at \in Span}) <= FPLimit
  <2>1. s.fp \in Fingerprints \ {Missing} BY <1>1, <1>6 DEF FPKeys
  <2>2. Capped(ByFP(s.fp), FPLimit) BY <2>1 DEF IInv, KeysKnown, Known
  <2> QED BY <1>1, <1>3, <2>2, CappedCount DEF Span
<1>7. /\ Cardinality({t \in Recent : t.phone = s.phone}) <= PhoneLimit
      /\ Cardinality({t \in Recent : t.ip = s.ip}) <= IPLimit
      /\ s.fp # Missing => Cardinality({t \in Recent : t.fp = s.fp}) <= FPLimit
  BY <1>2, <1>4, <1>5, <1>6
<1> QED BY <1>7 DEF Span

\* The hourly limits of the phone, the IP and the fingerprint hold in every hour
\* shortened by the longest wait for the mutex.
THEOREM Limited == Spec => []LimitsHold
<1> QED BY LimitsFollow, Invariance, PTL

LEMMA CostFollows == IInv => CostIsCharged
<1> SUFFICES ASSUME IInv, NEW app \in Apps PROVE DailyCostCents(app) = charges[app][Today]
  BY DEF CostIsCharged
<1> USE DEF IInv
<1>1. PICK today \in Days : today = Today BY TodayIsADay DEF TypeOK
<1>2. PICK day \in Days \cup {-1}, cents \in Nat :
        tenantCosts[app] = [day |-> day, cents |-> cents]
  BY DEF TypeOK
<1>3. /\ day <= today
      /\ today = day => charges[app][today] = cents
      /\ today > day => charges[app][today] = 0
  BY <1>1, <1>2 DEF Charged
<1>4. today \in Int /\ day \in Int BY DEF Days
<1>5. CASE day = today BY <1>1, <1>2, <1>3, <1>5 DEF DailyCostCents
<1>6. CASE day # today
  <2>1. today > day BY <1>3, <1>4, <1>6
  <2>2. DailyCostCents(app) = 0 BY <1>1, <1>2, <1>6 DEF DailyCostCents
  <2> QED BY <1>1, <1>3, <2>1, <2>2
<1> QED BY <1>5, <1>6

\* The cost shown is what was charged today, across midnights.
THEOREM CostCharged == Spec => []CostIsCharged
<1> QED BY CostFollows, Invariance, PTL
-----------------------------------------------------------------------------
(* A client that waits as long as it was told to *)

LEMMA TooSoonWaited ==
    ASSUME NEW times \in Seq(Times), NEW later \in Int,
           times # <<>> => later - times[Len(times)] >= Gap,
           PruneOld(times, later, Hour) # <<>>
    PROVE  later - PruneOld(times, later, Hour)[Len(PruneOld(times, later, Hour))] >= Gap
<1>1. Times \in SUBSET Int /\ Hour \in Int BY Constants
<1> DEFINE p == PruneOld(times, later, Hour)
<1>2. PICK k \in 0..Len(times) :
        /\ p \in Seq(Times) /\ Len(p) = Len(times) - k
        /\ \A i \in 1..(Len(times) - k) : p[i] = times[i + k]
  BY <1>1, Pruning
<1>3. p # <<>> OBVIOUS
<1> HIDE DEF p
<1>4. Len(times) \in Nat /\ Len(p) \in Nat /\ Len(p) # 0 BY <1>2, <1>3, LenProperties, EmptySeq
<1>5. Len(p) \in 1..(Len(times) - k) /\ Len(p) + k = Len(times) BY <1>2, <1>4
<1>6. p[Len(p)] = times[Len(times)] BY <1>2, <1>5
<1>7. times # <<>>
  <2>1. Len(times) # 0 BY <1>2, <1>4
  <2> QED BY <2>1, EmptySeq
<1>8. later - p[Len(p)] >= Gap BY <1>6, <1>7
<1> QED BY <1>8 DEF p

LEMMA FullWaited ==
    ASSUME NEW times \in Seq(Times), NEW later \in Int, NEW limit \in Nat \ {0},
           Len(times) = limit, times[1] < later - Hour
    PROVE  ~(Len(PruneOld(times, later, Hour)) >= limit)
<1>1. Times \in SUBSET Int /\ Hour \in Int BY Constants
<1> DEFINE p == PruneOld(times, later, Hour)
<1>2. PICK k \in 0..Len(times) :
        /\ Len(p) = Len(times) - k
        /\ k < Len(times) => times[k + 1] >= later - Hour
  BY <1>1, Pruning
<1> HIDE DEF p
<1>3. times[1] \in Int
  <2>1. 1 \in 1..Len(times) OBVIOUS
  <2>2. times[1] \in Times BY <2>1, ElementOfSeq
  <2> QED BY <1>1, <2>2
<1>4. k # 0
  <2>1. ASSUME k = 0 PROVE FALSE
    <3>1. times[1] >= later - Hour BY <1>2, <2>1
    <3> QED BY <1>1, <1>3, <3>1
  <2> QED BY <2>1
<1>5. ~(Len(p) >= limit) BY <1>2, <1>4
<1> QED BY <1>5 DEF p

\* The list a refusal leaves is full of the last hour's times, and its first is
\* outdated when the wait is over.
LEMMA FullThenWaited ==
    ASSUME NEW times \in Seq(Times), NEW at \in Times, NEW limit \in Nat \ {0},
           Len(times) <= limit, Len(PruneOld(times, at, Hour)) >= limit,
           NEW later \in Int, later - at > Hour - (at - PruneOld(times, at, Hour)[1])
    PROVE  ~(Len(PruneOld(PruneOld(times, at, Hour), later, Hour)) >= limit)
<1>1. at \in Int /\ Hour \in Int BY Constants
<1>2. PICK p : p = PruneOld(times, at, Hour) OBVIOUS
<1>3. p \in Seq(Times) BY <1>1, <1>2, PrunedList
<1>4. Len(p) = limit /\ p[1] \in Times BY <1>2, FullList
<1>5. p[1] \in Int BY <1>4, Constants
<1>6. p[1] < later - Hour BY <1>1, <1>2, <1>5
<1> QED BY <1>2, <1>3, <1>4, <1>6, FullWaited

LEMMA RefusedWaits ==
    ASSUME IInv, NEW c \in Checks, NEW rule \in RuleNames, Refuse(c, rule)
    PROVE  WaitedOut(c, rule)'
<1> USE DEF IInv
<1>1. PICK ask \in Asks :
        /\ ask = check[c].ask /\ ask.phone \in Phones /\ ask.ip \in IPs
        /\ ask.fp \in FPKeys /\ ask.at \in Times
  BY WaitingAsk DEF Refuse
<1>2. Refuses(rule, ask) BY <1>1 DEF Refuse, RefusedBy
<1>3. PICK wait \in Nat \ {0} :
        /\ wait = WaitSeconds(ask, rule)
        /\ wait * Second > LeftOf(ask, rule)
        /\ check' = [check EXCEPT ![c] = [pc |-> "refused", ask |-> ask, wait |-> wait]]
  BY <1>1, <1>2, WaitIsPositive DEF Refuse
<1>4. PICK span \in Nat : span = wait * Second BY TimeAssumption
<1>5. PICK later \in Int : later = ask.at + span BY <1>1 DEF Times
<1>6. PICK again : again = [ask EXCEPT !.at = ask.at + span] OBVIOUS
<1>7. /\ again.phone = ask.phone /\ again.ip = ask.ip /\ again.fp = ask.fp
      /\ again.at = later
  BY <1>5, <1>6 DEF Asks
<1>8. /\ phoneCounters' = [phoneCounters EXCEPT ![ask.phone] = PhoneTimes(ask)]
      /\ ipCounters' = IF rule \in {"too soon", "phone"} THEN ipCounters
                       ELSE [ipCounters EXCEPT ![ask.ip] = IPTimes(ask)]
      /\ fpCounters' = IF rule # "fingerprint" THEN fpCounters
                       ELSE [fpCounters EXCEPT ![ask.fp] = FPTimes(ask)]
  BY <1>1 DEF Refuse
<1>9. ask.at \in Int /\ later - ask.at = span BY <1>1, <1>4, <1>5 DEF Times
<1>10. later - ask.at > LeftOf(ask, rule) BY <1>3, <1>4, <1>9
<1>11. ~Refuses(rule, again)'
  <2>1. CASE rule = "too soon"
    <3> DEFINE p == PhoneTimes(ask)
    <3>1. p # <<>> BY <1>2, <2>1 DEF Refuses, TooSoon
    <3>2. p \in Seq(Times) BY <1>1, <1>9, PrunedList DEF Lists, PhoneTimes
    <3>3. p[Len(p)] \in Int
      <4>1. phoneCounters[ask.phone] \in Seq(Times) BY <1>1 DEF Lists
      <4>2. p[Len(p)] \in Times BY <1>9, <3>1, <4>1, PrunedList DEF PhoneTimes
      <4> QED BY <4>2, Constants
    <3>4. later - ask.at > Gap - (ask.at - p[Len(p)])
      BY <1>10, <2>1 DEF LeftOf, Elapsed
    <3>5. phoneCounters'[again.phone] = p BY <1>1, <1>7, <1>8 DEF Lists
    <3> HIDE DEF p
    <3>6. later - p[Len(p)] >= Gap BY <1>9, <3>3, <3>4, TimeAssumption
    <3>7. PICK q : q = PruneOld(p, later, Hour) OBVIOUS
    <3>8. q # <<>> => later - q[Len(q)] >= Gap BY <3>2, <3>6, <3>7, TooSoonWaited
    <3>9. PhoneTimes(again)' = q BY <1>7, <3>5, <3>7 DEF PhoneTimes
    <3>10. ~TooSoon(again)'
      <4>1. CASE q = <<>> BY <3>9, <4>1 DEF TooSoon
      <4>2. CASE q # <<>>
        <5>1. q \in Seq(Times) /\ q[Len(q)] \in Times BY <3>2, <3>7, <4>2, PrunedList
        <5>2. q[Len(q)] \in Int BY <5>1, Constants
        <5>3. Elapsed(again)' = later - q[Len(q)] BY <1>7, <3>9 DEF Elapsed
        <5>4. ~(later - q[Len(q)] < Gap) BY <3>8, <4>2, <5>2, TimeAssumption
        <5> QED BY <5>3, <5>4 DEF TooSoon
      <4> QED BY <4>1, <4>2
    <3> QED BY <2>1, <3>10 DEF Refuses
  <2>2. CASE rule = "phone"
    <3>1. Len(PhoneTimes(ask)) >= PhoneLimit BY <1>2, <2>2 DEF Refuses, PhoneFull
    <3>2. later - ask.at > Hour - (ask.at - PhoneTimes(ask)[1]) BY <1>10, <2>2 DEF LeftOf
    <3>3. phoneCounters[ask.phone] \in Seq(Times) /\ Len(phoneCounters[ask.phone]) <= PhoneLimit
      BY <1>1 DEF TypeOK
    <3>4. PhoneLimit \in Nat \ {0} BY LimitAssumption
    <3>5. ~(Len(PruneOld(PhoneTimes(ask), later, Hour)) >= PhoneLimit)
      BY <1>1, <3>1, <3>2, <3>3, <3>4, FullThenWaited DEF PhoneTimes
    <3>6. phoneCounters'[again.phone] = PhoneTimes(ask) BY <1>1, <1>7, <1>8 DEF Lists
    <3>7. PhoneTimes(again)' = PruneOld(PhoneTimes(ask), later, Hour)
      BY <1>7, <3>6 DEF PhoneTimes
    <3>8. ~PhoneFull(again)' BY <3>5, <3>7 DEF PhoneFull
    <3> QED BY <2>2, <3>8 DEF Refuses
  <2>3. CASE rule = "ip"
    <3>1. Len(IPTimes(ask)) >= IPLimit BY <1>2, <2>3 DEF Refuses, IPFull
    <3>2. later - ask.at > Hour - (ask.at - IPTimes(ask)[1]) BY <1>10, <2>3 DEF LeftOf
    <3>3. ipCounters[ask.ip] \in Seq(Times) /\ Len(ipCounters[ask.ip]) <= IPLimit
      BY <1>1 DEF TypeOK
    <3>4. IPLimit \in Nat \ {0} BY LimitAssumption
    <3>5. ~(Len(PruneOld(IPTimes(ask), later, Hour)) >= IPLimit)
      BY <1>1, <3>1, <3>2, <3>3, <3>4, FullThenWaited DEF IPTimes
    <3>6. ipCounters'[again.ip] = IPTimes(ask) BY <1>1, <1>7, <1>8, <2>3 DEF Lists
    <3>7. IPTimes(again)' = PruneOld(IPTimes(ask), later, Hour) BY <1>7, <3>6 DEF IPTimes
    <3>8. ~IPFull(again)' BY <3>5, <3>7 DEF IPFull
    <3> QED BY <2>3, <3>8 DEF Refuses
  <2>4. CASE rule = "fingerprint"
    <3>1. Len(FPTimes(ask)) >= FPLimit /\ ask.fp \in Fingerprints
      BY <1>1, <1>2, <2>4 DEF Refuses, FPFull, FPKeys
    <3>2. later - ask.at > Hour - (ask.at - FPTimes(ask)[1]) BY <1>10, <2>4 DEF LeftOf
    <3>3. fpCounters[ask.fp] \in Seq(Times) /\ Len(fpCounters[ask.fp]) <= FPLimit
      BY <3>1 DEF TypeOK
    <3>4. FPLimit \in Nat \ {0} BY LimitAssumption
    <3>5. ~(Len(PruneOld(FPTimes(ask), later, Hour)) >= FPLimit)
      BY <1>1, <3>1, <3>2, <3>3, <3>4, FullThenWaited DEF FPTimes
    <3>6. fpCounters'[again.fp] = FPTimes(ask) BY <1>7, <1>8, <2>4, <3>1 DEF Lists
    <3>7. FPTimes(again)' = PruneOld(FPTimes(ask), later, Hour) BY <1>7, <3>6 DEF FPTimes
    <3>8. ~FPFull(again)' BY <3>5, <3>7 DEF FPFull
    <3> QED BY <2>4, <3>8 DEF Refuses
  <2> QED BY <2>1, <2>2, <2>3, <2>4 DEF RuleNames
<1>12. check'[c].ask = ask /\ check'[c].wait = wait BY <1>3 DEF TypeOK
<1>13. [check'[c].ask EXCEPT !.at = check'[c].ask.at + check'[c].wait * Second] = again
  BY <1>4, <1>6, <1>12
<1> QED BY <1>11, <1>13 DEF WaitedOut

\* A client that waits as long as it was told to is not refused by that rule again,
\* unless another SMS was allowed meanwhile.
THEOREM WaitSuffices == Spec => WaitIsEnough
<1>1. IInv /\ [Next]_vars =>
        [\A c \in Checks, rule \in {"too soon", "phone", "ip", "fingerprint"} :
            Refuse(c, rule) => WaitedOut(c, rule)']_vars
  BY RefusedWaits DEF RuleNames
<1> QED BY <1>1, Invariance, PTL DEF Spec, WaitIsEnough
=============================================================================
