---------------------------- MODULE PartsProofs -----------------------------
(***************************************************************************)
(* Proofs about the parts that share no state with any other, for every    *)
(* value of their constants: the rates of the risk engine, the adaptive    *)
(* policy engine, and the three client SDKs.                               *)
(*   A list of the risk engine is pruned by the time of a request that may *)
(* have waited, so what it has lost is related to the hour before now, and *)
(* a request counts the minute before a time that is at most MaxLag ago.   *)
(***************************************************************************)
EXTENDS RiskEngine, AdaptivePolicy, Clients, FiniteSetTheorems, SequenceTheorems, TLAPS

-----------------------------------------------------------------------------
(* SlidingWindow *)

LEMMA UpTo == \A n \in Nat : IsFiniteSet(1..n) /\ Cardinality(1..n) = n
<1> SUFFICES ASSUME NEW n \in Nat PROVE IsFiniteSet(1..n) /\ Cardinality(1..n) = n OBVIOUS
<1>1. IsFiniteSet(1..n) /\ Cardinality(1..n) = IF 1 > n THEN 0 ELSE n - 1 + 1 BY FS_Interval
<1> QED BY <1>1

\* What is outdated is a prefix.
LEMMA OutdatedPrefix ==
    ASSUME NEW times \in Seq(Int), NEW now \in Int, NEW window \in Int
    PROVE  \E k \in 0..Len(times) :
             /\ Cardinality(Outdated(times, now, window)) = k
             /\ Outdated(times, now, window) = 1..k
<1> DEFINE O == Outdated(times, now, window)
<1>1. O \in SUBSET (1..Len(times)) /\ \A i \in O : 1..i \subseteq O
  BY DEF Outdated
<1> HIDE DEF O
<1>2. IsFiniteSet(1..Len(times)) BY LenProperties, UpTo
<1>3. IsFiniteSet(O) BY <1>1, <1>2, FS_Subset
<1>4. PICK k \in Nat : k = Cardinality(O) BY <1>3, FS_CardinalityType
<1>5. k <= Len(times)
  <2>1. k <= Cardinality(1..Len(times)) BY <1>1, <1>2, <1>4, FS_Subset
  <2>2. Len(times) \in Nat /\ Cardinality(1..Len(times)) = Len(times) BY LenProperties, UpTo
  <2> QED BY <2>1, <2>2
<1>6. ASSUME NEW i \in O PROVE i \in 1..k
  <2>1. i \in Nat /\ 1 <= i /\ 1..i \in SUBSET O BY <1>1
  <2>2. Cardinality(1..i) <= k BY <1>3, <1>4, <2>1, FS_Subset
  <2>3. Cardinality(1..i) = i BY <2>1, UpTo
  <2> QED BY <2>1, <2>2, <2>3
<1>7. O = 1..k
  <2>1. IsFiniteSet(1..k) /\ Cardinality(1..k) = k BY UpTo
  <2>2. O \in SUBSET (1..k) BY <1>6
  <2> QED BY <1>4, <2>1, <2>2, FS_Subset
<1> QED BY <1>4, <1>5, <1>7 DEF O

\* PruneOld drops a prefix of times that are too old.
LEMMA Pruning ==
    ASSUME NEW S \in SUBSET Int, NEW times \in Seq(S), NEW now \in Int, NEW window \in Int
    PROVE  \E k \in 0..Len(times) :
             /\ PruneOld(times, now, window) \in Seq(S)
             /\ Len(PruneOld(times, now, window)) = Len(times) - k
             /\ \A i \in 1..(Len(times) - k) : PruneOld(times, now, window)[i] = times[i + k]
             /\ \A i \in 1..k : times[i] < now - window
<1>1. times \in Seq(Int) BY SeqMonotonic
<1>2. PICK k \in 0..Len(times) : /\ Cardinality(Outdated(times, now, window)) = k
                                 /\ Outdated(times, now, window) = 1..k
  BY <1>1, OutdatedPrefix
<1> DEFINE p == PruneOld(times, now, window)
<1>3. p = SubSeq(times, k + 1, Len(times)) BY <1>2 DEF PruneOld
<1> HIDE DEF p
<1>4. Len(times) \in Nat /\ \A i \in 1..Len(times) : times[i] \in S BY ElementOfSeq, LenProperties
<1>5. /\ p \in Seq(S)
      /\ Len(p) = Len(times) - k
      /\ \A i \in 1..(Len(times) - k) : p[i] = times[i + k]
  <2>1. k + 1 \in Int /\ Len(times) \in Int /\ \A i \in (k + 1)..Len(times) : times[i] \in S
    BY <1>4
  <2> QED BY <1>3, <1>4, <2>1, SubSeqProperties
<1>6. \A i \in 1..k : times[i] < now - window
  <2>1. \A i \in 1..k : i \in Outdated(times, now, window) BY <1>2
  <2> QED BY <2>1 DEF Outdated
<1> QED BY <1>5, <1>6 DEF p
-----------------------------------------------------------------------------
(* A list of request times and the whole history of its key *)

\* The list is what the history ends with, and what it lacks is older than since.
Ending(kept, all, since) ==
    \E d \in 0..Len(all) :
        /\ Len(kept) = Len(all) - d
        /\ \A i \in 1..Len(kept) : kept[i] = all[i + d]
        /\ \A i \in 1..d : all[i] < since

LEMMA EndingLater ==
    ASSUME NEW kept, NEW all \in Seq(Times), NEW c \in Int, NEW e \in Int, c <= e,
           Ending(kept, all, c)
    PROVE  Ending(kept, all, e)
<1>1. PICK d \in 0..Len(all) :
        /\ Len(kept) = Len(all) - d
        /\ \A i \in 1..Len(kept) : kept[i] = all[i + d]
        /\ \A i \in 1..d : all[i] < c
  BY DEF Ending
<1>2. \A i \in 1..d : all[i] \in Int
  <2>1. Len(all) \in Nat /\ \A i \in 1..Len(all) : all[i] \in Times
    BY LenProperties, ElementOfSeq
  <2> QED BY <2>1, TimeAssumption DEF Times
<1>3. \A i \in 1..d : all[i] < e BY <1>1, <1>2
<1> QED BY <1>1, <1>3 DEF Ending

\* A request is recorded by its own time, and prunes by it too.
LEMMA EndingRecorded ==
    ASSUME NEW kept \in Seq(Times), NEW all \in Seq(Times), NEW now \in Times, NEW since \in Int,
           now - Hour <= since, Ending(kept, all, since)
    PROVE  Recorded(kept, now) \in Seq(Times) /\ Ending(Recorded(kept, now), Append(all, now), since)
<1>1. Hour \in Int /\ Times \in SUBSET Int BY TimeAssumption DEF Times
<1>2. PICK d \in 0..Len(all) :
        /\ Len(kept) = Len(all) - d
        /\ \A i \in 1..Len(kept) : kept[i] = all[i + d]
        /\ \A i \in 1..d : all[i] < since
  BY DEF Ending
<1> DEFINE k1 == Append(kept, now)
           a1 == Append(all, now)
           r  == Recorded(kept, now)
<1>3. PICK m \in Nat : m = Len(kept) /\ Len(all) = m + d
  <2>1. Len(kept) \in Nat /\ Len(all) \in Nat BY LenProperties
  <2> QED BY <1>2, <2>1
<1>4. k1 \in Seq(Times) /\ Len(k1) = m + 1 /\ k1[m + 1] = now /\ \A i \in 1..m : k1[i] = kept[i]
  BY <1>3, AppendProperties
<1>5. Len(a1) = m + d + 1 /\ a1[m + d + 1] = now /\ \A i \in 1..(m + d) : a1[i] = all[i]
  BY <1>3, AppendProperties
<1>6. r = PruneOld(k1, now, Hour) BY DEF Recorded
<1> HIDE DEF k1, a1, r
<1>7. PICK k \in 0..Len(k1) :
        /\ r \in Seq(Times)
        /\ Len(r) = Len(k1) - k
        /\ \A i \in 1..(Len(k1) - k) : r[i] = k1[i + k]
        /\ \A i \in 1..k : k1[i] < now - Hour
  <2>1. now \in Int /\ Hour \in Int /\ Times \in SUBSET Int /\ k1 \in Seq(Times) BY <1>1, <1>4
  <2>2. \E k \in 0..Len(k1) :
          /\ PruneOld(k1, now, Hour) \in Seq(Times)
          /\ Len(PruneOld(k1, now, Hour)) = Len(k1) - k
          /\ \A i \in 1..(Len(k1) - k) : PruneOld(k1, now, Hour)[i] = k1[i + k]
          /\ \A i \in 1..k : k1[i] < now - Hour
    BY <2>1, Pruning
  <2> QED BY <1>6, <2>2, Zenon
<1>8. \A i \in 1..(m + 1) : k1[i] = a1[i + d]
  <2> SUFFICES ASSUME NEW i \in 1..(m + 1) PROVE k1[i] = a1[i + d] OBVIOUS
  <2>1. CASE i = m + 1
    <3>1. i + d = m + d + 1 BY <2>1
    <3> QED BY <1>4, <1>5, <2>1, <3>1
  <2>2. CASE i \in 1..m
    <3>1. i + d \in 1..(m + d) BY <2>2
    <3> QED BY <1>2, <1>3, <1>4, <1>5, <2>2, <3>1
  <2> QED BY <2>1, <2>2
<1>9. PICK n \in 0..Len(a1) : n = d + k
  <2>1. d + k \in 0..Len(a1) BY <1>4, <1>5, <1>7
  <2> QED BY <2>1
<1>10. Len(r) = Len(a1) - n BY <1>4, <1>5, <1>7, <1>9
<1>11. ASSUME NEW i \in 1..Len(r) PROVE r[i] = a1[i + n]
  <2>1. i \in 1..(Len(k1) - k) /\ i + k \in 1..(m + 1) /\ (i + k) + d = i + n
    BY <1>4, <1>7, <1>9
  <2> QED BY <1>7, <1>8, <2>1
<1>12. ASSUME NEW i \in 1..n PROVE a1[i] < since
  <2>1. CASE i \in 1..d
    <3>1. i \in 1..(m + d) BY <2>1
    <3> QED BY <1>2, <1>5, <2>1, <3>1
  <2>2. CASE i - d \in 1..k
    <3>1. i - d \in 1..(m + 1) /\ (i - d) + d = i BY <1>4, <1>7, <2>2
    <3>2. k1[i - d] = a1[i] BY <1>8, <3>1
    <3>3. a1[i] \in Int
      <4>1. k1[i - d] \in Times BY <1>4, <3>1, ElementOfSeq
      <4> QED BY <1>1, <3>2, <4>1
    <3>4. a1[i] < now - Hour BY <1>7, <2>2, <3>2
    <3> QED BY <1>1, <3>3, <3>4
  <2>3. i \in 1..d \/ i - d \in 1..k BY <1>9
  <2> QED BY <2>1, <2>2, <2>3
<1>13. Ending(r, a1, since) BY <1>10, <1>11, <1>12 DEF Ending
<1> QED BY <1>7, <1>13 DEF r, a1

\* What the list lacks is older than what is counted.
LEMMA SameCount ==
    ASSUME NEW kept \in Seq(Times), NEW all \in Seq(Times), NEW since \in Int, NEW from \in Int,
           since <= from, Ending(kept, all, since)
    PROVE  CountSince(kept, from) = CountSince(all, from)
<1>1. PICK d \in 0..Len(all) :
        /\ Len(kept) = Len(all) - d
        /\ \A i \in 1..Len(kept) : kept[i] = all[i + d]
        /\ \A i \in 1..d : all[i] < since
  BY DEF Ending
<1>2. Len(all) \in Nat /\ Len(kept) \in Nat BY LenProperties
<1>3. \A i \in 1..Len(all) : all[i] \in Int
  <2>1. \A i \in 1..Len(all) : all[i] \in Times BY ElementOfSeq
  <2> QED BY <2>1, TimeAssumption DEF Times
<1> DEFINE K == {i \in DOMAIN kept : kept[i] >= from}
           A == {i \in DOMAIN all : all[i] >= from}
           g == [i \in K |-> i + d]
<1>4. DOMAIN kept = 1..Len(kept) /\ DOMAIN all = 1..Len(all) BY LenProperties
<1>5. ASSUME NEW i \in K PROVE i + d \in A
  BY <1>1, <1>2, <1>4
<1>6. ASSUME NEW j \in A PROVE j - d \in K /\ (j - d) + d = j
  <2>1. ~(j \in 1..d)
    <3> SUFFICES ASSUME j \in 1..d PROVE FALSE OBVIOUS
    <3>1. all[j] \in Int /\ all[j] < since /\ all[j] >= from BY <1>1, <1>3, <1>4
    <3> QED BY <3>1
  <2>2. j - d \in 1..Len(kept) /\ (j - d) + d = j BY <1>1, <1>2, <1>4, <2>1
  <2> QED BY <1>1, <1>4, <2>2
<1>7. K \in SUBSET Int BY <1>4
<1> HIDE DEF K, A
<1>8. g \in Bijection(K, A)
  <2>1. g \in [K -> A] BY <1>5
  <2>2. ASSUME NEW a \in K, NEW b \in K, g[a] = g[b] PROVE a = b BY <1>7, <2>2
  <2>3. ASSUME NEW j \in A PROVE \E i \in K : g[i] = j BY <1>6
  <2> HIDE DEF g
  <2>4. IsInjective(g) /\ g \in Injection(K, A) BY <2>1, <2>2 DEF Injection, IsInjective
  <2>5. g \in Surjection(K, A) BY <2>1, <2>3 DEF Surjection
  <2> QED BY <2>4, <2>5 DEF Bijection
<1>9. Cardinality(K) = Cardinality(A)
  <2>1. ExistsBijection(K, A) BY <1>8 DEF ExistsBijection
  <2>2. IsFiniteSet(K)
    <3>1. K \in SUBSET (1..Len(kept)) BY <1>4 DEF K
    <3> QED BY <1>2, <3>1, UpTo, FS_Subset
  <2> QED BY <2>1, <2>2, FS_Bijection
<1> QED BY <1>9 DEF CountSince, K, A
-----------------------------------------------------------------------------
(* The inductive invariant of RiskEngine *)

Keys == IPs \cup Fingerprints

Lists ==
    /\ ipCounters \in [IPs -> Seq(Times)]
    /\ fpCounters \in [Fingerprints -> Seq(Times)]
    /\ seen \in [Keys -> Seq(Times)]

\* A request that waits for the mutex was stamped at most MaxLag ago.
Rating ==
    /\ clock \in Times
    /\ precheck \in [Prechecks -> {Idle} \cup [pc : {"rating"}, ask : Asks]]
    /\ \A h \in Prechecks : precheck[h] # Idle =>
          precheck[h].ask.at <= clock /\ clock - precheck[h].ask.at <= MaxLag

\* No list lacks a request of the last hour.
HourKept ==
    /\ \A ip \in IPs : Ending(ipCounters[ip], seen[ip], clock - Hour)
    /\ \A fp \in Fingerprints : Ending(fpCounters[fp], seen[fp], clock - Hour)

IInv == Lists /\ Rating /\ HourKept /\ RatesComplete

LEMMA Constants ==
    /\ Hour \in Int /\ Minute \in Int /\ MaxLag \in Nat /\ MaxLag + Minute <= Hour
    /\ MaxClock \in Nat /\ Times \in SUBSET Int /\ Times \in SUBSET Nat
BY TimeAssumption DEF Times

LEMMA Init_IInv == Init => IInv
<1> SUFFICES ASSUME Init PROVE IInv OBVIOUS
<1>1. <<>> \in Seq(Times) /\ Len(<<>>) = 0 BY EmptySeq
<1>2. Lists BY <1>1 DEF Init, Lists, Keys
<1>3. Rating BY Constants DEF Init, Rating, Times
<1>4. \A c : Ending(<<>>, <<>>, c)
  <2> SUFFICES ASSUME NEW c PROVE Ending(<<>>, <<>>, c) OBVIOUS
  <2>1. 0 \in 0..Len(<<>>) /\ Len(<<>>) = Len(<<>>) - 0 BY <1>1
  <2> QED BY <1>1, <2>1 DEF Ending
<1>5. HourKept BY <1>4 DEF Init, HourKept
<1>6. RatesComplete BY DEF Init, RatesComplete
<1> QED BY <1>2, <1>3, <1>5, <1>6 DEF IInv

IPRateLabels == {"ip_rate_elevated", "ip_rate_high", "ip_rate_extreme"}
FPRateLabels == {"fp_rate_elevated", "fp_rate_high", "fp_rate_extreme"}

\* The tiers exclude one another.
LEMMA OneTier ==
    ASSUME NEW n, NEW tiers, NEW a, NEW b, NEW c
    PROVE  RateLabel(n, tiers, a, b, c) \in {{}, {a}, {b}, {c}}
BY Zenon DEF RateLabel

LEMMA IPRateLabel ==
    ASSUME NEW times, NEW now
    PROVE  IPRate(times, now) \in {{}} \cup {{l} : l \in IPRateLabels}
<1> DEFINE n == InLastMinute(times, now)
<1>1. RateLabel(n, IPTiers, "ip_rate_elevated", "ip_rate_high", "ip_rate_extreme")
        \in {{}, {"ip_rate_elevated"}, {"ip_rate_high"}, {"ip_rate_extreme"}}
  BY OneTier
<1> QED BY <1>1 DEF IPRate, IPRateLabels

LEMMA FPRateLabel ==
    ASSUME NEW times, NEW now
    PROVE  FPRate(times, now) \subseteq FPRateLabels
<1> DEFINE n == InLastMinute(times, now)
<1>1. RateLabel(n, FPTiers, "fp_rate_elevated", "fp_rate_high", "fp_rate_extreme")
        \in {{}, {"fp_rate_elevated"}, {"fp_rate_high"}, {"fp_rate_extreme"}}
  BY OneTier
<1> QED BY <1>1 DEF FPRate, FPRateLabels

\* The labels of an address, a profile and a fingerprint are not rates of an IP.
LEMMA OtherLabels ==
    ASSUME NEW ask \in Asks, NEW list
    PROVE  /\ IPLabels[ask.ip] \cap IPRateLabels = {}
           /\ ask.profile \cap IPRateLabels = {}
           /\ {"missing_fingerprint"} \cap IPRateLabels = {}
           /\ FPRate(list, ask.at) \cap IPRateLabels = {}
<1>1. ask.ip \in IPs /\ ask.profile \in Profiles BY DEF Asks
<1>2. IPLabels[ask.ip] \in SUBSET (Labels \ RateLabels) /\ ask.profile \in SUBSET (Labels \ RateLabels)
  <2> HIDE DEF Labels, RateLabels
  <2> QED BY <1>1, LabelAssumption
<1>3. IPRateLabels \subseteq RateLabels BY DEF IPRateLabels, RateLabels
<1>4. FPRate(list, ask.at) \subseteq FPRateLabels BY FPRateLabel
<1>5. FPRateLabels \cap IPRateLabels = {} /\ "missing_fingerprint" \notin IPRateLabels
  BY DEF FPRateLabels, IPRateLabels
<1> QED BY <1>2, <1>3, <1>4, <1>5

LEMMA DecideKeeps == ASSUME IInv, NEW h \in Prechecks, Decide(h) PROVE IInv'
<1> DEFINE ask    == precheck[h].ask
           ipList == Recorded(ipCounters[ask.ip], ask.at)
           fpList == Recorded(fpCounters[ask.fp], ask.at)
           fpSays == IF ask.fp = Missing THEN {"missing_fingerprint"} ELSE FPRate(fpList, ask.at)
           labels == IPLabels[ask.ip] \cup ask.profile \cup IPRate(ipList, ask.at) \cup fpSays
<1>1. precheck[h] \in [pc : {"rating"}, ask : Asks] /\ precheck[h] # Idle
  <2>1. precheck[h].pc = "rating" BY DEF Decide
  <2>2. Idle.pc # "rating" BY DEF Idle
  <2> QED BY <2>1, <2>2 DEF IInv, Rating
<1>2. /\ ask \in Asks /\ ask.ip \in IPs /\ ask.at \in Times
      /\ ask.fp \in Fingerprints \cup {Missing}
      /\ ask.at <= clock /\ clock - ask.at <= MaxLag /\ clock \in Times
  <2>1. ask \in Asks BY <1>1
  <2> QED BY <1>1, <2>1 DEF IInv, Rating, Asks
<1>3. /\ clock' = clock
      /\ ipCounters' = [ipCounters EXCEPT ![ask.ip] = ipList]
      /\ fpCounters' = IF ask.fp = Missing THEN fpCounters
                       ELSE [fpCounters EXCEPT ![ask.fp] = fpList]
      /\ precheck' = [precheck EXCEPT ![h] = Idle]
      /\ seen' = [key \in DOMAIN seen |->
                    IF key \in {ask.ip, ask.fp} THEN Append(seen[key], ask.at) ELSE seen[key]]
  BY Zenon DEF Decide
<1>4. decision'.ask = ask /\ decision'.labels = labels
  <2>1. CASE ask.fp = Missing
    <3>1. \E score, action : decision' = [ask |-> ask,
             labels |-> IPLabels[ask.ip] \cup ask.profile \cup IPRate(ipList, ask.at) \cup {"missing_fingerprint"},
             score |-> score, action |-> action]
      BY <2>1, Zenon DEF Decide
    <3> QED BY <2>1, <3>1
  <2>2. CASE ask.fp # Missing
    <3>1. \E score, action : decision' = [ask |-> ask,
             labels |-> IPLabels[ask.ip] \cup ask.profile \cup IPRate(ipList, ask.at) \cup FPRate(fpList, ask.at),
             score |-> score, action |-> action]
      BY <2>2, Zenon DEF Decide
    <3> QED BY <2>2, <3>1
  <2> QED BY <2>1, <2>2
<1> USE <1>2
<1> HIDE DEF ask, ipList, fpList, fpSays, labels
<1>5. /\ ipCounters \in [IPs -> Seq(Times)] /\ fpCounters \in [Fingerprints -> Seq(Times)]
      /\ seen \in [Keys -> Seq(Times)]
  BY DEF IInv, Lists
<1>6. /\ clock - Hour \in Int /\ ask.at - Hour <= clock - Hour
      /\ ask.at - Minute \in Int /\ clock - Hour <= ask.at - Minute
  <2>1. clock \in Int /\ ask.at \in Int BY Constants
  <2> QED BY <2>1, Constants
<1>7. ask.ip \in Keys /\ ask.ip # ask.fp /\ (ask.fp # Missing => ask.fp \in Keys /\ ask.fp \in Fingerprints)
  BY KeyAssumption DEF Keys
<1>8. /\ seen'[ask.ip] = Append(seen[ask.ip], ask.at)
      /\ ask.fp # Missing => seen'[ask.fp] = Append(seen[ask.fp], ask.at)
      /\ \A key \in Keys : key # ask.ip /\ key # ask.fp => seen'[key] = seen[key]
  BY <1>3, <1>5, <1>7
<1>9. ipList \in Seq(Times) /\ Ending(ipList, seen'[ask.ip], clock - Hour)
  <2>1. /\ ipCounters[ask.ip] \in Seq(Times) /\ seen[ask.ip] \in Seq(Times)
        /\ Ending(ipCounters[ask.ip], seen[ask.ip], clock - Hour)
    BY <1>5, <1>7 DEF IInv, HourKept
  <2> QED BY <1>6, <1>8, <2>1, EndingRecorded DEF ipList
<1>10. ask.fp # Missing => fpList \in Seq(Times) /\ Ending(fpList, seen'[ask.fp], clock - Hour)
  <2> SUFFICES ASSUME ask.fp # Missing
               PROVE  fpList \in Seq(Times) /\ Ending(fpList, seen'[ask.fp], clock - Hour)
    OBVIOUS
  <2>1. /\ fpCounters[ask.fp] \in Seq(Times) /\ seen[ask.fp] \in Seq(Times)
        /\ Ending(fpCounters[ask.fp], seen[ask.fp], clock - Hour)
    BY <1>5, <1>7 DEF IInv, HourKept
  <2> QED BY <1>6, <1>8, <2>1, EndingRecorded DEF fpList
<1>11. Lists'
  <2>1. seen' \in [Keys -> Seq(Times)]
    <3>1. \A key \in Keys : Append(seen[key], ask.at) \in Seq(Times) BY <1>5, AppendProperties
    <3> QED BY <1>3, <1>5, <3>1
  <2>2. ipCounters' \in [IPs -> Seq(Times)] BY <1>3, <1>5, <1>9
  <2>3. fpCounters' \in [Fingerprints -> Seq(Times)] BY <1>3, <1>5, <1>10
  <2> QED BY <2>1, <2>2, <2>3 DEF Lists
<1>12. Rating'
  <2>1. precheck \in [Prechecks -> {Idle} \cup [pc : {"rating"}, ask : Asks]] BY DEF IInv, Rating
  <2>2. precheck' \in [Prechecks -> {Idle} \cup [pc : {"rating"}, ask : Asks]] BY <1>3, <2>1
  <2>3. \A g \in Prechecks : precheck'[g] # Idle => g # h /\ precheck'[g] = precheck[g]
    BY <1>3, <2>1
  <2> QED BY <1>3, <2>2, <2>3 DEF IInv, Rating
<1>13. HourKept'
  <2>1. ASSUME NEW ip \in IPs PROVE Ending(ipCounters'[ip], seen'[ip], clock - Hour)
    <3>1. CASE ip = ask.ip
      <4>1. ipCounters'[ip] = ipList BY <1>3, <1>5, <3>1
      <4> QED BY <1>9, <3>1, <4>1
    <3>2. CASE ip # ask.ip
      <4>1. ip \in Keys /\ ip # ask.fp BY KeyAssumption DEF Keys
      <4>2. ipCounters'[ip] = ipCounters[ip] /\ seen'[ip] = seen[ip] BY <1>3, <1>5, <1>8, <3>2, <4>1
      <4> QED BY <4>2 DEF IInv, HourKept
    <3> QED BY <3>1, <3>2
  <2>2. ASSUME NEW fp \in Fingerprints PROVE Ending(fpCounters'[fp], seen'[fp], clock - Hour)
    <3>1. fp # Missing /\ fp # ask.ip /\ fp \in Keys BY KeyAssumption DEF Keys
    <3>2. CASE fp = ask.fp
      <4>1. fpCounters'[fp] = fpList BY <1>3, <1>5, <3>1, <3>2
      <4> QED BY <1>10, <3>1, <3>2, <4>1
    <3>3. CASE fp # ask.fp
      <4>1. fpCounters'[fp] = fpCounters[fp] /\ seen'[fp] = seen[fp] BY <1>3, <1>5, <1>8, <3>1, <3>3
      <4> QED BY <4>1 DEF IInv, HourKept
    <3> QED BY <3>2, <3>3
  <2> QED BY <1>3, <2>1, <2>2 DEF HourKept
<1>14. RatesComplete'
  <2>1. IPRate(seen'[ask.ip], ask.at) \subseteq labels
    <3>1. seen'[ask.ip] \in Seq(Times) BY <1>7, <1>11 DEF Lists
    <3>2. CountSince(ipList, ask.at - Minute) = CountSince(seen'[ask.ip], ask.at - Minute)
      BY <1>6, <1>9, <3>1, SameCount
    <3>3. IPRate(seen'[ask.ip], ask.at) = IPRate(ipList, ask.at)
      BY <3>2 DEF IPRate, InLastMinute
    <3> QED BY <3>3 DEF labels
  <2>2. ASSUME ask.fp # Missing PROVE FPRate(seen'[ask.fp], ask.at) \subseteq labels
    <3>1. seen'[ask.fp] \in Seq(Times) BY <1>7, <1>11, <2>2 DEF Lists
    <3>2. CountSince(fpList, ask.at - Minute) = CountSince(seen'[ask.fp], ask.at - Minute)
      BY <1>6, <1>10, <2>2, <3>1, SameCount
    <3>3. FPRate(seen'[ask.fp], ask.at) = FPRate(fpList, ask.at)
      BY <3>2 DEF FPRate, InLastMinute
    <3> QED BY <2>2, <3>3 DEF labels, fpSays
  <2>3. Cardinality(labels \cap IPRateLabels) <= 1
    <3>1. labels \cap IPRateLabels = IPRate(ipList, ask.at) \cap IPRateLabels
      <4>1. fpSays \cap IPRateLabels = {} BY OtherLabels DEF fpSays
      <4>2. IPLabels[ask.ip] \cap IPRateLabels = {} /\ ask.profile \cap IPRateLabels = {}
        BY OtherLabels
      <4> HIDE DEF IPRateLabels
      <4> QED BY <4>1, <4>2 DEF labels
    <3>2. PICK r \in {{}} \cup {{l} : l \in IPRateLabels} : r = labels \cap IPRateLabels
      <4>1. IPRate(ipList, ask.at) \in {{}} \cup {{l} : l \in IPRateLabels} BY IPRateLabel
      <4> HIDE DEF IPRateLabels
      <4> QED BY <3>1, <4>1
    <3>3. CASE r = {}
      <4>1. Cardinality({}) = 0 BY FS_EmptySet
      <4> QED BY <3>2, <3>3, <4>1
    <3>4. CASE r # {}
      <4>1. PICK l : r = {l} BY <3>2, <3>4
      <4>2. Cardinality({l}) = 1 BY FS_Singleton
      <4> QED BY <3>2, <4>1, <4>2
    <3> QED BY <3>3, <3>4
  <2> QED BY <1>4, <2>1, <2>2, <2>3 DEF RatesComplete, IPRateLabels
<1> QED BY <1>11, <1>12, <1>13, <1>14 DEF IInv

LEMMA TickKeeps == ASSUME IInv, Tick PROVE IInv'
<1>1. /\ clock \in Times /\ clock < MaxClock /\ clock' = clock + 1
      /\ UNCHANGED <<ipCounters, fpCounters, precheck, decision, seen>>
      /\ \A h \in Prechecks : precheck[h] # Idle => clock - precheck[h].ask.at < MaxLag
  BY DEF Tick, IInv, Rating
<1>2. clock' \in Times /\ clock \in Int /\ clock - Hour \in Int /\ clock' - Hour \in Int
      /\ clock - Hour <= clock' - Hour
  <2>1. clock \in Nat /\ clock + 1 <= MaxClock BY <1>1, Constants
  <2> QED BY <1>1, <2>1, Constants DEF Times
<1>3. Lists' BY <1>1 DEF IInv, Lists
<1>4. Rating'
  <2> SUFFICES ASSUME NEW h \in Prechecks, precheck[h] # Idle
               PROVE  precheck[h].ask.at <= clock' /\ clock' - precheck[h].ask.at <= MaxLag
    BY <1>1, <1>2 DEF IInv, Rating
  <2>1. precheck[h].ask.at \in Times BY DEF IInv, Rating, Asks
  <2>2. precheck[h].ask.at \in Int /\ precheck[h].ask.at <= clock
        /\ clock - precheck[h].ask.at < MaxLag
    BY <1>1, <2>1, Constants DEF IInv, Rating
  <2> QED BY <1>1, <1>2, <2>2, Constants
<1>5. HourKept'
  <2>1. /\ \A ip \in IPs : seen[ip] \in Seq(Times)
        /\ \A fp \in Fingerprints : seen[fp] \in Seq(Times)
    BY DEF IInv, Lists, Keys
  <2>2. ASSUME NEW ip \in IPs PROVE Ending(ipCounters[ip], seen[ip], clock' - Hour)
    <3>1. Ending(ipCounters[ip], seen[ip], clock - Hour) BY DEF IInv, HourKept
    <3> QED BY <1>2, <2>1, <3>1, EndingLater
  <2>3. ASSUME NEW fp \in Fingerprints PROVE Ending(fpCounters[fp], seen[fp], clock' - Hour)
    <3>1. Ending(fpCounters[fp], seen[fp], clock - Hour) BY DEF IInv, HourKept
    <3> QED BY <1>2, <2>1, <3>1, EndingLater
  <2> QED BY <1>1, <2>2, <2>3 DEF HourKept
<1>6. RatesComplete' BY <1>1 DEF IInv, RatesComplete
<1> QED BY <1>3, <1>4, <1>5, <1>6 DEF IInv

LEMMA ArriveKeeps ==
    ASSUME IInv, NEW h \in Prechecks, NEW ip \in IPs, NEW fp \in Fingerprints \cup {Missing},
           NEW profile \in Profiles, NEW policy \in ScenePolicies, Arrive(h, ip, fp, profile, policy)
    PROVE  IInv'
<1> DEFINE new == [pc |-> "rating", ask |->
              [ip |-> ip, fp |-> fp, profile |-> profile, policy |-> policy, at |-> clock]]
<1>1. /\ precheck' = [precheck EXCEPT ![h] = new]
      /\ UNCHANGED <<clock, ipCounters, fpCounters, decision, seen>>
  BY DEF Arrive
<1>2. new \in [pc : {"rating"}, ask : Asks] /\ new.ask.at = clock BY DEF IInv, Rating, Asks
<1>3. clock \in Int /\ 0 <= MaxLag BY Constants DEF IInv, Rating
<1> HIDE DEF new
<1>4. Rating'
  <2>1. precheck \in [Prechecks -> {Idle} \cup [pc : {"rating"}, ask : Asks]] BY DEF IInv, Rating
  <2>2. precheck' \in [Prechecks -> {Idle} \cup [pc : {"rating"}, ask : Asks]]
    BY <1>1, <1>2, <2>1
  <2>3. ASSUME NEW g \in Prechecks, precheck'[g] # Idle
        PROVE  precheck'[g].ask.at <= clock /\ clock - precheck'[g].ask.at <= MaxLag
    <3>1. CASE g = h
      <4>1. precheck'[g].ask.at = clock BY <1>1, <1>2, <2>1, <3>1
      <4> QED BY <1>3, <4>1, Constants
    <3>2. CASE g # h
      <4>1. precheck'[g] = precheck[g] BY <1>1, <2>1, <3>2
      <4> QED BY <2>3, <4>1 DEF IInv, Rating
    <3> QED BY <3>1, <3>2
  <2> QED BY <1>1, <2>2, <2>3 DEF IInv, Rating
<1>5. Lists' /\ HourKept' /\ RatesComplete'
  BY <1>1 DEF IInv, Lists, HourKept, RatesComplete
<1> QED BY <1>4, <1>5 DEF IInv

LEMMA Next_IInv == IInv /\ [Next]_vars => IInv'
<1> SUFFICES ASSUME IInv, [Next]_vars PROVE IInv' OBVIOUS
<1>1. CASE Tick BY <1>1, TickKeeps
<1>2. ASSUME NEW h \in Prechecks, NEW ip \in IPs, NEW fp \in Fingerprints \cup {Missing},
             NEW profile \in Profiles, NEW policy \in ScenePolicies,
             Arrive(h, ip, fp, profile, policy)
      PROVE  IInv'
  BY <1>2, ArriveKeeps
<1>3. ASSUME NEW h \in Prechecks, Decide(h) PROVE IInv' BY <1>3, DecideKeeps
<1>4. CASE UNCHANGED vars
  BY <1>4 DEF vars, IInv, Lists, Rating, HourKept, RatesComplete
<1> QED BY <1>1, <1>2, <1>3, <1>4 DEF Next

-----------------------------------------------------------------------------
(* RiskEngine's theorems *)

\* The lists of an hour lack no request of that hour, in every reachable state.
THEOREM Invariance == Spec => []IInv
BY Init_IInv, Next_IInv, PTL DEF Spec

\* RatesComplete: evaluateRates prunes by the time it read before it waited for the
\* mutex, yet no request is missing from the rate a decision was taken with.
THEOREM NoneUncounted == Spec => []RatesComplete
<1>1. IInv => RatesComplete BY DEF IInv
<1> QED BY <1>1, Invariance, PTL

-----------------------------------------------------------------------------
(* AdaptivePolicy, for every number of scenes, sample size, cap and bound  *)
(* on the outcomes                                                         *)

\* A policy of thresholds and actions alone, without lists.
PlainPolicy ==
    [enabled : {TRUE}, low : Int, high : Int, whitelist : {{}}, blacklist : {{}},
     actionLow : Actions, actionMid : Actions, actionHigh : Actions]

\* One whose thresholds are apart and whose actions get no milder as the score grows.
OrderedPolicy ==
    {p \in PlainPolicy :
        /\ 0 <= p.low /\ p.low < p.high /\ p.high <= 100
        /\ Severity[p.actionLow] <= Severity[p.actionMid]
        /\ Severity[p.actionMid] <= Severity[p.actionHigh]}

AdaptiveInv == AdaptiveTypeOK /\ RatesAreShares

-----------------------------------------------------------------------------
(* The adapted thresholds *)

\* Without lists, an enabled policy decides by its thresholds alone.
LEMMA ByThresholds ==
    ASSUME NEW p \in PlainPolicy, NEW score
    PROVE  Evaluate(score, p, "unlisted") =
             IF score <= p.low THEN p.actionLow
             ELSE IF score <= p.high THEN p.actionMid ELSE p.actionHigh
<1>1. p.enabled = TRUE /\ p.whitelist = {} /\ p.blacklist = {}
  BY DEF PlainPolicy
<1>2. Evaluate(score, p, "unlisted") = ByThreshold(score, p)
  BY <1>1 DEF Evaluate
<1>3. p.actionLow # "" /\ p.actionMid # "" /\ p.actionHigh # ""
  BY DEF PlainPolicy, Actions
<1> QED
  BY <1>2, <1>3, Zenon DEF ByThreshold, Coalesce

\* The thresholds of an adapted policy moved the way of the adjustment.
LEMMA AdaptedThresholds ==
    ASSUME NEW p \in OrderedPolicy, NEW adj \in Int
    PROVE  /\ Adapt(p, adj) \in PlainPolicy
           /\ Adapt(p, adj).actionLow = p.actionLow
           /\ Adapt(p, adj).actionMid = p.actionMid
           /\ Adapt(p, adj).actionHigh = p.actionHigh
           /\ adj >= 0 => Adapt(p, adj).low >= p.low /\ Adapt(p, adj).high >= p.high
           /\ adj <= 0 => Adapt(p, adj).low <= p.low /\ Adapt(p, adj).high <= p.high
<1>1. p \in PlainPolicy /\ p.low \in Int /\ p.high \in Int
      /\ 0 <= p.low /\ p.low < p.high /\ p.high <= 100
  BY DEF OrderedPolicy, PlainPolicy
<1>2. CASE adj = 0
  <2>1. Adapt(p, adj) = p
    BY <1>2 DEF Adapt
  <2> QED
    BY <2>1, <1>1
<1>3. CASE adj # 0
  <2> DEFINE low  == IF p.low + adj < 0 THEN 0 ELSE p.low + adj
             top  == IF p.high + adj < low + 1 THEN low + 1 ELSE p.high + adj
             high == IF top > 100 THEN 100 ELSE top
             q    == [p EXCEPT !.low = low, !.high = high]
  <2>1. Adapt(p, adj) = q
    BY <1>3 DEF Adapt
  <2>2. low \in Int /\ high \in Int
    BY <1>1
  <2>3. /\ adj >= 0 => low >= p.low /\ high >= p.high
        /\ adj <= 0 => low <= p.low /\ high <= p.high
    BY <1>1
  <2> HIDE DEF low, high
  <2>4. /\ q \in PlainPolicy
        /\ q.low = low /\ q.high = high
        /\ q.actionLow = p.actionLow /\ q.actionMid = p.actionMid /\ q.actionHigh = p.actionHigh
    BY <1>1, <2>2 DEF PlainPolicy
  <2> QED
    BY <2>1, <2>3, <2>4
<1> QED
  BY <1>2, <1>3

\* Raised thresholds never treat a score more severely, lowered ones never less:
\* GetAdaptedPolicy's clamps cannot turn an adjustment around.
THEOREM Direction ==
    ASSUME NEW p \in OrderedPolicy, NEW adj \in Int, NEW score \in Scores
    PROVE  /\ adj >= 0 => SeverityOf(score, Adapt(p, adj)) <= SeverityOf(score, p)
           /\ adj <= 0 => SeverityOf(score, Adapt(p, adj)) >= SeverityOf(score, p)
<1> DEFINE q == Adapt(p, adj)
           Pick(r) == IF score <= r.low THEN p.actionLow
                      ELSE IF score <= r.high THEN p.actionMid ELSE p.actionHigh
<1>1. Evaluate(score, p, "unlisted") = Pick(p)
  BY ByThresholds DEF OrderedPolicy
<1>2. Evaluate(score, q, "unlisted") = Pick(q)
  BY ByThresholds, AdaptedThresholds
<1>3. /\ \A a \in Actions : Severity[a] \in Int
      /\ p.actionLow \in Actions /\ p.actionMid \in Actions /\ p.actionHigh \in Actions
  BY DEF Actions, Severity, OrderedPolicy, PlainPolicy
<1>4. /\ Severity[p.actionLow] <= Severity[p.actionMid]
      /\ Severity[p.actionMid] <= Severity[p.actionHigh]
  BY DEF OrderedPolicy
<1>5. score \in Int /\ p.low \in Int /\ p.high \in Int /\ p.low < p.high
      /\ q.low \in Int /\ q.high \in Int
  <2>1. q \in PlainPolicy
    BY AdaptedThresholds
  <2>2. q.low \in Int /\ q.high \in Int
    BY <2>1 DEF PlainPolicy
  <2> QED
    BY <2>2 DEF Scores, OrderedPolicy, PlainPolicy
<1>6. ASSUME adj >= 0 PROVE Severity[Pick(q)] <= Severity[Pick(p)]
  <2>1. q.low >= p.low /\ q.high >= p.high
    BY <1>6, AdaptedThresholds
  <2> QED
    BY <2>1, <1>3, <1>4, <1>5
<1>7. ASSUME adj <= 0 PROVE Severity[Pick(q)] >= Severity[Pick(p)]
  <2>1. q.low <= p.low /\ q.high <= p.high
    BY <1>7, AdaptedThresholds
  <2> QED
    BY <2>1, <1>3, <1>4, <1>5
<1> QED
  BY <1>1, <1>2, <1>6, <1>7 DEF SeverityOf

\* Every industry's template is such a policy.
LEMMA TemplatesOrdered == Policies \subseteq OrderedPolicy
<1>1. ASSUME NEW low \in Int, NEW high \in Int, 0 <= low, low < high, high <= 100,
             NEW a \in Actions, NEW b \in Actions, NEW c \in Actions,
             Severity[a] <= Severity[b], Severity[b] <= Severity[c]
      PROVE  Template(low, high, a, b, c) \in OrderedPolicy
  BY <1>1 DEF Template, OrderedPolicy, PlainPolicy
<1>2. /\ Severity["pass"] = 0 /\ Severity["invisible"] = 1
      /\ Severity["challenge"] = 2 /\ Severity["deny"] = 3
      /\ {"pass", "invisible", "challenge", "deny"} \subseteq Actions
  BY DEF Severity, Actions
<1>3. /\ Template(25, 60, "pass", "challenge", "deny") \in OrderedPolicy
      /\ Template(15, 40, "invisible", "challenge", "deny") \in OrderedPolicy
      /\ Template(30, 65, "pass", "challenge", "deny") \in OrderedPolicy
      /\ Template(20, 55, "pass", "challenge", "deny") \in OrderedPolicy
      /\ Template(35, 70, "pass", "invisible", "challenge") \in OrderedPolicy
      /\ Template(10, 35, "invisible", "challenge", "deny") \in OrderedPolicy
  BY <1>1, <1>2
<1> QED
  BY <1>3 DEF Policies, templates

-----------------------------------------------------------------------------
(* The counters and the adjustments *)

LEMMA AdjustBounds ==
    ASSUME NEW m, NEW adj \in (-MaxAdjustment)..MaxAdjustment
    PROVE  /\ Adjust(m, adj) \in (-MaxAdjustment)..MaxAdjustment
           /\ Adjust(m, adj) > adj => /\ FalsePositivesHigh(m) /\ Adjust(m, adj) - adj <= Step
                                      /\ BotPassesHigh(m) => adj = -MaxAdjustment
           /\ Adjust(m, adj) < adj => BotPassesHigh(m) /\ adj - Adjust(m, adj) <= Step
<1>1. MaxAdjustment \in Nat
  BY SampleAssumption
<1>2. Raised(adj) \in (-MaxAdjustment)..MaxAdjustment /\ Raised(adj) >= adj /\ Raised(adj) - adj <= Step
  BY <1>1 DEF Raised, Step
<1>3. Lowered(adj) \in (-MaxAdjustment)..MaxAdjustment /\ Lowered(adj) <= adj /\ adj - Lowered(adj) <= Step
  BY <1>1 DEF Lowered, Step
<1>4. \/ Adjust(m, adj) = adj
      \/ Adjust(m, adj) = Lowered(adj) /\ BotPassesHigh(m)
      \/ /\ Adjust(m, adj) = Raised(adj) /\ FalsePositivesHigh(m)
         /\ BotPassesHigh(m) => Lowered(adj) = adj
  BY DEF Adjust
<1>5. Lowered(adj) = adj => adj = -MaxAdjustment
  BY <1>1 DEF Lowered, Step
<1> QED
  BY <1>1, <1>2, <1>3, <1>4, <1>5

\* What an outcome adds to the counters keeps the shares shares.
LEMMA CountedTogether ==
    ASSUME NEW wasBot \in BOOLEAN, NEW wasChallenged \in BOOLEAN, NEW wasPassed \in BOOLEAN
    PROVE  LET C == Counted(wasBot, wasChallenged, wasPassed) IN
           /\ "humansFailed" \in C => "humansChallenged" \in C
           /\ "botsPassed" \in C => "botsChallenged" \in C
           /\ "totalPassed" \in C => \/ "botsPassed" \in C
                                     \/ "humansChallenged" \in C /\ "humansFailed" \notin C
  BY DEF Counted

\* Outcomes count where they should, whatever their order.
LEMMA OutcomeInv ==
    ASSUME AdaptiveInv, NEW scene \in Scenes,
           NEW wasBot \in BOOLEAN, NEW wasChallenged \in BOOLEAN, NEW wasPassed \in BOOLEAN,
           RecordOutcome(scene, wasBot, wasChallenged, wasPassed)
    PROVE  AdaptiveInv'
<1> DEFINE C == Counted(wasBot, wasChallenged, wasPassed)
           m == [c \in Counters |-> metrics[scene][c] + (IF c \in C THEN 1 ELSE 0)]
<1>1. /\ \A c \in Counters : m[c] <= MaxOutcomes
      /\ metrics' = [metrics EXCEPT ![scene] = m]
      /\ adjustments' = [adjustments EXCEPT ![scene] = Adjust(m, @)]
  BY DEF RecordOutcome
<1>2. MaxOutcomes \in Nat
  BY SampleAssumption
<1>3. metrics[scene] \in [Counters -> 0..MaxOutcomes]
  BY DEF AdaptiveInv, AdaptiveTypeOK
<1>4. \A c \in Counters : m[c] \in 0..MaxOutcomes
  BY <1>1, <1>2, <1>3
<1>5. metrics' \in [Scenes -> [Counters -> 0..MaxOutcomes]]
  BY <1>1, <1>4 DEF AdaptiveInv, AdaptiveTypeOK
<1>6. adjustments' \in [Scenes -> (-MaxAdjustment)..MaxAdjustment]
  BY <1>1, AdjustBounds DEF AdaptiveInv, AdaptiveTypeOK
<1>7. RatesAreShares'
  <2> SUFFICES ASSUME NEW s \in Scenes
               PROVE  LET n == metrics'[s] IN
                      /\ n["humansFailed"] <= n["humansChallenged"]
                      /\ n["botsPassed"] <= n["botsChallenged"]
                      /\ n["totalPassed"] <= n["botsPassed"] + n["humansChallenged"] - n["humansFailed"]
    BY DEF RatesAreShares
  <2> DEFINE old == metrics[s]
  <2>1. /\ old["humansFailed"] <= old["humansChallenged"]
        /\ old["botsPassed"] <= old["botsChallenged"]
        /\ old["totalPassed"] <= old["botsPassed"] + old["humansChallenged"] - old["humansFailed"]
    BY DEF AdaptiveInv, RatesAreShares
  <2>2. \A c \in Counters : old[c] \in Int
    BY <1>2 DEF AdaptiveInv, AdaptiveTypeOK
  <2>3. {"humansFailed", "humansChallenged", "botsPassed", "botsChallenged", "totalPassed"} \subseteq Counters
    BY DEF Counters
  <2>4. CASE s # scene
    <3>1. metrics'[s] = old
      BY <1>1, <2>4 DEF AdaptiveInv, AdaptiveTypeOK
    <3> QED
      BY <3>1, <2>1
  <2>5. CASE s = scene
    <3>1. metrics'[s] = m
      BY <1>1, <2>5 DEF AdaptiveInv, AdaptiveTypeOK
    <3>2. \A c \in Counters : m[c] = old[c] + (IF c \in C THEN 1 ELSE 0)
      BY <2>5
    <3>3. /\ "humansFailed" \in C => "humansChallenged" \in C
          /\ "botsPassed" \in C => "botsChallenged" \in C
          /\ "totalPassed" \in C => \/ "botsPassed" \in C
                                    \/ "humansChallenged" \in C /\ "humansFailed" \notin C
      BY CountedTogether
    <3>4. /\ m["humansFailed"] = old["humansFailed"] + (IF "humansFailed" \in C THEN 1 ELSE 0)
          /\ m["humansChallenged"] = old["humansChallenged"] + (IF "humansChallenged" \in C THEN 1 ELSE 0)
          /\ m["botsPassed"] = old["botsPassed"] + (IF "botsPassed" \in C THEN 1 ELSE 0)
          /\ m["botsChallenged"] = old["botsChallenged"] + (IF "botsChallenged" \in C THEN 1 ELSE 0)
          /\ m["totalPassed"] = old["totalPassed"] + (IF "totalPassed" \in C THEN 1 ELSE 0)
      BY <3>2, <2>3
    <3>5. /\ old["humansFailed"] \in Int /\ old["humansChallenged"] \in Int
          /\ old["botsPassed"] \in Int /\ old["botsChallenged"] \in Int /\ old["totalPassed"] \in Int
      BY <2>2, <2>3
    <3> HIDE DEF C, m, old
    <3> QED
      BY <2>1, <3>1, <3>3, <3>4, <3>5
  <2> QED
    BY <2>4, <2>5
<1> QED
  BY <1>5, <1>6, <1>7 DEF AdaptiveInv, AdaptiveTypeOK

LEMMA AdaptiveInit_Inv == AdaptiveInit => AdaptiveInv
<1> SUFFICES ASSUME AdaptiveInit PROVE AdaptiveInv
  OBVIOUS
<1>1. MaxOutcomes \in Nat /\ MaxAdjustment \in Nat
  BY SampleAssumption
<1>2. AdaptiveTypeOK
  BY <1>1 DEF AdaptiveInit, AdaptiveTypeOK
<1>3. RatesAreShares
  BY DEF AdaptiveInit, RatesAreShares, Counters
<1> QED
  BY <1>2, <1>3 DEF AdaptiveInv

LEMMA AdaptiveNext_Inv == AdaptiveInv /\ [AdaptiveNext]_adaptiveVars => AdaptiveInv'
<1> SUFFICES ASSUME AdaptiveInv, [AdaptiveNext]_adaptiveVars PROVE AdaptiveInv'
  OBVIOUS
<1>1. CASE AdaptiveNext
  BY <1>1, OutcomeInv DEF AdaptiveNext
<1>2. CASE UNCHANGED adaptiveVars
  BY <1>2 DEF adaptiveVars, AdaptiveInv, AdaptiveTypeOK, RatesAreShares
<1> QED
  BY <1>1, <1>2

\* The counters keep their types and the adjustments their cap, and the two rates
\* stay shares.
THEOREM AdaptiveInvariance == AdaptiveSpec => []AdaptiveInv
  BY AdaptiveInit_Inv, AdaptiveNext_Inv, PTL DEF AdaptiveSpec

\* adjustments stays between -MaxAdjustment and MaxAdjustment.
THEOREM AdaptiveTypes == AdaptiveSpec => []AdaptiveTypeOK
<1>1. AdaptiveInv => AdaptiveTypeOK
  BY DEF AdaptiveInv
<1> QED
  BY AdaptiveInvariance, <1>1, PTL

\* No rate exceeds 100 percent.
THEOREM SharesHold == AdaptiveSpec => []RatesAreShares
<1>1. AdaptiveInv => RatesAreShares
  BY DEF AdaptiveInv
<1> QED
  BY AdaptiveInvariance, <1>1, PTL

\* Whatever outcomes were recorded, an adapted template errs on the side its
\* adjustment means.
THEOREM DirectionHolds == AdaptiveSpec => []AdaptationDirection
<1>1. AdaptiveTypeOK => AdaptationDirection
  <2> SUFFICES ASSUME AdaptiveTypeOK, NEW scene \in Scenes, NEW p \in Policies, NEW score \in Scores
               PROVE  LET adj == adjustments[scene] IN
                      /\ adj >= 0 => SeverityOf(score, Adapt(p, adj)) <= SeverityOf(score, p)
                      /\ adj <= 0 => SeverityOf(score, Adapt(p, adj)) >= SeverityOf(score, p)
    BY DEF AdaptationDirection
  <2>1. adjustments[scene] \in Int
    BY SampleAssumption DEF AdaptiveTypeOK
  <2>2. p \in OrderedPolicy
    BY TemplatesOrdered
  <2> QED
    BY <2>1, <2>2, Direction
<1> QED
  BY AdaptiveTypes, <1>1, PTL

\* An adjustment moves one step at a time, only on evidence for its direction, and up
\* only if bots do not pass too often or it is at the lower cap.
THEOREM Justified == AdaptiveSpec => AdjustmentJustified
<1> DEFINE A == \A scene \in Scenes :
          LET old == adjustments[scene]  new == adjustments'[scene]  m == metrics'[scene] IN
          /\ new > old => /\ FalsePositivesHigh(m) /\ new - old <= Step
                          /\ BotPassesHigh(m) => old = -MaxAdjustment
          /\ new < old => BotPassesHigh(m) /\ old - new <= Step
<1>1. AdaptiveTypeOK /\ [AdaptiveNext]_adaptiveVars => [A]_adaptiveVars
  <2> SUFFICES ASSUME AdaptiveTypeOK, AdaptiveNext, NEW s \in Scenes
               PROVE  LET old == adjustments[s]  new == adjustments'[s]  m == metrics'[s] IN
                      /\ new > old => /\ FalsePositivesHigh(m) /\ new - old <= Step
                                      /\ BotPassesHigh(m) => old = -MaxAdjustment
                      /\ new < old => BotPassesHigh(m) /\ old - new <= Step
    OBVIOUS
  <2>1. PICK scene \in Scenes, wasBot \in BOOLEAN, wasChallenged \in BOOLEAN, wasPassed \in BOOLEAN :
            RecordOutcome(scene, wasBot, wasChallenged, wasPassed)
    BY DEF AdaptiveNext
  <2>2. adjustments[s] \in (-MaxAdjustment)..MaxAdjustment
    BY DEF AdaptiveTypeOK
  <2>3. CASE s = scene
    <3>1. adjustments'[s] = Adjust(metrics'[s], adjustments[s])
      BY <2>1, <2>3 DEF RecordOutcome, AdaptiveTypeOK
    <3> QED
      BY <3>1, <2>2, AdjustBounds
  <2>4. CASE s # scene
    <3>1. adjustments'[s] = adjustments[s]
      BY <2>1, <2>4 DEF RecordOutcome, AdaptiveTypeOK
    <3> QED
      BY <3>1, <2>2, SampleAssumption
  <2> QED
    BY <2>3, <2>4
<1> QED
  BY AdaptiveTypes, <1>1, PTL DEF AdaptiveSpec, AdjustmentJustified
-----------------------------------------------------------------------------
(* The browser SDK, for any number of executions, targets, submissions and *)
(* clicks                                                                  *)

\* How far an execution is, and what its caller knows at that point.
Early(x) == bStep[x] \in {"idle", "precheck", "render"} =>
    /\ promise[x] = (IF bStep[x] = "idle" THEN "none" ELSE "pending")
    /\ told[x] = 0 /\ x \notin threw /\ kind[x] = "none" /\ x \notin passed

Over(x) == bStep[x] = "over" =>
    /\ kind[x] = "none" /\ x \notin passed
    /\ \/ promise[x] = "resolved" /\ told[x] = 1 /\ x \notin threw
       \/ promise[x] = "rejected" /\ told[x] = 1 /\ x \in threw
       \/ promise[x] = "rejected" /\ told[x] = 0

\* Only a widget submits; a click challenge does so once, when its last target is
\* clicked.
Submitting(x) ==
    /\ kind[x] = "none" => submits[x] = 0 /\ flying[x] = 0 /\ ~dragging[x]
    /\ kind[x] = "click" => ~dragging[x] /\ (submits[x] = 0 \/ (submits[x] = 1 /\ clicked[x] >= Targets))

\* Every answer that came back settled the promise; a success was passed by the server.
Drawn(x) == bStep[x] = "widget" =>
    /\ promise[x] \in {"pending", "resolved", "rejected"} /\ kind[x] # "none"
    /\ flying[x] <= submits[x]
    /\ promise[x] = "rejected" => flying[x] < submits[x]
    /\ told[x] <= 1
    /\ told[x] = 1 => x \in passed /\ promise[x] # "pending"
    /\ told[x] = 0 => x \notin threw
    /\ promise[x] = "resolved" => told[x] = 1 /\ x \notin threw
    /\ promise[x] = "rejected" /\ told[x] = 1 =>
          x \in threw \/ (kind[x] = "slider" /\ submits[x] > 1)

BrowserTypes ==
    /\ bStep \in [Executions -> {"idle", "precheck", "render", "widget", "over"}]
    /\ promise \in [Executions -> {"none", "pending", "resolved", "rejected"}]
    /\ kind \in [Executions -> {"none", "slider", "click"}]
    /\ dragging \in [Executions -> BOOLEAN]
    /\ told \in [Executions -> Nat] /\ clicked \in [Executions -> Nat]
    /\ flying \in [Executions -> Nat] /\ submits \in [Executions -> Nat]

BrowserInv ==
    /\ BrowserTypes
    /\ \A x \in Executions : Early(x) /\ Over(x) /\ Submitting(x) /\ Drawn(x)

LEMMA BrowserInit_Inv == Browser!Init => BrowserInv
BY DEF Browser!Init, BrowserInv, BrowserTypes, Early, Over, Submitting, Drawn

BrowserStep(x) ==
    \/ Browser!Execute(x) \/ Browser!PrecheckPass(x) \/ Browser!PrecheckFail(x)
    \/ Browser!PrecheckChallenge(x) \/ Browser!RenderFail(x)
    \/ \E k \in {"slider", "click"} : Browser!RenderWidget(x, k)
    \/ Browser!Drag(x) \/ Browser!Drop(x) \/ Browser!Click(x) \/ Browser!Succeed(x) \/ Browser!Fail(x)

LEMMA StepTypes ==
    ASSUME BrowserInv, NEW x \in Executions, BrowserStep(x)
    PROVE  BrowserTypes'
<1> USE DEF BrowserInv, BrowserTypes, Browser!Settle, Browser!Tell
<1>1. CASE Browser!Execute(x) BY <1>1 DEF Browser!Execute, Browser!widgetVars
<1>2. CASE Browser!PrecheckPass(x) BY <1>2 DEF Browser!PrecheckPass, Browser!widgetVars
<1>3. CASE Browser!PrecheckFail(x) BY <1>3 DEF Browser!PrecheckFail, Browser!widgetVars
<1>4. CASE Browser!PrecheckChallenge(x) BY <1>4 DEF Browser!PrecheckChallenge, Browser!widgetVars
<1>5. CASE Browser!RenderFail(x) BY <1>5 DEF Browser!RenderFail, Browser!widgetVars
<1>6. CASE \E k \in {"slider", "click"} : Browser!RenderWidget(x, k)
  BY <1>6 DEF Browser!RenderWidget
<1>7. CASE Browser!Drag(x) BY <1>7 DEF Browser!Drag
<1>8. CASE Browser!Drop(x) BY <1>8 DEF Browser!Drop
<1>9. CASE Browser!Click(x) BY <1>9 DEF Browser!Click
<1>10. CASE Browser!Succeed(x) BY <1>10 DEF Browser!Succeed, Browser!widgetVars
<1>11. CASE Browser!Fail(x) BY <1>11 DEF Browser!Fail, Browser!widgetVars
<1> QED BY <1>1, <1>2, <1>3, <1>4, <1>5, <1>6, <1>7, <1>8, <1>9, <1>10, <1>11 DEF BrowserStep

\* What a step does to its own execution.
LEMMA StepOwn ==
    ASSUME BrowserInv, NEW x \in Executions, BrowserStep(x)
    PROVE  (Early(x) /\ Over(x) /\ Submitting(x) /\ Drawn(x))'
<1> USE DEF BrowserInv, BrowserTypes, Browser!Settle, Browser!Tell, Early, Over, Submitting, Drawn
<1>1. CASE Browser!Execute(x) BY <1>1 DEF Browser!Execute, Browser!widgetVars
<1>2. CASE Browser!PrecheckPass(x)
  <2>1. /\ bStep[x] = "precheck" /\ bStep'[x] = "over" /\ told'[x] = told[x] + 1
        /\ UNCHANGED <<kind, dragging, clicked, submits, flying, passed>>
    BY <1>2 DEF Browser!PrecheckPass, Browser!widgetVars
  <2>2. /\ promise[x] = "pending" /\ told[x] = 0 /\ kind[x] = "none"
        /\ x \notin threw /\ x \notin passed
    BY <2>1
  <2>3. \/ promise'[x] = "resolved" /\ x \notin threw'
        \/ promise'[x] = "rejected" /\ x \in threw'
    BY <1>2, <2>2 DEF Browser!PrecheckPass
  <2>4. submits[x] = 0 /\ flying[x] = 0 /\ ~dragging[x] BY <2>2
  <2> HIDE DEF BrowserInv, BrowserTypes
  <2> QED BY <2>1, <2>2, <2>3, <2>4
<1>3. CASE Browser!PrecheckFail(x) BY <1>3 DEF Browser!PrecheckFail, Browser!widgetVars
<1>4. CASE Browser!PrecheckChallenge(x) BY <1>4 DEF Browser!PrecheckChallenge, Browser!widgetVars
<1>5. CASE Browser!RenderFail(x) BY <1>5 DEF Browser!RenderFail, Browser!widgetVars
<1>6. CASE \E k \in {"slider", "click"} : Browser!RenderWidget(x, k)
  <2>1. PICK k \in {"slider", "click"} : Browser!RenderWidget(x, k) BY <1>6
  <2>2. /\ bStep[x] = "render" /\ bStep'[x] = "widget" /\ kind'[x] = k
        /\ UNCHANGED <<promise, told, threw, dragging, clicked, submits, flying, passed>>
    BY <2>1 DEF Browser!RenderWidget
  <2>3. promise[x] = "pending" /\ told[x] = 0 /\ x \notin threw /\ submits[x] = 0 /\ flying[x] = 0 /\ ~dragging[x]
    BY <2>2
  <2> HIDE DEF BrowserInv, BrowserTypes
  <2> QED BY <2>2, <2>3
<1>7. CASE Browser!Drag(x) BY <1>7 DEF Browser!Drag
<1>8. CASE Browser!Drop(x) BY <1>8 DEF Browser!Drop
<1>9. CASE Browser!Click(x) BY <1>9, TargetsAssumption DEF Browser!Click, Browser!Complete
<1>10. CASE Browser!Succeed(x) BY <1>10 DEF Browser!Succeed, Browser!widgetVars
<1>11. CASE Browser!Fail(x) BY <1>11 DEF Browser!Fail, Browser!widgetVars
<1> QED BY <1>1, <1>2, <1>3, <1>4, <1>5, <1>6, <1>7, <1>8, <1>9, <1>10, <1>11 DEF BrowserStep

\* ... and to another one: nothing.
LEMMA StepOthers ==
    ASSUME BrowserInv, NEW x \in Executions, BrowserStep(x), NEW y \in Executions, y # x
    PROVE  /\ bStep'[y] = bStep[y] /\ promise'[y] = promise[y] /\ told'[y] = told[y]
           /\ kind'[y] = kind[y] /\ dragging'[y] = dragging[y] /\ clicked'[y] = clicked[y]
           /\ flying'[y] = flying[y] /\ submits'[y] = submits[y]
           /\ (y \in passed' <=> y \in passed) /\ (y \in threw' <=> y \in threw)
<1> USE DEF BrowserInv, BrowserTypes, Browser!Settle, Browser!Tell
<1>1. CASE Browser!Execute(x) BY <1>1 DEF Browser!Execute, Browser!widgetVars
<1>2. CASE Browser!PrecheckPass(x) BY <1>2 DEF Browser!PrecheckPass, Browser!widgetVars
<1>3. CASE Browser!PrecheckFail(x) BY <1>3 DEF Browser!PrecheckFail, Browser!widgetVars
<1>4. CASE Browser!PrecheckChallenge(x) BY <1>4 DEF Browser!PrecheckChallenge, Browser!widgetVars
<1>5. CASE Browser!RenderFail(x) BY <1>5 DEF Browser!RenderFail, Browser!widgetVars
<1>6. CASE \E k \in {"slider", "click"} : Browser!RenderWidget(x, k)
  BY <1>6 DEF Browser!RenderWidget
<1>7. CASE Browser!Drag(x) BY <1>7 DEF Browser!Drag
<1>8. CASE Browser!Drop(x) BY <1>8 DEF Browser!Drop
<1>9. CASE Browser!Click(x) BY <1>9 DEF Browser!Click
<1>10. CASE Browser!Succeed(x) BY <1>10 DEF Browser!Succeed, Browser!widgetVars
<1>11. CASE Browser!Fail(x) BY <1>11 DEF Browser!Fail, Browser!widgetVars
<1> QED BY <1>1, <1>2, <1>3, <1>4, <1>5, <1>6, <1>7, <1>8, <1>9, <1>10, <1>11 DEF BrowserStep

LEMMA BrowserNext_Inv == BrowserInv /\ [Browser!Next]_browserVars => BrowserInv'
<1> SUFFICES ASSUME BrowserInv, [Browser!Next]_browserVars PROVE BrowserInv' OBVIOUS
<1>1. ASSUME NEW x \in Executions, BrowserStep(x) PROVE BrowserInv'
  <2>1. BrowserTypes' BY <1>1, StepTypes
  <2>2. (Early(x) /\ Over(x) /\ Submitting(x) /\ Drawn(x))' BY <1>1, StepOwn
  <2>3. ASSUME NEW y \in Executions, y # x
        PROVE  (Early(y) /\ Over(y) /\ Submitting(y) /\ Drawn(y))'
    <3>1. Early(y) /\ Over(y) /\ Submitting(y) /\ Drawn(y) BY DEF BrowserInv
    <3> QED BY <1>1, <2>3, <3>1, StepOthers DEF Early, Over, Submitting, Drawn
  <2> QED BY <2>1, <2>2, <2>3 DEF BrowserInv
<1>2. CASE Browser!Reset
  BY <1>2 DEF Browser!Reset, Browser!widgetVars, BrowserInv, BrowserTypes, Early, Over, Submitting, Drawn
<1>3. CASE UNCHANGED browserVars
  BY <1>3 DEF browserVars, BrowserInv, BrowserTypes, Early, Over, Submitting, Drawn
<1>4. Browser!Next => Browser!Reset \/ \E x \in Executions : BrowserStep(x)
  BY Zenon DEF Browser!Next, BrowserStep
<1> QED BY <1>1, <1>2, <1>3, <1>4

\* The caller's promise and its onSuccess agree, unless that throws or a slider was
\* tried again.
LEMMA OutcomeFollows == BrowserInv => OneOutcome
<1> SUFFICES ASSUME BrowserInv, NEW x \in Executions
             PROVE  /\ told[x] <= 1
                    /\ promise[x] = "resolved" => told[x] = 1 /\ x \notin threw
                    /\ (promise[x] = "rejected" /\ told[x] = 1) =>
                          x \in threw \/ (kind[x] = "slider" /\ submits[x] > 1)
  BY DEF OneOutcome, Browser!OneOutcome
<1> QED BY DEF BrowserInv, BrowserTypes, Early, Over, Drawn
-----------------------------------------------------------------------------
(* The Android SDK, for any number of presentations and calls of a page *)

\* A coroutine that is or will be suspended has not been resumed.
AndroidInv ==
    /\ aStep \in [Presentations -> {"idle", "fetch", "suspended", "verify", "returned"}]
    /\ aResumes \in [Presentations -> 0..1]
    /\ \A p \in Presentations : aStep[p] \in {"idle", "fetch", "suspended"} => aResumes[p] = 0

LEMMA AndroidInit_Inv == Android!Init => AndroidInv
BY DEF Android!Init, AndroidInv

LEMMA AndroidNext_Inv == AndroidInv /\ [Android!Next]_androidVars => AndroidInv'
<1> SUFFICES ASSUME AndroidInv, [Android!Next]_androidVars PROVE AndroidInv' OBVIOUS
<1> USE DEF AndroidInv
<1>1. ASSUME NEW p \in Presentations,
             \/ Android!PresentChallenge(p) \/ Android!Suspend(p)
             \/ Android!Return(p) \/ Android!CancelScope(p)
      PROVE  AndroidInv'
  BY <1>1 DEF Android!PresentChallenge, Android!Suspend, Android!Return, Android!CancelScope
<1>2. ASSUME NEW p \in Presentations, Android!Show(p) \/ Android!Remove(p) \/ Android!PageCalls(p)
      PROVE  AndroidInv'
  BY <1>2 DEF Android!Show, Android!Remove, Android!PageCalls
<1>3. ASSUME NEW p \in Presentations, Android!Answer(p) PROVE AndroidInv'
  BY <1>3 DEF Android!Answer, Android!IsActive
<1>4. CASE UNCHANGED androidVars BY <1>4 DEF androidVars
<1> QED BY <1>1, <1>2, <1>3, <1>4 DEF Android!Next
-----------------------------------------------------------------------------
(* The iOS SDK, for any number of presentations and calls of a sheet *)

\* Every call has resumed or is being verified; a sheet on its way off has called.
IOSInv ==
    /\ sheet \in [Presentations -> {"none", "declined", "up", "closing", "gone"}]
    /\ calls \in [Presentations -> Nat] /\ verifying \in [Presentations -> Nat]
    /\ iResumes \in [Presentations -> Nat]
    /\ \A p \in Presentations : sheet[p] = "closing" => calls[p] > 0
    /\ IOS!ResumedOncePerCall

LEMMA IOSInit_Inv == IOS!Init => IOSInv
BY DEF IOS!Init, IOSInv, IOS!ResumedOncePerCall

LEMMA IOSNext_Inv == IOSInv /\ [IOS!Next]_iosVars => IOSInv'
<1> SUFFICES ASSUME IOSInv, [IOS!Next]_iosVars PROVE IOSInv' OBVIOUS
<1> USE DEF IOSInv, IOS!ResumedOncePerCall
<1>1. ASSUME NEW p \in Presentations, IOS!PresentChallenge(p) \/ IOS!FetchFails(p) \/ IOS!Present(p)
      PROVE  IOSInv'
  BY <1>1 DEF IOS!PresentChallenge, IOS!FetchFails, IOS!Present
<1>2. ASSUME NEW p \in Presentations, IOS!Dismissed(p) \/ IOS!SwipeAway(p) PROVE IOSInv'
  BY <1>2 DEF IOS!Dismissed, IOS!SwipeAway
<1>3. ASSUME NEW p \in Presentations, IOS!CompleteWithAnswer(p) PROVE IOSInv'
  BY <1>3 DEF IOS!CompleteWithAnswer, IOS!Called, IOS!CanCall
<1>4. ASSUME NEW p \in Presentations, IOS!CompleteWithoutAnswer(p) PROVE IOSInv'
  <2>1. crashed' => iResumes[p] > 0
    BY <1>4, Zenon DEF IOS!CompleteWithoutAnswer, IOS!Resume
  <2>2. /\ calls' = [calls EXCEPT ![p] = @ + 1] /\ iResumes' = [iResumes EXCEPT ![p] = @ + 1]
        /\ sheet' = [sheet EXCEPT ![p] = IF @ = "gone" THEN "gone" ELSE "closing"]
        /\ UNCHANGED <<swiped, verifying>>
    BY <1>4 DEF IOS!CompleteWithoutAnswer, IOS!Called, IOS!Resume
  <2>3. crashed' => calls'[p] > 1 BY <2>1, <2>2
  <2>4. /\ sheet' \in [Presentations -> {"none", "declined", "up", "closing", "gone"}]
        /\ \A q \in Presentations : q # p => sheet'[q] = sheet[q]
        /\ calls' \in [Presentations -> Nat] /\ calls'[p] = calls[p] + 1
        /\ \A q \in Presentations : q # p => calls'[q] = calls[q]
    BY <2>2
  <2>5. /\ iResumes' \in [Presentations -> Nat] /\ iResumes'[p] = iResumes[p] + 1
        /\ \A q \in Presentations : q # p => iResumes'[q] = iResumes[q]
    BY <2>2
  <2>6. \A q \in Presentations : iResumes'[q] + verifying'[q] = calls'[q] BY <2>2, <2>4, <2>5
  <2> QED BY <2>2, <2>3, <2>4, <2>5, <2>6
<1>5. ASSUME NEW p \in Presentations, IOS!Verified(p) PROVE IOSInv'
  <2>1. crashed' => iResumes[p] > 0 BY <1>5, Zenon DEF IOS!Verified, IOS!Resume
  <2>2. /\ verifying[p] > 0 /\ verifying' = [verifying EXCEPT ![p] = @ - 1]
        /\ iResumes' = [iResumes EXCEPT ![p] = @ + 1] /\ UNCHANGED <<sheet, swiped, calls>>
    BY <1>5 DEF IOS!Verified, IOS!Resume
  <2>3. crashed' => calls'[p] > 1 BY <2>1, <2>2
  <2>4. /\ verifying' \in [Presentations -> Nat] /\ verifying'[p] = verifying[p] - 1
        /\ \A q \in Presentations : q # p => verifying'[q] = verifying[q]
    BY <2>2
  <2>5. /\ iResumes' \in [Presentations -> Nat] /\ iResumes'[p] = iResumes[p] + 1
        /\ \A q \in Presentations : q # p => iResumes'[q] = iResumes[q]
    BY <2>2
  <2>6. \A q \in Presentations : iResumes'[q] + verifying'[q] = calls'[q] BY <2>2, <2>4, <2>5
  <2> QED BY <2>2, <2>3, <2>4, <2>5, <2>6
<1>6. CASE UNCHANGED iosVars BY <1>6 DEF iosVars
<1> QED BY <1>1, <1>2, <1>3, <1>4, <1>5, <1>6 DEF IOS!Next
-----------------------------------------------------------------------------
(* The theorems of the three SDKs, for what they do together *)

LEMMA SDKsRun ==
    ClientsSpec => /\ Browser!Init /\ [][Browser!Next]_browserVars
                   /\ Android!Init /\ [][Android!Next]_androidVars
                   /\ IOS!Init /\ [][IOS!Next]_iosVars
<1>1. ClientsInit => Browser!Init /\ Android!Init /\ IOS!Init
  BY DEF ClientsInit, BrowserIdle, AndroidIdle, IOSIdle
<1>2. [ClientsNext]_clientVars =>
        [Browser!Next]_browserVars /\ [Android!Next]_androidVars /\ [IOS!Next]_iosVars
  BY DEF ClientsNext, clientVars, browserVars, androidVars, iosVars
<1> QED BY <1>1, <1>2, PTL DEF ClientsSpec

\* OneOutcome: executions overwrite each other's widgets and sliders outlive them, but
\* a caller is told of one success at most, and of the one its promise resolves with;
\* with a rejection only if its onSuccess threw or a slider was tried again.
THEOREM OutcomesAgree == ClientsSpec => []OneOutcome
BY BrowserInit_Inv, BrowserNext_Inv, OutcomeFollows, SDKsRun, PTL

\* ResumedOnce: however often a page or a sheet calls, an Android continuation is
\* resumed at most once, and an iOS one exactly once for each call.
THEOREM NoSecondResume == ClientsSpec => []ResumedOnce
<1>1. AndroidInv /\ IOSInv => ResumedOnce
  BY DEF AndroidInv, IOSInv, ResumedOnce, Android!ResumedOnce
<1> QED BY <1>1, AndroidInit_Inv, AndroidNext_Inv, IOSInit_Inv, IOSNext_Inv, SDKsRun, PTL
=============================================================================
