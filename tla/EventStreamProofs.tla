------------------------- MODULE EventStreamProofs --------------------------
(***************************************************************************)
(* The event stream, for any publishers, streams, filters and sizes of the *)
(* buffer and the channels.                                                *)
(*                                                                         *)
(* NoGap is what has to be shown of a loop that may drop an event.  An     *)
(* event is dropped when the channel is full of others; those are all      *)
(* different (InOrder), all of them published since the stream was opened  *)
(* and wanted by it (Queued), and so is the dropped one (Sending), which   *)
(* is not among them: more than a channel holds, so NeverFull is false,    *)
(* and stays false because the log only grows.                             *)
(***************************************************************************)
EXTENDS EventStream, SequenceTheorems, FiniteSetTheorems, TLAPS

\* Events carry their place in the log.
Numbered == \A i \in 1..Len(log) : log[i].id = i

\* The buffer ends as the log does, and is as long as its bound allows.
BufferEnd ==
    /\ Len(buffer) = IF Len(log) < BufferSize THEN Len(log) ELSE BufferSize
    /\ \A i \in 1..Len(buffer) : buffer[i] = log[Len(log) - Len(buffer) + i]

\* A stream that was not opened has no subscription and no events.
OpenedFirst == \A s \in Streams :
    IF conn[s] = Idle THEN s \notin subscribers /\ chan[s] = <<>> /\ got[s] = <<>>
    ELSE conn[s].since <= Len(log)

In(e, seq) == \E i \in 1..Len(seq) : seq[i] = e

\* Stream s may be sent event e: it was opened before e was published, and wants it.
Due(s, e) ==
    /\ In(e, log)
    /\ conn[s] # Idle
    /\ conn[s].since < e.id
    /\ Matches(e, s)

\* Everything of e's publisher in a sequence came before e.
Precedes(seq, e) == \A i \in 1..Len(seq) : seq[i].by = e.by => seq[i].id < e.id

\* What a publisher sends is its own, and due to those it still has to reach, who
\* have only earlier events of it.
Sending == \A p \in Publishers, e \in Events : pub[p] # Idle /\ pub[p].event = e =>
    /\ e.by = p
    /\ \A s \in pub[p].todo : Due(s, e) /\ Precedes(got[s], e) /\ Precedes(chan[s], e)

\* What was sent to a stream was due to it.
Queued == \A s \in Streams, e \in Events : In(e, chan[s]) \/ In(e, got[s]) => Due(s, e)

\* Each publisher's events arrive in the order they were published.
Ordered(seq) == \A i, j \in 1..Len(seq) :
    i < j /\ seq[i].by = seq[j].by => seq[i].id < seq[j].id

InOrder == \A s \in Streams :
    /\ Ordered(got[s]) /\ Ordered(chan[s])
    /\ \A e \in Events : In(e, chan[s]) => Precedes(got[s], e)

\* A stream that has replayed has seen what is in the buffer from before it opened.
ReplayedBuffer == \A s \in Streams, e \in Events :
    conn[s].pc = "streaming" /\ Query[s].replay /\ In(e, buffer)
        /\ Matches(e, s) /\ e.id <= conn[s].since => e \in replayed[s]

\* The live part of NoGap, of every subscriber, replaying or not.
NothingMissed == \A s \in subscribers, e \in Events :
    NeverFull(s) /\ In(e, log) /\ e.id > conn[s].since /\ Matches(e, s)
        => In(e, got[s]) \/ In(e, chan[s]) \/ Owed(s, e)

IInv ==
    /\ TypeOK
    /\ Numbered
    /\ BufferEnd
    /\ OpenedFirst
    /\ Sending
    /\ Queued
    /\ InOrder
    /\ ReplayedBuffer
    /\ NothingMissed
-----------------------------------------------------------------------------
(* Sequences and sets *)

LEMMA EventType == ASSUME NEW e \in Events PROVE e.id \in Int /\ e.by \in Publishers
BY DEF Events

\* The buffer after an event was appended and the excess cut off.
LEMMA TrimAppend ==
    ASSUME NEW S, NEW b \in Seq(S), NEW e \in S, Len(b) <= BufferSize
    PROVE  /\ Trim(Append(b, e)) \in Seq(S)
           /\ Len(Trim(Append(b, e))) = IF Len(b) < BufferSize THEN Len(b) + 1 ELSE BufferSize
           /\ \A i \in 1..Len(Trim(Append(b, e))) :
                Trim(Append(b, e))[i] = Append(b, e)[Len(b) + 1 - Len(Trim(Append(b, e))) + i]
<1> DEFINE a == Append(b, e)
<1>1. /\ a \in Seq(S) /\ Len(a) = Len(b) + 1 /\ Len(b) \in Nat
      /\ \A i \in 1..Len(a) : a[i] \in S
  BY AppendProperties, LenProperties, ElementOfSeq
<1> HIDE DEF a
<1>2. CASE Len(b) < BufferSize
  <2>1. Trim(a) = a BY <1>1, <1>2, SizeAssumption DEF Trim
  <2> QED BY <1>1, <1>2, <2>1 DEF a
<1>3. CASE ~(Len(b) < BufferSize)
  <2>1. Len(b) = BufferSize BY <1>1, <1>3, SizeAssumption
  <2>2. Trim(a) = SubSeq(a, 2, Len(a)) BY <1>1, <2>1, SizeAssumption DEF Trim, LatestOf
  <2>3. /\ SubSeq(a, 2, Len(a)) \in Seq(S) /\ Len(SubSeq(a, 2, Len(a))) = BufferSize
        /\ \A i \in 1..BufferSize : SubSeq(a, 2, Len(a))[i] = a[2 + i - 1]
    BY <1>1, <2>1, SubSeqProperties, SizeAssumption
  <2>4. \A i \in 1..BufferSize : 2 + i - 1 = Len(b) + 1 - BufferSize + i BY <2>1, SizeAssumption
  <2> QED BY <1>3, <2>1, <2>2, <2>3, <2>4 DEF a
<1> QED BY <1>2, <1>3

LEMMA OrderedAppend ==
    ASSUME NEW a \in Seq(Events), NEW e \in Events, Ordered(a), Precedes(a, e)
    PROVE  Ordered(Append(a, e))
<1> DEFINE t == Append(a, e)
<1>1. /\ Len(a) \in Nat /\ Len(t) = Len(a) + 1 /\ t[Len(a) + 1] = e
      /\ \A i \in 1..Len(a) : t[i] = a[i]
  BY AppendProperties, LenProperties
<1> HIDE DEF t
<1> SUFFICES ASSUME NEW i \in 1..Len(t), NEW j \in 1..Len(t), i < j, t[i].by = t[j].by
             PROVE  t[i].id < t[j].id
  BY DEF Ordered, t
<1>2. i \in 1..Len(a) /\ t[i] = a[i] BY <1>1
<1>3. CASE j \in 1..Len(a)
  <2>1. t[j] = a[j] BY <1>1, <1>3
  <2> QED BY <1>2, <1>3, <2>1 DEF Ordered
<1>4. CASE j = Len(a) + 1
  <2>1. t[j] = e BY <1>1, <1>4
  <2> QED BY <1>2, <2>1 DEF Precedes
<1> QED BY <1>1, <1>3, <1>4

LEMMA OrderedConcat ==
    ASSUME NEW a \in Seq(Events), NEW b \in Seq(Events), Ordered(a), Ordered(b),
           \A i \in 1..Len(b) : Precedes(a, b[i])
    PROVE  Ordered(a \o b)
<1> DEFINE t == a \o b
<1>1. /\ Len(a) \in Nat /\ Len(b) \in Nat /\ Len(t) = Len(a) + Len(b)
      /\ \A i \in 1..Len(a) + Len(b) : t[i] = IF i <= Len(a) THEN a[i] ELSE b[i - Len(a)]
  BY ConcatProperties, LenProperties
<1> HIDE DEF t
<1> SUFFICES ASSUME NEW i \in 1..Len(t), NEW j \in 1..Len(t), i < j, t[i].by = t[j].by
             PROVE  t[i].id < t[j].id
  BY DEF Ordered, t
<1>2. CASE j <= Len(a)
  <2>1. i \in 1..Len(a) /\ j \in 1..Len(a) /\ t[i] = a[i] /\ t[j] = a[j] BY <1>1, <1>2
  <2> QED BY <2>1 DEF Ordered
<1>3. CASE i > Len(a)
  <2>1. /\ i - Len(a) \in 1..Len(b) /\ j - Len(a) \in 1..Len(b) /\ i - Len(a) < j - Len(a)
    BY <1>1, <1>3
  <2>2. t[i] = b[i - Len(a)] /\ t[j] = b[j - Len(a)] BY <1>1, <1>3
  <2> QED BY <2>1, <2>2 DEF Ordered
<1>4. CASE i <= Len(a) /\ j > Len(a)
  <2>1. i \in 1..Len(a) /\ j - Len(a) \in 1..Len(b) BY <1>1, <1>4
  <2>2. t[i] = a[i] /\ t[j] = b[j - Len(a)] BY <1>1, <1>4
  <2> QED BY <2>1, <2>2 DEF Precedes
<1> QED BY <1>1, <1>2, <1>3, <1>4

\* What a stream wants of what was published since it was opened.
Wanted(s) == {e \in ToSet(log) : e.id > conn[s].since /\ Matches(e, s)}

LEMMA LogFinite == ASSUME log \in Seq(Events) PROVE IsFiniteSet(ToSet(log))
<1>1. log \in Surjection(1..Len(log), ToSet(log)) BY DEF Surjection, ToSet
<1>2. IsFiniteSet(1..Len(log)) BY FS_Interval
<1> QED BY <1>1, <1>2, FS_Surjection

LEMMA WantedFinite == ASSUME log \in Seq(Events), NEW s PROVE IsFiniteSet(Wanted(s))
BY LogFinite, FS_Subset DEF Wanted

\* The log grows, so a channel that may overflow will always be one that might have.
LEMMA NeverFullStep ==
    ASSUME log \in Seq(Events), log' \in Seq(Events), NEW s,
           ToSet(log) \subseteq ToSet(log'), conn'[s].since = conn[s].since, NeverFull(s)'
    PROVE  NeverFull(s)
<1>1. IsFiniteSet(Wanted(s)')
  <2>1. IsFiniteSet(ToSet(log'))
    <3>1. log' \in Surjection(1..Len(log'), ToSet(log')) BY DEF Surjection, ToSet
    <3>2. IsFiniteSet(1..Len(log')) BY FS_Interval
    <3> QED BY <3>1, <3>2, FS_Surjection
  <2> QED BY <2>1, FS_Subset DEF Wanted
<1>2. Wanted(s) \subseteq Wanted(s)' BY DEF Wanted, Matches
<1>3. Cardinality(Wanted(s)) <= Cardinality(Wanted(s)') BY <1>1, <1>2, FS_Subset
<1>4. IsFiniteSet(Wanted(s)) BY <1>1, <1>2, FS_Subset
<1>5. Cardinality(Wanted(s)) \in Nat /\ Cardinality(Wanted(s)') \in Nat
  BY <1>1, <1>4, FS_CardinalityType
<1>6. Cardinality(Wanted(s)') <= ChanSize BY DEF NeverFull, Wanted
<1>7. Cardinality(Wanted(s)) <= ChanSize BY <1>3, <1>5, <1>6, SizeAssumption
<1> QED BY <1>7 DEF NeverFull, Wanted

\* An event that finds the channel full is one too many.
LEMMA DroppedWhenFull ==
    ASSUME IInv, NEW s \in Streams, NEW e \in Events, Due(s, e), Precedes(chan[s], e),
           Len(chan[s]) >= ChanSize
    PROVE  ~NeverFull(s)
<1> DEFINE n == ChanSize
           f == [i \in 1..(n + 1) |-> IF i = n + 1 THEN e ELSE chan[s][i]]
<1>1. log \in Seq(Events) /\ chan[s] \in Seq(Events) /\ Len(chan[s]) = n /\ n \in Nat
  BY SizeAssumption DEF IInv, TypeOK
<1>2. \A x \in Events : Due(s, x) => x \in Wanted(s)
  BY <1>1 DEF Due, In, Wanted, ToSet
<1>3. \A i \in 1..n : chan[s][i] \in Events /\ Due(s, chan[s][i])
  BY <1>1, ElementOfSeq DEF IInv, Queued, In
<1>4. f \in [1..(n + 1) -> Wanted(s)] BY <1>1, <1>2, <1>3
<1>5. \A i \in 1..n : chan[s][i] # e
  BY <1>1, <1>2, EventType DEF Precedes
<1>6. \A i, j \in 1..n : chan[s][i] = chan[s][j] => i = j
  <2> SUFFICES ASSUME NEW i \in 1..n, NEW j \in 1..n, chan[s][i] = chan[s][j], i < j PROVE FALSE
    BY <1>1
  <2>1. chan[s][i].id < chan[s][j].id BY <1>1 DEF IInv, InOrder, Ordered
  <2>2. chan[s][i].id \in Int BY <1>2, <1>3, EventType
  <2> QED BY <2>1, <2>2
<1>7. \A i, j \in 1..(n + 1) : f[i] = f[j] => i = j
  <2> SUFFICES ASSUME NEW i \in 1..(n + 1), NEW j \in 1..(n + 1), f[i] = f[j] PROVE i = j
    OBVIOUS
  <2>1. \A k \in 1..(n + 1) : k \in 1..n \/ k = n + 1 BY <1>1
  <2>2. \A k \in 1..n : f[k] = chan[s][k] BY <1>1
  <2>3. f[n + 1] = e BY <1>1
  <2> HIDE DEF f
  <2> QED BY <1>5, <1>6, <2>1, <2>2, <2>3
<1>8. f \in Injection(1..(n + 1), Wanted(s)) BY <1>4, <1>7 DEF Injection, IsInjective
<1>9. IsFiniteSet(Wanted(s)) BY <1>1, WantedFinite
<1>10. Cardinality(1..(n + 1)) <= Cardinality(Wanted(s)) BY <1>8, <1>9, FS_Injection
<1>11. Cardinality(1..(n + 1)) = n + 1 BY <1>1, FS_Interval
<1>12. Cardinality(Wanted(s)) \in Nat BY <1>9, FS_CardinalityType
<1>13. ~(Cardinality(Wanted(s)) <= n) BY <1>1, <1>10, <1>11, <1>12
<1> QED BY <1>13 DEF NeverFull, Wanted
-----------------------------------------------------------------------------
(* Every step keeps the invariant. *)

LEMMA StoreInv ==
    ASSUME IInv, NEW p \in Publishers, NEW type \in EventTypes, NEW app \in Apps,
           Store(p, type, app)
    PROVE  IInv'
<1>0. TypeOK /\ Numbered /\ BufferEnd /\ OpenedFirst /\ Sending /\ Queued /\ InOrder
      /\ ReplayedBuffer /\ NothingMissed
  BY DEF IInv
<1>n. PICK n \in Nat : n = Len(log) /\ n < MaxEvents /\ log \in Seq(Events)
  BY <1>0, LenProperties DEF TypeOK, Store
<1>ev. PICK e \in Events : e = [id |-> n + 1, by |-> p, type |-> type, app |-> app]
  <2>1. n + 1 \in 1..MaxEvents BY <1>n, SizeAssumption
  <2>2. [id |-> n + 1, by |-> p, type |-> type, app |-> app] \in Events BY <2>1 DEF Events
  <2> QED BY <2>2
<1>1. /\ log' = Append(log, e) /\ buffer' = Trim(Append(buffer, e))
      /\ pub[p] = Idle
      /\ pub' = [pub EXCEPT ![p] = IF Matching(e) = {} THEN Idle
                    ELSE [pc |-> "sending", event |-> e, todo |-> Matching(e)]]
      /\ UNCHANGED <<subscribers, chan, closed, conn, replayed, got>>
  BY <1>n, <1>ev DEF Store
<1>2. log \in Seq(Events) /\ buffer \in Seq(Events) /\ n \in Nat /\ e \in Events
      /\ Len(log) = n
  BY <1>0, <1>n DEF TypeOK
<1>3. /\ log' \in Seq(Events) /\ Len(log') = n + 1 /\ log'[n + 1] = e
      /\ \A i \in 1..n : log'[i] = log[i]
  BY <1>1, <1>2, AppendProperties
<1>e. e.id = n + 1 /\ e.by = p BY <1>ev
<1>4. /\ buffer' \in Seq(Events)
      /\ Len(buffer') = IF Len(buffer) < BufferSize THEN Len(buffer) + 1 ELSE BufferSize
      /\ \A i \in 1..Len(buffer') :
           buffer'[i] = Append(buffer, e)[Len(buffer) + 1 - Len(buffer') + i]
  <2>1. Len(buffer) <= BufferSize BY <1>0 DEF TypeOK
  <2>2. /\ Trim(Append(buffer, e)) \in Seq(Events)
        /\ Len(Trim(Append(buffer, e)))
             = IF Len(buffer) < BufferSize THEN Len(buffer) + 1 ELSE BufferSize
        /\ \A i \in 1..Len(Trim(Append(buffer, e))) :
             Trim(Append(buffer, e))[i]
               = Append(buffer, e)[Len(buffer) + 1 - Len(Trim(Append(buffer, e))) + i]
    BY <1>2, <2>1, TrimAppend
  <2> QED BY <1>1, <2>2
<1>5. \A i \in 1..(Len(buffer) + 1) :
         Append(buffer, e)[i] = IF i = Len(buffer) + 1 THEN e ELSE buffer[i]
  BY <1>2, AppendProperties
<1>6. \A i \in 1..Len(buffer') :
         \/ buffer'[i] = e /\ i = Len(buffer')
         \/ /\ i < Len(buffer')
            /\ Len(buffer) + 1 - Len(buffer') + i \in 1..Len(buffer)
            /\ buffer'[i] = buffer[Len(buffer) + 1 - Len(buffer') + i]
  <2>1. Len(buffer) \in 0..BufferSize BY <1>0, <1>2, LenProperties DEF TypeOK
  <2>2. PICK b \in Nat, b1 \in Nat :
          b = Len(buffer) /\ b1 = Len(buffer') /\ b1 \in {b, b + 1}
    BY <1>4, <2>1, SizeAssumption
  <2>3. ASSUME NEW i \in 1..b1
        PROVE  /\ b + 1 - b1 + i \in 1..(b + 1)
               /\ b + 1 - b1 + i = b + 1 <=> i = b1
               /\ i # b1 => i < b1 /\ b + 1 - b1 + i \in 1..b
    BY <2>2
  <2>4. ASSUME NEW i \in 1..b1
        PROVE  buffer'[i] = IF i = b1 THEN e ELSE buffer[b + 1 - b1 + i]
    <3>1. buffer'[i] = Append(buffer, e)[b + 1 - b1 + i] BY <1>4, <2>2
    <3> QED BY <1>5, <2>2, <2>3, <3>1
  <2> QED BY <2>2, <2>3, <2>4
<1>7. TypeOK'
  <2>1. Matching(e) \subseteq Streams BY <1>0 DEF TypeOK, Matching
  <2>2. pub' \in [Publishers -> {Idle}
           \cup [pc : {"sending", "panicked"}, event : Events, todo : SUBSET Streams]]
    <3>1. [pc |-> "sending", event |-> e, todo |-> Matching(e)]
             \in [pc : {"sending", "panicked"}, event : Events, todo : SUBSET Streams]
      BY <1>2, <2>1
    <3> HIDE DEF Idle, Events
    <3> QED BY <1>0, <1>1, <3>1 DEF TypeOK
  <2>3. Len(buffer') <= BufferSize BY <1>0, <1>2, <1>4, SizeAssumption DEF TypeOK
  <2> QED BY <1>0, <1>1, <1>3, <1>4, <2>2, <2>3 DEF TypeOK
<1>8. Numbered' BY <1>0, <1>2, <1>3, <1>e DEF Numbered
<1>9. BufferEnd'
  <2>1. /\ Len(buffer) \in 0..BufferSize /\ n \in Nat
        /\ Len(buffer) = IF n < BufferSize THEN n ELSE BufferSize
    BY <1>0, <1>2, LenProperties DEF TypeOK, BufferEnd
  <2>2. Len(buffer') = IF n + 1 < BufferSize THEN n + 1 ELSE BufferSize
    BY <1>4, <2>1, SizeAssumption
  <2>3. ASSUME NEW i \in 1..Len(buffer') PROVE buffer'[i] = log'[n + 1 - Len(buffer') + i]
    <3>1. CASE i = Len(buffer')
      <4>1. n + 1 - Len(buffer') + i = n + 1 BY <2>1, <2>2, <3>1, SizeAssumption
      <4>2. buffer'[i] = e BY <1>6, <3>1
      <4> QED BY <1>3, <4>1, <4>2
    <3>2. CASE i # Len(buffer')
      <4> DEFINE j == Len(buffer) + 1 - Len(buffer') + i
      <4>1. j \in 1..Len(buffer) /\ buffer'[i] = buffer[j] BY <1>6, <3>2
      <4>2. buffer[j] = log[n - Len(buffer) + j] BY <1>0, <1>2, <4>1 DEF BufferEnd
      <4>3. n - Len(buffer) + j = n + 1 - Len(buffer') + i
        BY <2>1, <1>4, LenProperties
      <4>4. n - Len(buffer) + j \in 1..n BY <2>1, <4>1, SizeAssumption
      <4> QED BY <1>3, <4>1, <4>2, <4>3, <4>4
    <3> QED BY <3>1, <3>2
  <2>4. Len(log') = n + 1 BY <1>3
  <2>5. \A i \in 1..Len(buffer') : buffer'[i] = log'[Len(log') - Len(buffer') + i]
    BY <2>3, <2>4
  <2>6. Len(buffer') = IF Len(log') < BufferSize THEN Len(log') ELSE BufferSize
    BY <2>2, <2>4
  <2> QED BY <2>5, <2>6 DEF BufferEnd
<1>10. OpenedFirst' BY <1>0, <1>1, <1>2, <1>3 DEF OpenedFirst, TypeOK
<1>11. \A x : In(x, log) => In(x, log') BY <1>2, <1>3 DEF In
<1>12. \A s \in Streams : \A x : Due(s, x) => Due(s, x)'
  BY <1>1, <1>11 DEF Due, Matches, In
<1>13. Sending'
  <2> SUFFICES ASSUME NEW q \in Publishers, NEW x \in Events, pub'[q] # Idle, pub'[q].event = x
               PROVE  /\ x.by = q
                      /\ \A s \in pub'[q].todo :
                            Due(s, x)' /\ Precedes(got[s], x) /\ Precedes(chan[s], x)
    BY <1>1 DEF Sending, Precedes
  <2>1. CASE q # p
    <3>1. pub'[q] = pub[q] BY <1>0, <1>1, <2>1 DEF TypeOK
    <3>2. pub[q].todo \subseteq Streams BY <1>0, <3>1 DEF TypeOK
    <3> QED BY <1>0, <1>12, <3>1, <3>2 DEF Sending
  <2>2. CASE q = p
    <3>1. pub'[p] = [pc |-> "sending", event |-> e, todo |-> Matching(e)]
      BY <1>0, <1>1, <2>2 DEF TypeOK
    <3>2. ASSUME NEW s \in Matching(e)
          PROVE  Due(s, e)' /\ Precedes(got[s], e) /\ Precedes(chan[s], e)
      <4>1. s \in subscribers /\ s \in Streams /\ Matches(e, s) BY <1>0 DEF Matching, TypeOK
      <4>2. conn[s] # Idle /\ conn[s].since <= n BY <1>0, <1>2, <4>1 DEF OpenedFirst
      <4>3. conn[s].since \in Int BY <1>0, <4>1, <4>2 DEF TypeOK
      <4>4. In(e, log') BY <1>2, <1>3 DEF In
      <4>5. Due(s, e)'
        <5>1. conn[s].since < e.id BY <1>2, <1>e, <4>2, <4>3
        <5> QED BY <1>1, <4>1, <4>2, <4>4, <5>1 DEF Due, Matches, In
      <4>6. \A x1 \in Events : In(x1, log) => x1.id \in Int /\ x1.id <= n
        BY <1>0, <1>2 DEF In, Numbered
      <4>7. \A i \in 1..Len(got[s]) : got[s][i] \in Events /\ In(got[s][i], log)
        BY <1>0, <4>1, ElementOfSeq DEF TypeOK, Queued, Due, In
      <4>8. \A i \in 1..Len(chan[s]) : chan[s][i] \in Events /\ In(chan[s][i], log)
        BY <1>0, <4>1, ElementOfSeq DEF TypeOK, Queued, Due, In
      <4>9. Precedes(got[s], e) /\ Precedes(chan[s], e)
        BY <1>2, <1>e, <4>6, <4>7, <4>8 DEF Precedes
      <4> QED BY <4>5, <4>9
    <3> QED BY <1>e, <2>2, <3>1, <3>2
  <2> QED BY <2>1, <2>2
<1>14. Queued' BY <1>0, <1>1, <1>12 DEF Queued, In
<1>15. InOrder' BY <1>0, <1>1 DEF InOrder, Ordered, Precedes, In
<1>16. \A x : In(x, buffer') => x = e \/ In(x, buffer) BY <1>6 DEF In
<1>17. ReplayedBuffer'
  <2> SUFFICES ASSUME NEW s \in Streams, NEW x \in Events, conn[s].pc = "streaming",
                      Query[s].replay, In(x, buffer'), Matches(x, s), x.id <= conn[s].since
               PROVE  x \in replayed[s]
    BY <1>1 DEF ReplayedBuffer, Matches, In
  <2>1. conn[s] # Idle BY DEF Idle
  <2>2. conn[s].since <= n /\ conn[s].since \in Int BY <1>0, <1>2, <2>1 DEF OpenedFirst, TypeOK
  <2>3. x # e BY <1>2, <1>e, <2>2
  <2> QED BY <1>0, <1>16, <2>3 DEF ReplayedBuffer
<1>18. NothingMissed'
  <2> SUFFICES ASSUME NEW s \in subscribers, NEW x \in Events, NeverFull(s)', In(x, log'),
                      x.id > conn[s].since, Matches(x, s)
               PROVE  In(x, got[s]) \/ In(x, chan[s]) \/ Owed(s, x)'
    BY <1>1 DEF NothingMissed, Matches, In
  <2>1. s \in Streams BY <1>0 DEF TypeOK
  <2>2. CASE In(x, log)
    <3>1. ToSet(log) \subseteq ToSet(log') BY <1>2, <1>3 DEF ToSet
    <3>2. NeverFull(s) BY <1>1, <1>2, <1>3, <3>1, NeverFullStep
    <3>3. In(x, got[s]) \/ In(x, chan[s]) \/ Owed(s, x) BY <1>0, <2>2, <3>2 DEF NothingMissed
    <3>4. ASSUME NEW q \in Publishers, pub[q] # Idle PROVE pub'[q] = pub[q]
      BY <1>0, <1>1, <3>4 DEF TypeOK
    <3> QED BY <3>3, <3>4 DEF Owed
  <2>3. CASE x = e
    <3>1. s \in Matching(e) BY <2>3 DEF Matching
    <3>2. pub'[p] = [pc |-> "sending", event |-> e, todo |-> Matching(e)]
      BY <1>0, <1>1, <3>1 DEF TypeOK
    <3> QED BY <2>3, <3>1, <3>2 DEF Owed, Idle
  <2>4. In(x, log) \/ x = e BY <1>2, <1>3 DEF In
  <2> QED BY <2>2, <2>3, <2>4
<1> QED
  BY <1>7, <1>8, <1>9, <1>10, <1>13, <1>14, <1>15, <1>17, <1>18 DEF IInv

LEMMA SendInv ==
    ASSUME IInv, NEW p \in Publishers, NEW s \in Streams, Send(p, s)
    PROVE  IInv'
<1>0. TypeOK /\ Numbered /\ BufferEnd /\ OpenedFirst /\ Sending /\ Queued /\ InOrder
      /\ ReplayedBuffer /\ NothingMissed
  BY DEF IInv
<1>1. pub[p].pc = "sending" /\ pub[p] # Idle /\ s \in pub[p].todo
  BY DEF Send, Idle
<1>2. PICK e \in Events : e = pub[p].event BY <1>0, <1>1 DEF TypeOK
<1>3. UNCHANGED <<log, buffer, subscribers, closed, conn, replayed, got>> BY DEF Send
<1>4. e.by = p /\ Due(s, e) /\ Precedes(got[s], e) /\ Precedes(chan[s], e)
  BY <1>0, <1>1, <1>2 DEF Sending
<1>5. \A t : \A x : Due(t, x)' <=> Due(t, x) BY <1>3 DEF Due, In, Matches
<1>6. \A t : NeverFull(t)' <=> NeverFull(t) BY <1>3 DEF NeverFull, Matches
<1>7. Numbered' /\ BufferEnd' /\ ReplayedBuffer'
  BY <1>0, <1>3 DEF Numbered, BufferEnd, ReplayedBuffer, In, Matches
<1>8. CASE s \in closed
  <2>1. pub' = [pub EXCEPT ![p].pc = "panicked"] /\ chan' = chan BY <1>8 DEF Send
  <2>2. pub' \in [Publishers -> {Idle}
           \cup [pc : {"sending", "panicked"}, event : Events, todo : SUBSET Streams]]
    BY <1>0, <1>1, <2>1 DEF TypeOK
  <2>3. \A q \in Publishers : (pub'[q] # Idle <=> pub[q] # Idle)
           /\ (pub[q] # Idle => pub'[q].event = pub[q].event /\ pub'[q].todo = pub[q].todo)
    BY <1>0, <1>1, <2>1 DEF TypeOK, Idle
  <2>4. TypeOK' BY <1>0, <1>3, <2>1, <2>2 DEF TypeOK
  <2>5. OpenedFirst' /\ InOrder' BY <1>0, <1>3, <2>1 DEF OpenedFirst, InOrder, Ordered, Precedes, In
  <2>6. Queued' BY <1>0, <1>3, <1>5, <2>1 DEF Queued, In
  <2>7. Sending' BY <1>0, <1>3, <1>5, <2>1, <2>3 DEF Sending, Precedes
  <2>8. \A t : \A x : Owed(t, x) => Owed(t, x)' BY <2>3 DEF Owed
  <2>9. NothingMissed' BY <1>0, <1>3, <1>6, <2>1, <2>8 DEF NothingMissed, In, Matches
  <2> QED BY <1>7, <2>4, <2>5, <2>6, <2>7, <2>9 DEF IInv
<1>9. CASE s \notin closed
  <2>1. /\ chan' = [chan EXCEPT ![s] = Push(@, e)]
        /\ pub' = [pub EXCEPT ![p] =
                      IF @.todo = {s} THEN Idle
                      ELSE [pub[p] EXCEPT !.todo = pub[p].todo \ {s}]]
    BY <1>2, <1>9 DEF Send
  <2>2. chan[s] \in Seq(Events) /\ chan'[s] = Push(chan[s], e) /\ Len(chan[s]) \in Nat
        /\ \A t \in Streams : t # s => chan'[t] = chan[t]
    BY <1>0, <2>1, LenProperties DEF TypeOK
  <2>3. /\ chan'[s] \in Seq(Events) /\ Len(chan'[s]) <= ChanSize
        /\ Len(chan'[s]) \in {Len(chan[s]), Len(chan[s]) + 1}
        /\ \A i \in 1..Len(chan[s]) : chan'[s][i] = chan[s][i]
        /\ \A i \in 1..Len(chan'[s]) : i > Len(chan[s]) => chan'[s][i] = e
        /\ Len(chan[s]) < ChanSize => In(e, chan'[s])
    <3>1. Len(chan[s]) <= ChanSize BY <1>0 DEF TypeOK
    <3>2. CASE Len(chan[s]) < ChanSize
      <4>1. chan'[s] = Append(chan[s], e) BY <2>2, <3>2 DEF Push
      <4>2. Append(chan[s], e) \in Seq(Events) /\ Len(Append(chan[s], e)) = Len(chan[s]) + 1
            /\ \A i \in 1..Len(chan[s]) : Append(chan[s], e)[i] = chan[s][i]
            /\ Append(chan[s], e)[Len(chan[s]) + 1] = e
        BY <2>2, AppendProperties
      <4>3. In(e, Append(chan[s], e)) BY <2>2, <4>2 DEF In
      <4> QED BY <2>2, <3>2, <4>1, <4>2, <4>3, SizeAssumption DEF In
    <3>3. CASE ~(Len(chan[s]) < ChanSize)
      <4>1. chan'[s] = chan[s] BY <2>2, <3>3 DEF Push
      <4> QED BY <2>2, <3>1, <3>3, <4>1
    <3> QED BY <3>2, <3>3
  <2>4. \A x : In(x, chan'[s]) => x = e \/ In(x, chan[s])
    BY <2>2, <2>3 DEF In
  <2>5. \A t \in Streams : \A x : In(x, chan[t]) => In(x, chan'[t])
    <3> SUFFICES ASSUME NEW x, In(x, chan[s]) PROVE In(x, chan'[s]) BY <2>2
    <3>1. PICK i \in 1..Len(chan[s]) : chan[s][i] = x BY DEF In
    <3>2. i \in 1..Len(chan'[s]) BY <2>2, <2>3
    <3> QED BY <2>3, <3>1, <3>2 DEF In
  <2>6. \A q \in Publishers : q # p => pub'[q] = pub[q] BY <1>0, <2>1 DEF TypeOK
  <2>7. \/ pub'[p] = Idle /\ pub[p].todo = {s}
        \/ /\ pub'[p] # Idle /\ pub'[p].event = e
           /\ pub'[p].todo = pub[p].todo \ {s}
    <3>1. pub[p] \in [pc : {"sending", "panicked"}, event : Events, todo : SUBSET Streams]
      BY <1>0, <1>1 DEF TypeOK
    <3>2. CASE pub[p].todo = {s}
      <4>1. pub'[p] = Idle BY <1>0, <2>1, <3>2 DEF TypeOK
      <4> QED BY <3>2, <4>1
    <3>3. CASE pub[p].todo # {s}
      <4>1. pub'[p] = [pub[p] EXCEPT !.todo = pub[p].todo \ {s}] BY <1>0, <2>1, <3>3 DEF TypeOK
      <4>2. [pub[p] EXCEPT !.todo = pub[p].todo \ {s}]
               = [pc |-> "sending", event |-> e, todo |-> pub[p].todo \ {s}]
        BY <1>1, <1>2, <3>1
      <4> QED BY <4>1, <4>2 DEF Idle
    <3> QED BY <3>2, <3>3
  <2>8. TypeOK'
    <3>1. pub' \in [Publishers -> {Idle}
             \cup [pc : {"sending", "panicked"}, event : Events, todo : SUBSET Streams]]
      <4> DEFINE Work == [pc : {"sending", "panicked"}, event : Events, todo : SUBSET Streams]
      <4>1. pub[p] \in Work BY <1>0, <1>1 DEF TypeOK
      <4>2. [pub[p] EXCEPT !.todo = pub[p].todo \ {s}] \in Work BY <4>1
      <4>3. pub \in [Publishers -> {Idle} \cup Work] BY <1>0 DEF TypeOK
      <4>4. pub' \in [Publishers -> {Idle} \cup Work]
        <5> DEFINE rest == [pub[p] EXCEPT !.todo = pub[p].todo \ {s}]
        <5>1. pub' = [pub EXCEPT ![p] = IF pub[p].todo = {s} THEN Idle ELSE rest]
          BY <2>1, <4>3
        <5>2. rest \in Work BY <4>2
        <5> HIDE DEF Work, rest
        <5> QED BY <4>3, <5>1, <5>2
      <4> QED BY <4>4
    <3>2. chan' \in [Streams -> Seq(Events)] /\ \A t \in Streams : Len(chan'[t]) <= ChanSize
      BY <1>0, <2>1, <2>2, <2>3 DEF TypeOK
    <3> QED BY <1>0, <1>3, <3>1, <3>2 DEF TypeOK
  <2>9. OpenedFirst'
    <3>1. conn[s] # Idle BY <1>4 DEF Due
    <3> QED BY <1>0, <1>3, <2>2, <3>1 DEF OpenedFirst
  <2>10. Queued' BY <1>0, <1>3, <1>4, <1>5, <2>2, <2>4 DEF Queued, In
  <2>11. Sending'
    <3> SUFFICES ASSUME NEW q \in Publishers, NEW x \in Events, pub'[q] # Idle,
                        pub'[q].event = x
                 PROVE  /\ x.by = q
                        /\ \A t \in pub'[q].todo :
                             Due(t, x) /\ Precedes(got[t], x) /\ Precedes(chan'[t], x)
      BY <1>3, <1>5 DEF Sending, Precedes
    <3>1. CASE q = p
      BY <1>0, <1>1, <1>2, <2>2, <2>7, <2>8, <3>1 DEF Sending, TypeOK
    <3>2. CASE q # p
      <4>1. /\ x.by = q
            /\ \A t \in pub[q].todo :
                 t \in Streams /\ Due(t, x) /\ Precedes(got[t], x) /\ Precedes(chan[t], x)
        BY <1>0, <2>6, <3>2 DEF Sending, TypeOK
      <4>2. Precedes(chan[s], x) => Precedes(chan'[s], x)
        BY <1>4, <2>2, <2>3, <3>2, <4>1 DEF Precedes
      <4> QED BY <2>2, <2>6, <3>2, <4>1, <4>2
    <3> QED BY <3>1, <3>2
  <2>12. InOrder'
    <3>1. Ordered(chan[s]) /\ Ordered(got[s]) BY <1>0 DEF InOrder
    <3>2. Ordered(chan'[s])
      BY <1>4, <2>2, <2>3, <3>1 DEF Ordered, Precedes
    <3>3. \A t \in Streams : Ordered(got[t]) /\ Ordered(chan'[t])
      BY <1>0, <2>2, <3>2 DEF InOrder
    <3>4. \A t \in Streams, x \in Events : In(x, chan'[t]) => Precedes(got[t], x)
      BY <1>0, <1>4, <2>2, <2>4 DEF InOrder
    <3> QED BY <1>3, <3>3, <3>4 DEF InOrder, Ordered, Precedes, In
  <2>13. NothingMissed'
    <3> SUFFICES ASSUME NEW t \in subscribers, NEW x \in Events, NeverFull(t), In(x, log),
                        x.id > conn[t].since, Matches(x, t)
                 PROVE  In(x, got[t]) \/ In(x, chan'[t]) \/ Owed(t, x)'
      BY <1>3, <1>6 DEF NothingMissed, In, Matches
    <3>1. t \in Streams BY <1>0 DEF TypeOK
    <3>2. In(x, got[t]) \/ In(x, chan[t]) \/ Owed(t, x) BY <1>0 DEF NothingMissed
    <3>3. CASE In(x, got[t]) \/ In(x, chan[t]) BY <2>5, <3>1, <3>3
    <3>4. CASE Owed(t, x)
      <4>1. PICK q \in Publishers : pub[q] # Idle /\ pub[q].event = x /\ t \in pub[q].todo
        BY <3>4 DEF Owed
      <4>2. CASE q # p BY <2>6, <4>1, <4>2 DEF Owed
      <4>3. CASE q = p /\ t # s BY <1>2, <2>7, <4>1, <4>3 DEF Owed
      <4>4. CASE q = p /\ t = s
        <5>1. x = e BY <1>2, <4>1, <4>4
        <5>2. Len(chan[s]) < ChanSize
          <6>1. ~(Len(chan[s]) >= ChanSize) BY <1>4, <4>4, DroppedWhenFull
          <6> QED BY <2>2, <6>1, SizeAssumption
        <5> QED BY <2>3, <4>4, <5>1, <5>2
      <4> QED BY <4>2, <4>3, <4>4
    <3> QED BY <3>2, <3>3, <3>4
  <2> QED BY <1>7, <2>8, <2>9, <2>10, <2>11, <2>12, <2>13 DEF IInv
<1> QED BY <1>8, <1>9

LEMMA LogBounded ==
    ASSUME TypeOK, Numbered
    PROVE  Len(log) \in 0..MaxEvents /\ \A x \in Events : In(x, log) => x.id \in 1..Len(log)
<1>1. log \in Seq(Events) /\ Len(log) \in Nat BY LenProperties DEF TypeOK
<1>2. \A i \in 1..Len(log) : log[i] \in Events /\ log[i].id = i
  BY <1>1, ElementOfSeq DEF Numbered
<1>3. \A x \in Events : In(x, log) => x.id \in 1..Len(log) BY <1>2 DEF In
<1>4. \A i \in 1..Len(log) : i <= MaxEvents BY <1>2, SizeAssumption DEF Events
<1> QED BY <1>1, <1>3, <1>4, SizeAssumption

LEMMA OpenInv == ASSUME IInv, NEW s \in Streams, Open(s) PROVE IInv'
<1>0. TypeOK /\ Numbered /\ BufferEnd /\ OpenedFirst /\ Sending /\ Queued /\ InOrder
      /\ ReplayedBuffer /\ NothingMissed
  BY DEF IInv
<1>1. /\ conn[s] = Idle
      /\ subscribers' = subscribers \cup {s}
      /\ conn' = [conn EXCEPT ![s] =
            [pc |-> IF Query[s].replay THEN "opened" ELSE "streaming", since |-> Len(log)]]
      /\ UNCHANGED <<log, buffer, chan, closed, replayed, got, pub>>
  BY DEF Open
<1>2. Len(log) \in 0..MaxEvents /\ \A x \in Events : In(x, log) => x.id \in 1..Len(log)
  BY <1>0, LogBounded
<1>3. /\ conn'[s] = [pc |-> IF Query[s].replay THEN "opened" ELSE "streaming",
                     since |-> Len(log)]
      /\ conn'[s] # Idle
      /\ \A t \in Streams : t # s => conn'[t] = conn[t]
  BY <1>0, <1>1 DEF TypeOK, Idle
<1>4. TypeOK'
  <2>1. conn' \in [Streams -> {Idle}
           \cup [pc : {"opened", "streaming", "closed"}, since : 0..MaxEvents]]
    BY <1>0, <1>1, <1>2 DEF TypeOK
  <2> QED BY <1>0, <1>1, <2>1 DEF TypeOK
<1>5. Numbered' /\ BufferEnd' /\ InOrder'
  BY <1>0, <1>1 DEF Numbered, BufferEnd, InOrder, Ordered, Precedes, In
<1>6. OpenedFirst' BY <1>0, <1>1, <1>2, <1>3 DEF OpenedFirst
<1>7. \A t \in Streams : \A x : Due(t, x) => Due(t, x)'
  BY <1>1, <1>3 DEF Due, Matches, In
<1>8. Sending'
  <2>1. \A p \in Publishers : pub[p] # Idle => pub[p].todo \subseteq Streams
    BY <1>0 DEF TypeOK
  <2> QED BY <1>0, <1>1, <1>7, <2>1 DEF Sending, Precedes
<1>9. Queued' BY <1>0, <1>1, <1>7 DEF Queued, In
<1>10. ReplayedBuffer'
  BY <1>0, <1>1, <1>3 DEF ReplayedBuffer, In, Matches
<1>11. NothingMissed'
  <2> SUFFICES ASSUME NEW t \in subscribers', NEW x \in Events, NeverFull(t)', In(x, log),
                      x.id > conn'[t].since, Matches(x, t)
               PROVE  In(x, got[t]) \/ In(x, chan[t]) \/ Owed(t, x)
    BY <1>1 DEF NothingMissed, In, Matches, Owed
  <2>1. t # s BY <1>2, <1>3
  <2>2. t \in subscribers /\ conn'[t] = conn[t] BY <1>0, <1>1, <1>3, <2>1 DEF TypeOK
  <2>3. NeverFull(t) BY <1>1, <2>2 DEF NeverFull, Matches
  <2> QED BY <1>0, <2>2, <2>3 DEF NothingMissed
<1> QED BY <1>4, <1>5, <1>6, <1>8, <1>9, <1>10, <1>11 DEF IInv

LEMMA ReplayInv == ASSUME IInv, NEW s \in Streams, Replay(s) PROVE IInv'
<1>0. TypeOK /\ Numbered /\ BufferEnd /\ OpenedFirst /\ Sending /\ Queued /\ InOrder
      /\ ReplayedBuffer /\ NothingMissed
  BY DEF IInv
<1>1. /\ conn[s].pc = "opened"
      /\ replayed' = [replayed EXCEPT ![s] = {e \in ToSet(buffer) : Matches(e, s)}]
      /\ conn' = [conn EXCEPT ![s].pc = "streaming"]
      /\ UNCHANGED <<log, buffer, subscribers, chan, closed, got, pub>>
  BY DEF Replay
<1>2. conn[s] \in [pc : {"opened", "streaming", "closed"}, since : 0..MaxEvents]
  BY <1>0, <1>1 DEF TypeOK, Idle
<1>3. /\ conn'[s].since = conn[s].since /\ conn'[s] # Idle
      /\ conn'[s] \in [pc : {"opened", "streaming", "closed"}, since : 0..MaxEvents]
      /\ \A t \in Streams : t # s => conn'[t] = conn[t]
  BY <1>0, <1>1, <1>2 DEF TypeOK, Idle
<1>4. TypeOK'
  <2>1. conn' \in [Streams -> {Idle}
           \cup [pc : {"opened", "streaming", "closed"}, since : 0..MaxEvents]]
    BY <1>0, <1>1, <1>3 DEF TypeOK
  <2>2. ToSet(buffer) \subseteq Events BY <1>0, ElementOfSeq DEF TypeOK, ToSet
  <2>3. replayed' \in [Streams -> SUBSET Events] BY <1>0, <1>1, <2>2 DEF TypeOK
  <2> QED BY <1>0, <1>1, <2>1, <2>3 DEF TypeOK
<1>5. Numbered' /\ BufferEnd' /\ InOrder'
  BY <1>0, <1>1 DEF Numbered, BufferEnd, InOrder, Ordered, Precedes, In
<1>6. OpenedFirst' BY <1>0, <1>1, <1>2, <1>3 DEF OpenedFirst, Idle
<1>7. \A t \in Streams : \A x : Due(t, x) => Due(t, x)'
  BY <1>1, <1>3 DEF Due, Matches, In
<1>8. Sending'
  <2>1. \A p \in Publishers : pub[p] # Idle => pub[p].todo \subseteq Streams
    BY <1>0 DEF TypeOK
  <2> QED BY <1>0, <1>1, <1>7, <2>1 DEF Sending, Precedes
<1>9. Queued' BY <1>0, <1>1, <1>7 DEF Queued, In
<1>10. ReplayedBuffer'
  <2>1. \A x : In(x, buffer) => x \in ToSet(buffer) BY DEF In, ToSet
  <2>2. replayed'[s] = {e \in ToSet(buffer) : Matches(e, s)}
        /\ \A t \in Streams : t # s => replayed'[t] = replayed[t]
    BY <1>0, <1>1 DEF TypeOK
  <2> QED BY <1>0, <1>1, <1>3, <2>1, <2>2 DEF ReplayedBuffer, In, Matches
<1>11. NothingMissed'
  <2>1. \A t \in Streams : conn'[t].since = conn[t].since BY <1>3
  <2>2. \A t \in Streams : NeverFull(t)' => NeverFull(t) BY <1>1, <2>1 DEF NeverFull, Matches
  <2>3. subscribers \subseteq Streams BY <1>0 DEF TypeOK
  <2> QED BY <1>0, <1>1, <2>1, <2>2, <2>3 DEF NothingMissed, In, Matches, Owed
<1> QED BY <1>4, <1>5, <1>6, <1>8, <1>9, <1>10, <1>11 DEF IInv

LEMMA LeaveInv == ASSUME IInv, NEW s \in Streams, Leave(s) PROVE IInv'
<1>0. TypeOK /\ Numbered /\ BufferEnd /\ OpenedFirst /\ Sending /\ Queued /\ InOrder
      /\ ReplayedBuffer /\ NothingMissed
  BY DEF IInv
<1>1. /\ conn[s].pc = "streaming"
      /\ conn' = [conn EXCEPT ![s].pc = "closed"]
      /\ closed' = closed \cup {s}
      /\ subscribers' = subscribers \ {s}
      /\ UNCHANGED <<log, buffer, chan, replayed, got, pub>>
  BY DEF Leave
<1>2. conn[s] \in [pc : {"opened", "streaming", "closed"}, since : 0..MaxEvents]
  BY <1>0, <1>1 DEF TypeOK, Idle
<1>3. /\ conn'[s].since = conn[s].since /\ conn'[s] # Idle /\ conn'[s].pc = "closed"
      /\ conn'[s] \in [pc : {"opened", "streaming", "closed"}, since : 0..MaxEvents]
      /\ \A t \in Streams : t # s => conn'[t] = conn[t]
  BY <1>0, <1>1, <1>2 DEF TypeOK, Idle
<1>4. TypeOK'
  <2>1. conn' \in [Streams -> {Idle}
           \cup [pc : {"opened", "streaming", "closed"}, since : 0..MaxEvents]]
    BY <1>0, <1>1, <1>3 DEF TypeOK
  <2> QED BY <1>0, <1>1, <2>1 DEF TypeOK
<1>5. Numbered' /\ BufferEnd' /\ InOrder'
  BY <1>0, <1>1 DEF Numbered, BufferEnd, InOrder, Ordered, Precedes, In
<1>6. OpenedFirst' BY <1>0, <1>1, <1>2, <1>3 DEF OpenedFirst, Idle
<1>7. \A t \in Streams : \A x : Due(t, x) => Due(t, x)'
  BY <1>1, <1>3 DEF Due, Matches, In
<1>8. Sending'
  <2>1. \A p \in Publishers : pub[p] # Idle => pub[p].todo \subseteq Streams
    BY <1>0 DEF TypeOK
  <2> QED BY <1>0, <1>1, <1>7, <2>1 DEF Sending, Precedes
<1>9. Queued' BY <1>0, <1>1, <1>7 DEF Queued, In
<1>10. ReplayedBuffer' BY <1>0, <1>1, <1>3 DEF ReplayedBuffer, In, Matches
<1>11. NothingMissed'
  <2>1. \A t \in Streams : conn'[t].since = conn[t].since BY <1>3
  <2>2. \A t \in Streams : NeverFull(t)' => NeverFull(t) BY <1>1, <2>1 DEF NeverFull, Matches
  <2>3. subscribers' \subseteq subscribers /\ subscribers \subseteq Streams
    BY <1>0, <1>1 DEF TypeOK
  <2> QED BY <1>0, <1>1, <2>1, <2>2, <2>3 DEF NothingMissed, In, Matches, Owed
<1> QED BY <1>4, <1>5, <1>6, <1>8, <1>9, <1>10, <1>11 DEF IInv

LEMMA ForwardInv == ASSUME IInv, NEW s \in Streams, Forward(s) PROVE IInv'
<1>0. TypeOK /\ Numbered /\ BufferEnd /\ OpenedFirst /\ Sending /\ Queued /\ InOrder
      /\ ReplayedBuffer /\ NothingMissed
  BY DEF IInv
<1>1. /\ conn[s].pc = "streaming" /\ conn[s] # Idle
      /\ chan[s] # <<>>
      /\ got' = [got EXCEPT ![s] = Append(@, Head(chan[s]))]
      /\ chan' = [chan EXCEPT ![s] = Tail(@)]
      /\ UNCHANGED <<log, buffer, subscribers, closed, conn, replayed, pub>>
  BY DEF Forward, Idle
<1>2. /\ chan[s] \in Seq(Events) /\ got[s] \in Seq(Events)
      /\ chan'[s] = Tail(chan[s]) /\ got'[s] = Append(got[s], Head(chan[s]))
      /\ \A t \in Streams : t # s => chan'[t] = chan[t] /\ got'[t] = got[t]
  BY <1>0, <1>1 DEF TypeOK
<1>3. PICK e \in Events : e = Head(chan[s]) BY <1>1, <1>2, HeadTailProperties
<1>4. /\ Len(chan[s]) \in Nat \ {0} /\ e = chan[s][1]
      /\ chan'[s] \in Seq(Events) /\ Len(chan'[s]) = Len(chan[s]) - 1
      /\ \A i \in 1..Len(chan'[s]) : chan'[s][i] = chan[s][i + 1]
  <2>1. Len(chan[s]) \in Nat /\ Len(chan[s]) # 0 BY <1>1, <1>2, EmptySeq, LenProperties
  <2>2. e = chan[s][1] BY <1>1, <1>2, <1>3
  <2>3. /\ Tail(chan[s]) \in Seq(Events) /\ Len(Tail(chan[s])) = Len(chan[s]) - 1
        /\ \A i \in 1..Len(Tail(chan[s])) : Tail(chan[s])[i] = chan[s][i + 1]
    BY <1>1, <1>2, HeadTailProperties
  <2> QED BY <1>2, <2>1, <2>2, <2>3
<1>5. /\ Len(got[s]) \in Nat
      /\ got'[s] \in Seq(Events) /\ Len(got'[s]) = Len(got[s]) + 1
      /\ \A i \in 1..Len(got[s]) : got'[s][i] = got[s][i]
      /\ got'[s][Len(got[s]) + 1] = e
  BY <1>2, <1>3, AppendProperties, LenProperties
<1>6. /\ \A x : In(x, chan'[s]) => In(x, chan[s])
      /\ \A x : In(x, got'[s]) => In(x, got[s]) \/ x = e
      /\ \A x : In(x, got[s]) => In(x, got'[s])
      /\ \A x : In(x, chan[s]) => In(x, chan'[s]) \/ x = e
      /\ In(e, got'[s]) /\ In(e, chan[s])
  <2>1. \A i \in 1..Len(chan'[s]) : i + 1 \in 1..Len(chan[s]) BY <1>4
  <2>2. \A x : In(x, chan'[s]) => In(x, chan[s]) BY <1>4, <2>1 DEF In
  <2>3. \A x : In(x, got'[s]) => In(x, got[s]) \/ x = e BY <1>5 DEF In
  <2>4. \A x : In(x, got[s]) => In(x, got'[s]) BY <1>5 DEF In
  <2>5. ASSUME NEW x, In(x, chan[s]) PROVE In(x, chan'[s]) \/ x = e
    <3>1. PICK i \in 1..Len(chan[s]) : chan[s][i] = x BY <2>5 DEF In
    <3>2. CASE i = 1 BY <1>4, <3>1, <3>2
    <3>3. CASE i # 1
      <4>1. i - 1 \in 1..Len(chan'[s]) /\ (i - 1) + 1 = i BY <1>4, <3>3
      <4>2. chan'[s][i - 1] = x BY <1>4, <3>1, <4>1
      <4> QED BY <4>1, <4>2 DEF In
    <3> QED BY <3>2, <3>3
  <2>6. In(e, got'[s]) BY <1>5 DEF In
  <2>7. In(e, chan[s]) BY <1>4 DEF In
  <2> QED BY <2>2, <2>3, <2>4, <2>5, <2>6, <2>7
<1>7. TypeOK'
  <2>1. \A t \in Streams : Len(chan'[t]) <= ChanSize
    <3>1. Len(chan[s]) <= ChanSize BY <1>0 DEF TypeOK
    <3>2. Len(chan'[s]) <= ChanSize BY <1>4, <3>1, SizeAssumption
    <3> QED BY <1>0, <1>2, <3>2 DEF TypeOK
  <2>2. chan' \in [Streams -> Seq(Events)] /\ got' \in [Streams -> Seq(Events)]
    BY <1>0, <1>1, <1>2, <1>4, <1>5 DEF TypeOK
  <2> QED BY <1>0, <1>1, <2>1, <2>2 DEF TypeOK
<1>8. Numbered' /\ BufferEnd' /\ ReplayedBuffer'
  BY <1>0, <1>1 DEF Numbered, BufferEnd, ReplayedBuffer, In, Matches
<1>9. OpenedFirst' BY <1>0, <1>1, <1>2 DEF OpenedFirst
<1>10. \A t : \A x : Due(t, x)' <=> Due(t, x) BY <1>1 DEF Due, In, Matches
<1>11. Queued'
  <2> SUFFICES ASSUME NEW t \in Streams, NEW x \in Events, In(x, chan'[t]) \/ In(x, got'[t])
               PROVE  Due(t, x)
    BY <1>10 DEF Queued, In
  <2>1. In(x, chan[t]) \/ In(x, got[t]) BY <1>2, <1>6
  <2> QED BY <1>0, <2>1 DEF Queued
<1>12. ASSUME NEW x \in Events, Precedes(got[s], x), Precedes(chan[s], x)
       PROVE  Precedes(got'[s], x) /\ Precedes(chan'[s], x)
  <2>1. \A i \in 1..Len(chan'[s]) : i + 1 \in 1..Len(chan[s]) BY <1>4
  <2>2. Precedes(chan'[s], x) BY <1>4, <1>12, <2>1 DEF Precedes
  <2>3. e.by = x.by => e.id < x.id BY <1>4, <1>12 DEF Precedes
  <2>4. Precedes(got'[s], x)
    <3> SUFFICES ASSUME NEW i \in 1..Len(got'[s]), got'[s][i].by = x.by
                 PROVE  got'[s][i].id < x.id
      BY DEF Precedes
    <3>1. CASE i = Len(got[s]) + 1
      <4>1. got'[s][i] = e BY <1>5, <3>1
      <4> QED BY <2>3, <4>1
    <3>2. CASE i # Len(got[s]) + 1
      <4>1. i \in 1..Len(got[s]) BY <1>5, <3>2
      <4>2. got'[s][i] = got[s][i] BY <1>5, <4>1
      <4> QED BY <1>12, <4>1, <4>2 DEF Precedes
    <3> QED BY <3>1, <3>2
  <2> QED BY <2>2, <2>4
<1>13. Sending'
  <2> SUFFICES ASSUME NEW q \in Publishers, NEW x \in Events, pub[q] # Idle, pub[q].event = x
               PROVE  /\ x.by = q
                      /\ \A t \in pub[q].todo :
                           Due(t, x) /\ Precedes(got'[t], x) /\ Precedes(chan'[t], x)
    BY <1>1, <1>10 DEF Sending, Precedes
  <2>1. /\ x.by = q
        /\ \A t \in pub[q].todo :
             t \in Streams /\ Due(t, x) /\ Precedes(got[t], x) /\ Precedes(chan[t], x)
    BY <1>0 DEF Sending, TypeOK
  <2>2. SUFFICES ASSUME NEW t \in pub[q].todo
                 PROVE  Due(t, x) /\ Precedes(got'[t], x) /\ Precedes(chan'[t], x)
    BY <2>1
  <2>3. t \in Streams /\ Due(t, x) /\ Precedes(got[t], x) /\ Precedes(chan[t], x) BY <2>1
  <2>4. CASE t = s
    <3>1. Precedes(got[s], x) /\ Precedes(chan[s], x) BY <2>3, <2>4
    <3>2. Precedes(got'[s], x) /\ Precedes(chan'[s], x) BY <1>12, <3>1
    <3> QED BY <2>3, <2>4, <3>2
  <2>5. CASE t # s
    <3>1. got'[t] = got[t] /\ chan'[t] = chan[t] BY <1>2, <2>3, <2>5
    <3> QED BY <2>3, <3>1
  <2> QED BY <2>4, <2>5
<1>14. InOrder'
  <2>1. Ordered(got[s]) /\ Ordered(chan[s]) /\ Precedes(got[s], e)
    BY <1>0, <1>6 DEF InOrder
  <2>2. Ordered(got'[s]) BY <1>2, <1>3, <2>1, OrderedAppend
  <2>3. Ordered(chan'[s])
    <3> SUFFICES ASSUME NEW i \in 1..Len(chan'[s]), NEW j \in 1..Len(chan'[s]),
                        i < j, chan'[s][i].by = chan'[s][j].by
                 PROVE  chan'[s][i].id < chan'[s][j].id
      BY DEF Ordered
    <3>1. i + 1 \in 1..Len(chan[s]) /\ j + 1 \in 1..Len(chan[s]) /\ i + 1 < j + 1 BY <1>4
    <3> QED BY <1>4, <2>1, <3>1 DEF Ordered
  <2>4. ASSUME NEW x \in Events, In(x, chan'[s]) PROVE Precedes(got'[s], x)
    <3>1. Precedes(got[s], x) BY <1>0, <1>6, <2>4 DEF InOrder
    <3>2. PICK i \in 1..Len(chan'[s]) : chan'[s][i] = x BY <2>4 DEF In
    <3>3. i + 1 \in 1..Len(chan[s]) /\ 1 \in 1..Len(chan[s]) /\ 1 < i + 1 BY <1>4
    <3>4. chan[s][i + 1] = x BY <1>4, <3>2
    <3>5. e.by = x.by => e.id < x.id BY <1>4, <2>1, <3>3, <3>4 DEF Ordered
    <3> QED BY <1>5, <3>1, <3>5 DEF Precedes
  <2>5. \A t \in Streams : Ordered(got'[t]) /\ Ordered(chan'[t])
    BY <1>0, <1>2, <2>2, <2>3 DEF InOrder
  <2>6. \A t \in Streams, x \in Events : In(x, chan'[t]) => Precedes(got'[t], x)
    BY <1>0, <1>2, <2>4 DEF InOrder
  <2> QED BY <2>5, <2>6 DEF InOrder, Ordered, Precedes, In
<1>15. NothingMissed'
  <2> SUFFICES ASSUME NEW t \in subscribers, NEW x \in Events, NeverFull(t), In(x, log),
                      x.id > conn[t].since, Matches(x, t)
               PROVE  In(x, got'[t]) \/ In(x, chan'[t]) \/ Owed(t, x)
    BY <1>1 DEF NothingMissed, NeverFull, In, Matches, Owed
  <2>1. t \in Streams BY <1>0 DEF TypeOK
  <2>2. In(x, got[t]) \/ In(x, chan[t]) \/ Owed(t, x) BY <1>0 DEF NothingMissed
  <2> QED BY <1>2, <1>6, <2>1, <2>2
<1> QED BY <1>7, <1>8, <1>9, <1>11, <1>13, <1>14, <1>15 DEF IInv

LEMMA InitInv == Init => IInv
<1> SUFFICES ASSUME Init PROVE IInv OBVIOUS
<1>0. /\ log = <<>> /\ buffer = <<>> /\ subscribers = {} /\ closed = {}
      /\ \A s \in Streams : chan[s] = <<>> /\ got[s] = <<>> /\ conn[s] = Idle
      /\ \A p \in Publishers : pub[p] = Idle
  BY DEF Init
<1>1. TypeOK
  <2>1. <<>> \in Seq(Events) /\ Len(<<>>) = 0 BY EmptySeq
  <2>2. Len(buffer) <= BufferSize /\ \A s \in Streams : Len(chan[s]) <= ChanSize
    BY <1>0, <2>1, SizeAssumption
  <2> QED BY <2>1, <2>2 DEF Init, TypeOK
<1>2. Numbered BY <1>0 DEF Numbered
<1>3. BufferEnd BY <1>0, SizeAssumption DEF BufferEnd
<1>4. OpenedFirst BY <1>0 DEF OpenedFirst
<1>5. Sending BY <1>0 DEF Sending
<1>6. Queued BY <1>0 DEF Queued, In
<1>7. InOrder BY <1>0 DEF InOrder, Ordered, In
<1>8. ReplayedBuffer BY <1>0 DEF ReplayedBuffer, In
<1>9. NothingMissed BY <1>0 DEF NothingMissed
<1> QED BY <1>1, <1>2, <1>3, <1>4, <1>5, <1>6, <1>7, <1>8, <1>9 DEF IInv

LEMMA StepInv == IInv /\ [Next]_vars => IInv'
<1> SUFFICES ASSUME IInv, [Next]_vars PROVE IInv' OBVIOUS
<1>1. CASE UNCHANGED vars
  <2>1. TypeOK' /\ Numbered' /\ BufferEnd' /\ OpenedFirst'
    BY <1>1 DEF IInv, vars, TypeOK, Numbered, BufferEnd, OpenedFirst
  <2>2. \A t : \A x : Due(t, x)' <=> Due(t, x) BY <1>1 DEF vars, Due, In, Matches
  <2>3. Sending' /\ Queued' BY <1>1, <2>2 DEF IInv, vars, Sending, Queued, Precedes, In
  <2>4. InOrder' /\ ReplayedBuffer'
    BY <1>1 DEF IInv, vars, InOrder, Ordered, Precedes, In, ReplayedBuffer, Matches
  <2>5. NothingMissed'
    BY <1>1 DEF IInv, vars, NothingMissed, NeverFull, In, Matches, Owed
  <2> QED BY <2>1, <2>3, <2>4, <2>5 DEF IInv
<1>2. CASE Next BY <1>2, StoreInv, SendInv, OpenInv, ReplayInv, ForwardInv, LeaveInv DEF Next
<1> QED BY <1>1, <1>2

\* The invariant holds of every reachable state.
THEOREM Invariant == Spec => []IInv
BY InitInv, StepInv, PTL DEF Spec
-----------------------------------------------------------------------------
(* What it says of the stream *)

\* The replay buffer and the channels stay within their bounds, and every goroutine
\* is in one of the states of its loop.
THEOREM TypeCorrect == Spec => []TypeOK
<1>1. IInv => TypeOK BY DEF IInv
<1> QED BY <1>1, Invariant, PTL

\* The buffer EventStream.Publish keeps is the end of what was published, none
\* skipped or repeated.
THEOREM BufferTail == Spec => []BufferIsTail
<1>1. ASSUME IInv PROVE BufferIsTail
  <2> DEFINE k == IF Len(log) < BufferSize THEN Len(log) ELSE BufferSize
  <2>1. log \in Seq(Events) /\ buffer \in Seq(Events) /\ Len(log) \in Nat
    BY <1>1, LenProperties DEF IInv, TypeOK
  <2>2. k \in 0..Len(log) BY <2>1, SizeAssumption
  <2>3. Len(buffer) = k /\ \A i \in 1..k : buffer[i] = log[Len(log) - k + i]
    BY <1>1 DEF IInv, BufferEnd
  <2> HIDE DEF k
  <2>4. /\ LatestOf(log, k) \in Seq(Events) /\ Len(LatestOf(log, k)) = k
        /\ \A i \in 1..k : LatestOf(log, k)[i] = log[Len(log) - k + i]
    <3>1. /\ Len(log) - k + 1 \in 1..(Len(log) + 1) /\ Len(log) \in (Len(log) - k)..Len(log)
          /\ Len(log) - (Len(log) - k + 1) + 1 = k
          /\ \A i \in 1..k : (Len(log) - k + 1) + i - 1 = Len(log) - k + i
      BY <2>1, <2>2
    <3>2. PICK m \in 1..(Len(log) + 1) : m = Len(log) - k + 1 BY <3>1
    <3>3. LatestOf(log, k) = SubSeq(log, m, Len(log)) BY <3>2 DEF LatestOf
    <3>4. m \in Int /\ \A i \in m..Len(log) : log[i] \in Events
      <4>1. \A i \in m..Len(log) : i \in 1..Len(log) BY <2>1, <3>2
      <4> QED BY <2>1, <3>2, <4>1, ElementOfSeq
    <3>5. /\ SubSeq(log, m, Len(log)) \in Seq(Events)
          /\ Len(SubSeq(log, m, Len(log))) = Len(log) - m + 1
          /\ \A i \in 1..(Len(log) - m + 1) : SubSeq(log, m, Len(log))[i] = log[m + i - 1]
      BY <2>1, <3>2, <3>4, SubSeqProperties
    <3> QED BY <3>1, <3>2, <3>3, <3>5
  <2>5. buffer = LatestOf(log, k)
    <3>1. PICK latest \in Seq(Events) : latest = LatestOf(log, k) BY <2>4
    <3>2. Len(buffer) = Len(latest) BY <2>3, <2>4, <3>1
    <3>3. \A i \in 1..Len(buffer) : buffer[i] = latest[i] BY <2>3, <2>4, <3>1
    <3>4. buffer = latest BY <2>1, <3>2, <3>3, SeqEqual
    <3> QED BY <3>1, <3>4
  <2> QED BY <2>5 DEF BufferIsTail, k
<1> QED BY <1>1, Invariant, PTL

\* Sending without the lock never puts one publisher's events out of order.
THEOREM PublishersInOrder == Spec => []PublisherOrder
<1>1. ASSUME IInv PROVE PublisherOrder
  <2> SUFFICES ASSUME NEW s \in Streams PROVE Ordered(got[s] \o chan[s])
    BY DEF PublisherOrder, Ordered
  <2>1. got[s] \in Seq(Events) /\ chan[s] \in Seq(Events)
        /\ Len(got[s]) \in Nat /\ Len(chan[s]) \in Nat
    BY <1>1, LenProperties DEF IInv, TypeOK
  <2>2. Ordered(got[s]) /\ Ordered(chan[s]) BY <1>1 DEF IInv, InOrder
  <2>3. \A i \in 1..Len(chan[s]) : Precedes(got[s], chan[s][i])
    BY <1>1, <2>1, ElementOfSeq DEF IInv, InOrder, In
  <2> QED BY <2>1, <2>2, <2>3, OrderedConcat
<1> QED BY <1>1, Invariant, PTL

\* Subscribing before replaying leaves no gap: a stream whose channel had room for
\* all it wanted has it, or will get it, or lost it to a publisher that died.
THEOREM Gapless == Spec => []NoGap
<1>1. ASSUME IInv PROVE NoGap
  <2> SUFFICES ASSUME NEW s \in subscribers, conn[s].pc = "streaming", NeverFull(s),
                      NEW e \in ToSet(log), Matches(e, s),
                      e.id > conn[s].since \/ (Query[s].replay /\ e \in ToSet(buffer))
               PROVE  e \in Received(s) \/ Owed(s, e)
    BY DEF NoGap
  <2>1. s \in Streams /\ log \in Seq(Events) /\ conn[s].since \in Int
    BY <1>1 DEF IInv, TypeOK, Idle
  <2>2. In(e, log) BY DEF In, ToSet
  <2>3. e \in Events /\ e.id \in Int BY <2>1, ElementOfSeq, EventType DEF ToSet
  <2>4. CASE e.id > conn[s].since
    <3>1. In(e, got[s]) \/ In(e, chan[s]) \/ Owed(s, e)
      BY <1>1, <2>2, <2>3, <2>4 DEF IInv, NothingMissed
    <3> QED BY <3>1 DEF Received, In, ToSet
  <2>5. CASE ~(e.id > conn[s].since)
    <3>1. Query[s].replay /\ e \in ToSet(buffer) /\ e.id <= conn[s].since BY <2>1, <2>3, <2>5
    <3>2. In(e, buffer) BY <3>1 DEF In, ToSet
    <3>3. e \in replayed[s] BY <1>1, <2>1, <2>3, <3>1, <3>2 DEF IInv, ReplayedBuffer
    <3> QED BY <3>3 DEF Received
  <2> QED BY <2>4, <2>5
<1> QED BY <1>1, Invariant, PTL
=============================================================================
