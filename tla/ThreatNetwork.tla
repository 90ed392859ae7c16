--------------------------- MODULE ThreatNetwork ----------------------------
(***************************************************************************)
(* internal/service/threat_intel/network.go: reports about an IP or a      *)
(* fingerprint and the risk boost made of them.  ReportThreat reads the    *)
(* time before it waits for the lock, so reports enter a record in another *)
(* order than they are stamped.  A tick is one half-life, which makes the  *)
(* decay exact: a report counts half as much a tick later.  The two maps   *)
(* of records are one function here, IPs and fingerprints being different  *)
(* keys; the types of a record, TopThreats, which sorts the profiles, and  *)
(* the rounding of a boost to cents are left out.  The router names every  *)
(* reporter "anonymous", the key it reads from the context being set       *)
(* nowhere: only another caller brings several sources.                    *)
(***************************************************************************)
EXTENDS Integers, Sequences, FiniteSets, FiniteSetsExt, SequencesExt

CONSTANTS
    Keys,       \* the IPs and fingerprints there may be
    Sources,    \* the hashed reporters
    Severities, \* what a report may claim, out of range as well
    Reporters,  \* the requests there may be at a time
    MaxClock, MaxLag, MaxReports  \* bounds: time, wait for the lock, reports on one key

VARIABLES
    clock,
    request,    \* reporter |-> its report on the way to the lock, if any
    records     \* key |-> its record: reports, firstSeen, lastSeen, sources

vars == <<clock, request, records>>

NoRecord == [reports |-> <<>>, firstSeen |-> 0, lastSeen |-> 0, sources |-> {}]

Init ==
    /\ clock = 0
    /\ request = [p \in Reporters |-> {}]
    /\ records = [k \in Keys |-> NoRecord]

Tick ==
    /\ clock < MaxClock
    /\ \A p \in Reporters : \A r \in request[p] : clock < r.at + MaxLag
    /\ clock' = clock + 1
    /\ UNCHANGED <<request, records>>

\* Variant: only the upper end is clamped.
ClampAbove(s) == Min({s, 10})

ClampSeverity(s) == Max({1, Min({s, 10})})

\* binding:"required" refuses a severity that is 0.
Bound(s) == s # 0

\* POST /v1/threat-intel/report, and the stamp of ReportThreat; about an IP, a
\* fingerprint or both.
Arrive(p, ks, s, src) ==
    /\ Bound(s)
    /\ request[p] = {}
    /\ \A k \in ks : Len(records[k].reports) < MaxReports
    /\ request' = [request EXCEPT ![p] =
                     {[at |-> clock, severity |-> ClampSeverity(s), source |-> src, keys |-> ks]}]
    /\ UNCHANGED <<clock, records>>

\* Variant: each report makes its own first time.
AddedAnew(rec, r) ==
    [reports   |-> Append(rec.reports, [at |-> r.at, severity |-> r.severity]),
     firstSeen |-> r.at,
     lastSeen  |-> r.at,
     sources   |-> rec.sources \cup {r.source}]

\* getOrCreateRecord, and the report added to it.
Added(rec, r) ==
    [reports   |-> Append(rec.reports, [at |-> r.at, severity |-> r.severity]),
     firstSeen |-> IF rec = NoRecord THEN r.at ELSE rec.firstSeen,
     lastSeen  |-> r.at,
     sources   |-> rec.sources \cup {r.source}]

\* The critical section of ReportThreat.
Report(p) ==
    \E r \in request[p] :
        /\ records' = [k \in Keys |-> IF k \in r.keys THEN Added(records[k], r) ELSE records[k]]
        /\ request' = [request EXCEPT ![p] = {}]
        /\ UNCHANGED clock

Next ==
    \/ Tick
    \/ \E p \in Reporters :
          \/ \E ks \in SUBSET Keys \ {{}}, s \in Severities, src \in Sources : Arrive(p, ks, s, src)
          \/ Report(p)

Spec == Init /\ [][Next]_vars
-----------------------------------------------------------------------------
(* buildProfile.  A boost is counted in shares: 2^MaxClock shares and four *)
(* quarters, for the decay and the multiplier, make one point.             *)

Share == 4 * 2^MaxClock

\* A report's points at time t.
Decayed(r, t) == r.severity * 2^(MaxClock - (t - r.at))

\* Each further reporter adds a quarter.
Quarters(rec) == 4 + Max({0, Cardinality(rec.sources) - 1})

Boost(rec, t) ==
    Min({50 * Share, Quarters(rec) * FoldLeft(LAMBDA sum, r : sum + Decayed(r, t), 0, rec.reports)})
-----------------------------------------------------------------------------
\* A report never makes its IP or fingerprint look safer, whoever sends it, in
\* whatever order reports get the lock, and without one the boost only decays; it
\* stays between 0 and the cap.
BoostFollowsReports ==
    [][\A k \in Keys :
          /\ Boost(records[k], clock) <= Boost(records'[k], clock)
          /\ records'[k] = records[k] => Boost(records'[k], clock') <= Boost(records[k], clock)
          /\ Boost(records'[k], clock') \in 0..(50 * Share)]_vars

\* The first and last times of a profile are those of reports, right to within the
\* wait for the lock: firstSeen may be later than lastSeen, but not by more.
SeenWithinLag ==
    \A k \in Keys : records[k].reports # <<>> =>
        LET stamps == {r.at : r \in ToSet(records[k].reports)} IN
            /\ {records[k].firstSeen, records[k].lastSeen} \subseteq stamps
            /\ records[k].firstSeen <= Min(stamps) + MaxLag
            /\ records[k].lastSeen >= Max(stamps) - MaxLag
=============================================================================
