--------------------------- MODULE SlidingWindow ----------------------------
(* Lists of request times in the order they were recorded, as               *)
(* internal/service/sms/protection.go and internal/service/risk/engine.go   *)
(* keep them per phone, IP and fingerprint.                                 *)
EXTENDS Integers, Sequences, FiniteSets

\* Variant: a time exactly one window old is dropped too.
OutdatedEdge(times, now, window) ==
    {i \in DOMAIN times : \A j \in 1..i : times[j] <= now - window}

\* The leading times that are older than the window: where pruneOld starts.
Outdated(times, now, window) ==
    {i \in DOMAIN times : \A j \in 1..i : times[j] < now - window}

\* pruneOld: the scan stops at the first time that is young enough.
PruneOld(times, now, window) ==
    SubSeq(times, Cardinality(Outdated(times, now, window)) + 1, Len(times))

\* countSince.
CountSince(times, since) == Cardinality({i \in DOMAIN times : times[i] >= since})
=============================================================================
