--------------------------- MODULE ThreatMonitor ----------------------------
(***************************************************************************)
(* internal/handler/threats.go: the list of threat events.  Dashboard      *)
(* copies the slice under the lock and reads the statuses after it, in     *)
(* three passes, while Mitigate writes one of them under the lock.  A      *)
(* status is a Go string, two words: the race lets a read see one word of  *)
(* the old value and one of the new, which compares equal to no status.    *)
(* Placing the read between the two words of the write stands for the      *)
(* reader's own two loads as well.  Record has no caller in the server; it *)
(* is modelled as any caller may use it.  The random timeline, the counts  *)
(* by type and severity (which nothing changes) and List, which stays      *)
(* under the lock, are left out.                                           *)
(***************************************************************************)
EXTENDS Naturals, Sequences, SequencesExt, FiniteSetsExt

CONSTANTS
    Seeds,     \* the statuses of the seeded events, in order
    NewEvents, \* the events Record may be called with
    Kept,      \* how many events are kept
    MaxMitigated  \* bound: how many events may be mitigated

VARIABLES
    events,    \* the slice, newest first
    status,    \* event |-> its status, "torn" between the words of a write
    writing,   \* the event a Mitigate holding the lock is writing, if any
    dash,      \* the Dashboard request: its copy of the slice and how far it has read
    counts,    \* status |-> what the Dashboard has counted
    touched    \* events written since the Dashboard's copy (history)

vars == <<events, status, writing, dash, counts, touched>>

Statuses == <<"active", "mitigated", "resolved">>

SeedIds == DOMAIN Seeds

NoCounts == [s \in ToSet(Statuses) |-> 0]

\* The reads of the Dashboard, and what the reply gives as the total.
Reads == Len(Statuses) * Len(dash.view)

Init ==
    /\ events = [i \in SeedIds |-> i]
    /\ status = [i \in SeedIds \cup NewEvents |-> IF i \in SeedIds THEN Seeds[i] ELSE "active"]
    /\ writing = {}
    /\ dash = [pc |-> "idle", view |-> <<>>, read |-> 0]
    /\ counts = NoCounts
    /\ touched = {}

Record(e) ==
    /\ writing = {} /\ e \notin ToSet(events)
    /\ events' = SubSeq(<<e>> \o events, 1, Min({Kept, Len(events) + 1}))
    /\ UNCHANGED <<status, writing, dash, counts, touched>>

\* Mitigate under the lock: the first word of the status, then the second; an event
\* that is mitigated already is given the same words again.
MitigateBegin(e) ==
    /\ writing = {} /\ Contains(events, e)
    /\ Cardinality({x \in DOMAIN status : status[x] = "mitigated"}) < MaxMitigated
    /\ writing' = {e}
    /\ status' = IF status[e] = "mitigated" THEN status ELSE [status EXCEPT ![e] = "torn"]
    /\ touched' = IF status[e] = "mitigated" THEN touched ELSE touched \cup {e}
    /\ UNCHANGED <<events, dash, counts>>

MitigateEnd(e) ==
    /\ writing = {e}
    /\ writing' = {}
    /\ status' = [status EXCEPT ![e] = "mitigated"]
    /\ UNCHANGED <<events, dash, counts, touched>>

\* Dashboard: the copy of the slice, under the lock.
DashboardCopy ==
    /\ dash.pc = "idle" /\ writing = {}
    /\ dash' = [pc |-> "reading", view |-> events, read |-> 0]
    /\ counts' = NoCounts
    /\ touched' = {}
    /\ UNCHANGED <<events, status, writing>>

\* Variant: the passes go over the list as it is now.
Live(i) == events[((i - 1) % Len(dash.view)) + 1]

\* The event the i-th read looks at.
Seen(i) == dash.view[((i - 1) % Len(dash.view)) + 1]

\* The status the i-th read looks for: one pass of countByStatus for each.
Pass(i) == Statuses[((i - 1) \div Len(dash.view)) + 1]

\* countByStatus, one comparison.
DashboardRead ==
    /\ dash.pc = "reading" /\ dash.read < Reads
    /\ dash' = [dash EXCEPT !.read = @ + 1]
    /\ LET i == dash.read + 1 IN
          counts' = IF status[Seen(i)] = Pass(i) THEN [counts EXCEPT ![Pass(i)] = @ + 1] ELSE counts
    /\ UNCHANGED <<events, status, writing, touched>>

DashboardReply ==
    /\ dash.pc = "reading" /\ dash.read = Reads
    /\ dash' = [pc |-> "idle", view |-> <<>>, read |-> 0]
    /\ counts' = NoCounts /\ touched' = {}
    /\ UNCHANGED <<events, status, writing>>

Next ==
    \/ \E e \in NewEvents : Record(e)
    \/ \E e \in SeedIds \cup NewEvents : MitigateBegin(e) \/ MitigateEnd(e)
    \/ DashboardCopy \/ DashboardRead \/ DashboardReply

Spec == Init /\ [][Next]_vars
-----------------------------------------------------------------------------
\* The summary of a Dashboard reply adds up to its total, but for the events that
\* were mitigated while it read: each of them may be counted twice or not at all,
\* and every other exactly once, whatever was recorded meanwhile.
DashboardCounts ==
    (dash.pc = "reading" /\ dash.read = Reads) =>
        LET sum == counts["active"] + counts["mitigated"] + counts["resolved"]
            total == Len(dash.view)
            blurred == Cardinality(touched \cap ToSet(dash.view))
        IN  total - blurred <= sum /\ sum <= total + blurred
=============================================================================
