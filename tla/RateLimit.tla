----------------------------- MODULE RateLimit ------------------------------
(***************************************************************************)
(* internal/middleware/ratelimit.go: at most RequestsPerMinute requests    *)
(* per key, counted in Redis and, when Redis fails, in the process.  The   *)
(* Redis limiter is two round trips: one prunes and counts, the other adds *)
(* the request; one that fails may have been carried out.  The fallback    *)
(* counts in windows aligned to the clock, under a mutex; a server without *)
(* a Redis client behaves as one whose first round trip always fails and   *)
(* has no effect.  Every server stamps with a clock of its own, ahead of   *)
(* the slowest one by up to MaxSkew.  The two commands of a pipeline are   *)
(* one step: Redis may run others between them, but of two prunings the    *)
(* later time decides and what is added between is counted, so a count is  *)
(* what some order of whole pipelines gives, or more.  One key: keys do    *)
(* not touch each other.  The TTL of the Redis key is left out: it is      *)
(* longer than the window, and drops only what a count would have pruned.  *)
(***************************************************************************)
EXTENDS Integers, FiniteSets

CONSTANTS
    Requests,    \* concurrent HTTP requests
    Servers,     \* server processes, each with a fallback limiter of its own
    ServerOf,    \* request |-> the server that handles it
    Limit,       \* RequestsPerMinute
    Window,      \* a minute, in clock units (microseconds)
    Skew,        \* server |-> how far its clock is ahead of the slowest
    MaxSkew,     \* bound on that
    MaxLag,      \* bound on the time a request spends in redisAllow
    MaxClock     \* bound on the clock

ASSUME LimitAssumption ==
    /\ Limit \in Nat \ {0} /\ Window \in Nat \ {0} /\ MaxLag \in Nat /\ MaxClock \in Nat
    /\ IsFiniteSet(Requests) /\ ServerOf \in [Requests -> Servers]

ASSUME SkewAssumption == MaxSkew \in Nat /\ Skew \in [Servers -> 0..MaxSkew]

VARIABLES
    clock,      \* the time, as the slowest of the servers has it
    members,    \* the sorted set: member and score are the same microsecond
    entry,      \* server |-> its fallback's window start and count
    req,        \* where each request is
    stamps,     \* the times of the requests Redis let through (history)
    served      \* server |-> window |-> requests its fallback let through (history)

vars == <<clock, members, entry, req, stamps, served>>

Times   == 0..(MaxClock + MaxSkew)
Windows == 0..((MaxClock + MaxSkew) \div Window)
Idle    == [pc |-> "idle"]
InRedis == {"counting", "adding"}

\* time.Now() of a server.
TimeAt(s) == clock + Skew[s]

\* How long ago a request was stamped.
Age(r) == TimeAt(ServerOf[r]) - req[r].now

\* The fallback's count never exceeds the limit, and its window is one of the
\* clock's or not opened yet.
TypeOK ==
    /\ clock \in 0..MaxClock
    /\ members \subseteq Times /\ stamps \subseteq Times
    /\ entry \in [Servers -> [windowAt : {-Window} \cup Times, count : 0..Limit]]
    /\ req \in [Requests -> {Idle} \cup [pc : InRedis \cup {"fallback"}, now : Times]]
    /\ served \in [Servers -> [Windows -> Nat]]

Init ==
    /\ clock = 0
    /\ members = {}
    /\ entry = [s \in Servers |-> [windowAt |-> -Window, count |-> 0]]
    /\ req = [r \in Requests |-> Idle]
    /\ stamps = {}
    /\ served = [s \in Servers |-> [w \in Windows |-> 0]]

Tick ==
    /\ clock < MaxClock
    /\ \A r \in Requests : req[r].pc \in InRedis => Age(r) < MaxLag
    /\ clock' = clock + 1
    /\ UNCHANGED <<members, entry, req, stamps, served>>
-----------------------------------------------------------------------------
(* redisAllow *)

Arrive(r) ==
    /\ req[r] = Idle
    /\ req' = [req EXCEPT ![r] = [pc |-> "counting", now |-> TimeAt(ServerOf[r])]]
    /\ UNCHANGED <<clock, members, entry, stamps, served>>

\* Variant: what is younger than half the window only is kept.
YoungHalf(now) == {t \in members : 2 * (now - t) < Window}

\* What ZREMRANGEBYSCORE 0 .. now - Window leaves.
Young(now) == {t \in members : t > now - Window}

Finish(r)   == req' = [req EXCEPT ![r] = Idle]
FallBack(r) == req' = [req EXCEPT ![r].pc = "fallback"]

\* The first pipeline, and the test of its count.
Count(r) ==
    /\ req[r].pc = "counting"
    /\ members' = Young(req[r].now)
    /\ IF Cardinality(Young(req[r].now)) < Limit
         THEN req' = [req EXCEPT ![r].pc = "adding"]
         ELSE Finish(r)
    /\ UNCHANGED <<clock, entry, stamps, served>>

\* The second pipeline.
Add(r) ==
    /\ req[r].pc = "adding"
    /\ members' = members \cup {req[r].now}
    /\ stamps' = stamps \cup {req[r].now}
    /\ Finish(r)
    /\ UNCHANGED <<clock, entry, served>>

\* An Exec returns an error, whether or not its commands were carried out.
Fail(r) ==
    /\ req[r].pc \in InRedis
    /\ members' \in {members, IF req[r].pc = "adding" THEN members \cup {req[r].now}
                                                      ELSE Young(req[r].now)}
    /\ FallBack(r)
    /\ UNCHANGED <<clock, entry, stamps, served>>
-----------------------------------------------------------------------------
(* memLimiter.allow; the time is read under the mutex *)

\* Variant: a window starts with the request that opens it.
WindowOfFirst(now) == now

\* now.Truncate(window).
WindowOf(now) == (now \div Window) * Window

Current(e, now) ==
    IF now - e.windowAt >= Window THEN [windowAt |-> WindowOf(now), count |-> 0] ELSE e

Allow(r) ==
    LET s == ServerOf[r]  e == Current(entry[s], TimeAt(s))  room == e.count < Limit IN
    /\ req[r].pc = "fallback"
    /\ entry' = [entry EXCEPT ![s] = IF room THEN [e EXCEPT !.count = @ + 1] ELSE e]
    /\ served' = IF room THEN [served EXCEPT ![s][TimeAt(s) \div Window] = @ + 1] ELSE served
    /\ Finish(r)
    /\ UNCHANGED <<clock, members, stamps>>

Next ==
    \/ Tick
    \/ \E r \in Requests : Arrive(r) \/ Count(r) \/ Add(r) \/ Fail(r) \/ Allow(r)

Spec == Init /\ [][Next]_vars
-----------------------------------------------------------------------------
\* A process that counts for itself lets at most Limit requests through per
\* window of its clock, whatever part of them Redis has counted already.
FallbackLimit == \A s \in Servers, w \in Windows : served[s][w] <= Limit

\* Counting and adding are two round trips: concurrent requests may overrun the
\* limit, but by less than there are requests, in a window shortened by the time a
\* request may take and by what the servers' clocks are apart, one of them pruning
\* what is young to another.  (Requests of one microsecond are one member.)
OverrunBounded ==
    \A t \in Times :
        Cardinality(stamps \cap (t - Window + MaxLag + MaxSkew + 1)..t)
            < Limit + Cardinality(Requests)
=============================================================================
