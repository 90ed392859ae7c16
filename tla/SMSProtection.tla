--------------------------- MODULE SMSProtection ----------------------------
(***************************************************************************)
(* internal/service/sms/protection.go and internal/handler/sms.go: whether *)
(* an SMS may be sent.  A check reads the time, waits for the protector's  *)
(* mutex, and decides with the time it read; an allowed one is then charged *)
(* to the app, and the day's cost is read for the reply, under the mutex   *)
(* each time.  A number that is malformed or disposable is refused before  *)
(* any of it; an empty IP is replaced by the connection's.                 *)
(***************************************************************************)
EXTENDS SlidingWindow

CONSTANTS
    Checks,        \* concurrent POST /v1/sms/check requests
    Phones, IPs, Fingerprints, Apps,
    Missing,       \* the empty fingerprint
    Second,        \* clock units per second
    Gap, Hour,     \* 60 seconds and an hour, in clock units
    Day,           \* clock units per calendar day
    PhoneLimit, IPLimit, FPLimit,   \* 5, 10 and 20 an hour
    MaxLag,        \* bound on the time a check waits for the mutex
    MaxClock       \* bound on the clock

ASSUME TimeAssumption ==
    /\ Second \in Nat \ {0} /\ Gap \in Nat \ {0} /\ Hour \in Nat /\ Day \in Nat \ {0}
    /\ MaxLag \in Nat /\ Gap + MaxLag < Hour /\ MaxClock \in Nat

ASSUME LimitAssumption == {PhoneLimit, IPLimit, FPLimit} \subseteq Nat \ {0}

VARIABLES
    clock,
    phoneCounters, ipCounters, fpCounters,   \* key |-> times of its allowed requests
    tenantCosts,   \* app |-> the day of its last charge and the cents of that day
    check,         \* where each check is
    sent,          \* the SMS allowed, with the time they were stamped (history)
    charges        \* app |-> day |-> how often it was charged (history)

counters == <<phoneCounters, ipCounters, fpCounters>>
vars == <<clock, counters, tenantCosts, check, sent, charges>>

FPKeys == Fingerprints \cup {Missing}
Times  == 0..MaxClock
Days   == 0..(MaxClock \div Day)
Today  == clock \div Day
Asks   == [phone : Phones, ip : IPs, fp : FPKeys, app : Apps, at : Times]
Idle   == [pc |-> "idle"]
NoCost == [day |-> -1, cents |-> 0]

\* The counters hold no more times than the limit of their key lets in, so a map
\* entry stays small; a refused client is always told to wait.
TypeOK ==
    /\ clock \in Times
    /\ \A p \in Phones : phoneCounters[p] \in Seq(Times) /\ Len(phoneCounters[p]) <= PhoneLimit
    /\ \A ip \in IPs : ipCounters[ip] \in Seq(Times) /\ Len(ipCounters[ip]) <= IPLimit
    /\ \A fp \in Fingerprints : fpCounters[fp] \in Seq(Times) /\ Len(fpCounters[fp]) <= FPLimit
    /\ tenantCosts \in [Apps -> [day : Days \cup {-1}, cents : Nat]]
    /\ check \in [Checks -> {Idle} \cup [pc : {"waiting", "allowed", "charged"}, ask : Asks]
                     \cup [pc : {"refused"}, ask : Asks, wait : Nat \ {0}]]
    /\ sent \subseteq Asks
    /\ charges \in [Apps -> [Days -> Nat]]

Init ==
    /\ clock = 0
    /\ phoneCounters = [p \in Phones |-> <<>>]
    /\ ipCounters = [ip \in IPs |-> <<>>]
    /\ fpCounters = [fp \in Fingerprints |-> <<>>]
    /\ tenantCosts = [app \in Apps |-> NoCost]
    /\ check = [c \in Checks |-> Idle]
    /\ sent = {}
    /\ charges = [app \in Apps |-> [d \in Days |-> 0]]

\* Time passes, but no check waits for the mutex longer than MaxLag.
Tick ==
    /\ clock < MaxClock
    /\ \A c \in Checks : check[c].pc = "waiting" => clock - check[c].ask.at < MaxLag
    /\ clock' = clock + 1
    /\ UNCHANGED <<counters, tenantCosts, check, sent, charges>>
-----------------------------------------------------------------------------
(* CheckSMSRequest *)

\* now := time.Now(), before the mutex is taken.
Arrive(c, phone, ip, fp, app) ==
    /\ check[c] = Idle
    /\ check' = [check EXCEPT ![c] = [pc |-> "waiting",
                   ask |-> [phone |-> phone, ip |-> ip, fp |-> fp, app |-> app, at |-> clock]]]
    /\ UNCHANGED <<clock, counters, tenantCosts, sent, charges>>

PhoneTimes(ask) == PruneOld(phoneCounters[ask.phone], ask.at, Hour)
IPTimes(ask)    == PruneOld(ipCounters[ask.ip], ask.at, Hour)
FPTimes(ask)    == PruneOld(fpCounters[ask.fp], ask.at, Hour)

Elapsed(ask) == LET times == PhoneTimes(ask) IN ask.at - times[Len(times)]

\* Variant: a request stamped before the last one is not held against it.
TooSoonForward(ask) == PhoneTimes(ask) # <<>> /\ Elapsed(ask) \in 0..(Gap - 1)

TooSoon(ask)   == PhoneTimes(ask) # <<>> /\ Elapsed(ask) < Gap
PhoneFull(ask) == Len(PhoneTimes(ask)) >= PhoneLimit

IPFull(ask)    == Len(IPTimes(ask)) >= IPLimit
FPFull(ask)    == ask.fp # Missing /\ Len(FPTimes(ask)) >= FPLimit

\* The rules in the order they are tried, and the first one that refuses.
Rules == <<"too soon", "phone", "ip", "fingerprint">>

Refuses(rule, ask) ==
    CASE rule = "too soon"    -> TooSoon(ask)
      [] rule = "phone"       -> PhoneFull(ask)
      [] rule = "ip"          -> IPFull(ask)
      [] rule = "fingerprint" -> FPFull(ask)

RefusedBy(ask, rule) ==
    \E i \in 1..4 : Rules[i] = rule /\ Refuses(rule, ask)
                      /\ \A j \in 1..(i - 1) : ~Refuses(Rules[j], ask)

Allows(ask) == \A i \in 1..4 : ~Refuses(Rules[i], ask)

\* Variant: the wait is rounded down.
WaitRoundedDown(left) == IF left \div Second < 1 THEN 1 ELSE left \div Second

\* int(seconds) + 1.
WaitFor(left) == left \div Second + 1

WaitSeconds(ask, rule) ==
    LET Left(times, limit) == Hour - (ask.at - times[Len(times) - limit + 1]) IN
    CASE rule = "too soon"    -> WaitFor(Gap - Elapsed(ask))
      [] rule = "phone"       -> WaitFor(Left(PhoneTimes(ask), PhoneLimit))
      [] rule = "ip"          -> WaitFor(Left(IPTimes(ask), IPLimit))
      [] rule = "fingerprint" -> WaitFor(Left(FPTimes(ask), FPLimit))

\* Under the mutex: lists are pruned as the rules reach them, and an allowed
\* request is recorded in each.
Refuse(c, rule) ==
    LET ask == check[c].ask IN
    /\ check[c].pc = "waiting"
    /\ RefusedBy(ask, rule)
    /\ check' = [check EXCEPT ![c] =
                   [pc |-> "refused", ask |-> ask, wait |-> WaitSeconds(ask, rule)]]
    /\ phoneCounters' = [phoneCounters EXCEPT ![ask.phone] = PhoneTimes(ask)]
    /\ ipCounters' = IF rule \in {"too soon", "phone"} THEN ipCounters
                     ELSE [ipCounters EXCEPT ![ask.ip] = IPTimes(ask)]
    /\ fpCounters' = IF rule # "fingerprint" THEN fpCounters
                     ELSE [fpCounters EXCEPT ![ask.fp] = FPTimes(ask)]
    /\ UNCHANGED <<clock, tenantCosts, sent, charges>>

Allow(c) ==
    LET ask == check[c].ask IN
    /\ check[c].pc = "waiting"
    /\ Allows(ask)
    /\ check' = [check EXCEPT ![c].pc = "allowed"]
    /\ phoneCounters' = [phoneCounters EXCEPT ![ask.phone] = Append(PhoneTimes(ask), ask.at)]
    /\ ipCounters' = [ipCounters EXCEPT ![ask.ip] = Append(IPTimes(ask), ask.at)]
    /\ fpCounters' = IF ask.fp = Missing THEN fpCounters
                     ELSE [fpCounters EXCEPT ![ask.fp] = Append(FPTimes(ask), ask.at)]
    /\ sent' = sent \cup {ask}
    /\ UNCHANGED <<clock, tenantCosts, charges>>
-----------------------------------------------------------------------------
(* SMSHandler.Check: an allowed request is charged; every reply shows the cost *)

\* Variant: the cents of an earlier day are carried over.
RecordSMSCostCarried(c) ==
    LET app == check[c].ask.app IN
    /\ check[c].pc = "allowed"
    /\ tenantCosts' = [tenantCosts EXCEPT ![app] = [day |-> Today, cents |-> @.cents + 1]]
    /\ charges' = [charges EXCEPT ![app][Today] = @ + 1]
    /\ check' = [check EXCEPT ![c].pc = "charged"]
    /\ UNCHANGED <<clock, counters, sent>>

\* RecordSMSCost; an SMS costs one cent.
RecordSMSCost(c) ==
    LET app == check[c].ask.app IN
    /\ check[c].pc = "allowed"
    /\ tenantCosts' = [tenantCosts EXCEPT ![app] =
                         IF @.day # Today THEN [day |-> Today, cents |-> 1]
                                          ELSE [day |-> Today, cents |-> @.cents + 1]]
    /\ charges' = [charges EXCEPT ![app][Today] = @ + 1]
    /\ check' = [check EXCEPT ![c].pc = "charged"]
    /\ UNCHANGED <<clock, counters, sent>>

\* GetDailyCostCents.
DailyCostCents(app) == IF tenantCosts[app].day = Today THEN tenantCosts[app].cents ELSE 0

Reply(c) ==
    /\ check[c].pc \in {"refused", "charged"}
    /\ check' = [check EXCEPT ![c] = Idle]
    /\ UNCHANGED <<clock, counters, tenantCosts, sent, charges>>

Next ==
    \/ Tick
    \/ \E c \in Checks :
          \/ \E phone \in Phones, ip \in IPs, fp \in FPKeys, app \in Apps :
                Arrive(c, phone, ip, fp, app)
          \/ \E rule \in {"too soon", "phone", "ip", "fingerprint"} : Refuse(c, rule)
          \/ Allow(c) \/ RecordSMSCost(c) \/ Reply(c)

Spec == Init /\ [][Next]_vars
-----------------------------------------------------------------------------
\* Two SMS to one phone are at least a minute apart, also when their checks were
\* decided in another order than they were stamped.
PhoneGap ==
    \A s, t \in sent : s.phone = t.phone /\ s # t => s.at - t.at >= Gap \/ t.at - s.at >= Gap

\* "max 5 SMS per phone per hour", and likewise per IP and per fingerprint, hold in
\* any hour shortened by the longest wait for the mutex, for no longer span: a
\* check that is served later may have been stamped earlier, when what others have
\* pruned by now was still within its hour.
LimitsHold ==
    \A s \in sent :
        LET Recent == {t \in sent : t.at \in (s.at - (Hour - MaxLag))..s.at} IN
        /\ Cardinality({t \in Recent : t.phone = s.phone}) <= PhoneLimit
        /\ Cardinality({t \in Recent : t.ip = s.ip}) <= IPLimit
        /\ s.fp # Missing => Cardinality({t \in Recent : t.fp = s.fp}) <= FPLimit

\* Once client c has waited as long as it was told to, the rule lets it pass.
WaitedOut(c, rule) ==
    ~Refuses(rule, [check[c].ask EXCEPT !.at = @ + check[c].wait * Second])

\* A client that waits as long as it was told to is not refused by that rule
\* again, unless another SMS was allowed meanwhile.
WaitIsEnough ==
    [][\A c \in Checks, rule \in {"too soon", "phone", "ip", "fingerprint"} :
          Refuse(c, rule) => WaitedOut(c, rule)']_vars

\* The cost shown for a day is what was charged that day, across midnights.
CostIsCharged ==
    \A app \in Apps : DailyCostCents(app) = charges[app][Today]
=============================================================================
