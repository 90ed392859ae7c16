# A TLA+ model of EngageLab CAPTCHA

These modules model the Go server of this repository (`cmd/server`, `internal/`) and
its three client SDKs (`sdk/`): what they promise a customer's backend and the page
that embeds them, how the components keep those promises while requests interleave,
and where they do not. TLC checks the models on small
instances; TLAPS proves the most important results for every instance.

Paths below are relative to `internal/` unless they start with `cmd/` or `sdk/`.

## 1. The system

A page's SDK asks for a *precheck*; the risk engine scores the request, the policy
maps the score to an action, and the answer is a token (pass, invisible), a
challenge or a denial. A challenge is *rendered* and *answered*; a right answer
earns a token. The customer's backend sends the token to *siteverify*, which
answers success once. Around this flow there are SMS protection, rate limits, an
adaptive policy, an event stream, webhooks, accounts and a console.

Every HTTP request is a goroutine. Components share no lock: each guards its own
maps, and a handler makes several calls, each locking for itself. All state is in
memory (`cmd/server/main.go` uses the in-memory store whatever is configured), so a
restart loses everything except the signing key, which is configuration.

| Component | State | Operations | What is hard | Correct means |
|---|---|---|---|---|
| siteverify, `service/verify` | used-token map | SiteVerify, cleanupLoop | age is read after the unlock; marks expire; restart | a token is redeemed once per process, a good one is never lost |
| challenge engine, `service/challenge/engine.go` | expected answers | GenerateChallenge, ValidateChallenge, CleanExpired | judged after the unlock; deadline; answer shapes | used up once, approved exactly for a right answer in time |
| session flow, `handler/precheck.go`, `challenge.go`, `siteverify.go`, `repository/memory.go` | sessions and their status | precheck, render, verify, siteverify | read, validate and write are separate critical sections; two kinds of ids | a success means a passed session, once; a denied client gets nothing; a right answer passes |
| risk engine, `service/risk` | request times per IP and fingerprint | Evaluate | time read before the lock; pruning stops early | no request is missing from a rate; bursts escalate |
| policy, `service/policy/engine.go`, `templates.go` | none | Evaluate, SelectChallengeType | boundaries | monotone in the score (through the two components that use it) |
| adaptive policy, `service/policy/adaptive.go` | counters, adjustment per scene | RecordOutcome, GetAdaptedPolicy | successive clamps; stale adjustment | adjusts on evidence, in the direction meant |
| SMS protection, `service/sms`, `handler/sms.go` | send times per phone, IP, fingerprint; cost per app and day | CheckSMSRequest, RecordSMSCost | time read before the lock; midnight | gaps and limits hold; waits suffice; cost is what was charged |
| rate limit, `middleware/ratelimit.go` | Redis sorted set, fallback windows | RateLimit | two round trips; errors after success; servers' clocks differ | overrun is bounded, the fallback exact |
| event stream, `service/events`, `handler/events_stream.go` | replay buffer, channels | Publish, Subscribe, Unsubscribe, Stream | sends after the unlock, closed and full channels | no gap, per-publisher order, only slow ones miss |
| webhooks, `service/webhook`, `handler/webhook.go` | slice of subscriptions | Create, Delete, Emit, deliver | lost and late answers, deletion between lookup and delivery | the subscriptions of the moment, at most three requests each, an end to every delivery |
| browser SDK, `sdk/js` | one container, per execution a promise and a widget | execute, reset, drag, click, submit | executions share the container; a slider can be retried; `onSuccess` may throw | one success, told once and no other resolved; what was answered settles |
| Android SDK, `sdk/android` | coroutine, WebView over the activity | presentChallenge, page callbacks | cancellation before the UI thread has shown the page; repeated callbacks | one resume, no WebView left behind |
| iOS SDK, `sdk/ios` | continuation, sheet | presentChallenge, delegate callbacks | each callback resumes, also after the sheet has gone | one resume per callback, an answer ends the call |
| accounts and apps, `handler/auth.go`, `handler/app.go`, `repository/memory.go` | users, roles, issued keys, apps, key indexes | Register, Login, GenerateAPIKey, app Create and Delete | look up, hash and store apart; indexes trusted unchecked | keys resolve; a login gets its own tenant; only an overlap replaces an account |
| threats, `handler/threats.go` | list of events | Record, Mitigate, Dashboard | reads after the unlock | the summary adds up but for what changes meanwhile |
| threat network, `service/threat_intel` | a record per IP and fingerprint | ReportThreat, profiles | time read before the lock; severities from outside | a report never lowers a boost; first and last times within the wait |
| blocklist, feedback, stats, analytics | lists, random numbers | CRUD | none of note | |
| A/B tests, `service/challenge/ab_test.go` | variants | GetVariant, RecordResult | not in the server's build (its name ends in `_test.go`) | |
| metrics, pictures, translations, branding, PostgreSQL, web console | | | none of note | |

`PROJECT.json` lists every component with its status, every hazard at its line with
the properties that cover it, and for every definition the lines it stands for.

Several components exist but are not wired by `router/router.go`: nothing calls
`EventStream.Publish`, `webhook.Emit` (`router.go:40` makes the service and drops it),
`ThreatMonitor.Record`, `Engine.CleanExpired` or the adaptive engine, and the rate limit
middleware is not installed. Their modules model them as any caller may use them, as the
tests do. The threat network is wired (`router/router.go:50`, `:171-203`): a POST takes
reports, which `binding:"required"` refuses with severity 0, and names every reporter
"anonymous", since nothing sets the key of the context it reads; three GETs show profiles.
No request path reads a boost.

## 2. Modules

| Module | Models | State and actions |
|---|---|---|
| `OneTimeToken` | abstract specification of a token service | `issued`, `spent`; `Redeem` at most once before the time to live; `Forget`, a restart, permits it again |
| `SiteVerify` | `service/verify/service.go` | a request goes `idle -> checked -> marked -> fresh -> idle`: `Submit` (secret and signature), `MarkUsed` (the critical section), `CheckAge`, `Succeed`; `Cleanup` is one turn of cleanupLoop, `Restart` a new process |
| `ChallengeEngine` | `service/challenge/engine.go` | `answers` is the engine's map; `Take` is the critical section of ValidateChallenge, `Judge` and `SignApproved` what follows the unlock; a deadline counts from a time read earlier than the record is stored (`Deadlines`) |
| `Interaction` | abstract specification of one CAPTCHA interaction | `verdict`, `denied`, `successes`; opened, resolved and reported once |
| `CaptchaFlow` | the three handlers over the store, the engine and siteverify | instantiates the two modules above on shared variables; one action per critical section of a handler: `PrecheckSave`, `PrecheckSign`, `PrecheckPass`, `RenderRead`, `RenderGenerate`, `VerifyRead`, `Validate`, `VerifyStore`, `Redeem`; the store starts with seeded sessions (`Seeded`), whose ids anyone may send (`Known`) |
| `Policy` | `service/policy/engine.go`, `templates.go` | operators only |
| `AdaptivePolicy` | `service/policy/adaptive.go` | `RecordOutcome` (with `Adjust`), and `Adapt`, the policy it hands out |
| `SlidingWindow` | `pruneOld`, `countSince` | operators shared by the next two |
| `RiskEngine` | `service/risk` and precheck's decision | `Arrive` reads the time, `Decide` is the critical section with everything computed from it |
| `SMSProtection` | `service/sms/protection.go`, `handler/sms.go` | `Arrive`, then `Refuse` or `Allow` under the mutex, `RecordSMSCost`, `Reply` |
| `RateLimit` | `middleware/ratelimit.go` | `Arrive`, `Count` and `Add` (the two pipelines), `Fail`, `Allow` (fallback); `TimeAt` is the clock of a server |
| `EventStream` | `service/events/stream.go`, `handler/events_stream.go` | `Store` (Publish under the lock), `Send` per subscriber, `Open`, `Replay`, `Forward`, `Leave` |
| `Notification` | abstract specification of a webhook delivery | per notification `status`, `tries`, `copies`; bounded tries, none after a confirmation |
| `Webhook` | `service/webhook/service.go`, `handler/webhook.go` | `Create`, `Delete`; `Lookup` (Emit under the lock), `Spawn` (`go deliver`), `Post`, `Confirm`, `Fail` (one turn of the loop); `Receive` is the network and the endpoint |
| `Accounts` | `handler/auth.go`, `handler/app.go`, `repository/memory.go` | `LookUp`, `RegisterTenant`, `RegisterApp`, `RegisterAccount` are Register's four critical sections; `LoginRead`, `LoginCompare`, `LoginAnswer` (with no tenant if the user has no role); `ConsoleCreate`, `ConsoleDelete`, `GenerateAPIKey` |
| `ThreatMonitor` | `handler/threats.go` | `MitigateBegin` and `MitigateEnd` are the two words of the status written under the lock, `DashboardCopy` the locked copy, `DashboardRead` one comparison after it |
| `ThreatNetwork` | `service/threat_intel/network.go` | `Arrive` is the POST and the stamp of a report, `Report` is the critical section; `Boost` is buildProfile |
| `BrowserSDK` | `sdk/js/src/engagelab-captcha.ts` | an execution goes `idle -> precheck -> render -> widget` or ends; `Drag`, `Drop`, `Click`, `Succeed`, `Fail`, `Reset`; `Tell` calls `onSuccess`, which may throw |
| `AndroidSDK` | `EngagelabCaptcha.kt` | the coroutine (`PresentChallenge`, `Suspend`, `CancelScope`, `Return`), the UI thread (`Show`, `Answer`, `Remove`) and the page (`PageCalls`) |
| `IOSSDK` | `EngagelabCaptcha.swift` | `Present` (UIKit may decline), the callbacks `CompleteWithAnswer` and `CompleteWithoutAnswer`, `Verified`, `Dismissed`, `SwipeAway` |
| `Console` | accounts, threat monitor, threat network and webhooks together | each part is explored while the others stay as they start: they share no state |
| `Clients` | the three SDKs together | likewise |
| `MC...` | | values of the constants for TLC, symmetry |
| `...Proofs` | | theorems, see section 5 |

Conventions. A step of a goroutine is what it does between two points at which
others may run: a critical section, or a computation with one clock reading. History
variables (`results`, `sent`, `charges`, `seen`, `log`, `created`, `threw`, `madeFor`,
`decided`, the `lost` of `configs`, ...) record what has happened and are read by properties only, except `configs`,
`decided`, `announced`, `created` and `madeFor`, which also say which uuids are fresh and which ids
and tokens a client can know. A definition that starts with "Variant" is a plausible
bug of the code next to it; no specification uses one. `PROJECT.json`, "mutants",
names for each property the variant that violates it.

Time is a counter; in `RateLimit`, where Redis is shared, every server is ahead of it by a
constant of its own (`Skew`, at most `MaxSkew`). Where a token's stamp or a wait is cut to whole seconds,
`Second` says how many ticks a second has, so rounding is visible. Scores are whole
points; the code's scores and thresholds are floats, whose fractions no
comparison here tells apart.

Two steps are coarser than the code's. `GenerateChallenge` is one step, though it reads
the time, draws, stores and signs one after the other: the id is not known to anyone until
it returns, and that the deadline is older than the record is kept as a choice. And the two
commands of Redis's first pipeline are one step, although `Pipeline` is no transaction: of two
prunings the later time decides, and a request added between the two is counted too, so a
count is what some order of whole pipelines gives, or more.

## 3. What the runs check

| Run | Question | Result |
|---|---|---|
| `site_verify` | racing redemptions, a stalled one, cleanup, restarts | `AtMostOnce`, `NoTokenLost`; `StaleMarksLeave` under fairness; implements `OneTimeToken` (`RedeemsOnce`) |
| `challenge_engine` | racing answers, deadlines, all answer shapes | `OneUse`, `ApprovedIffSolved`, `BurntStaysBurnt`, `LiveChallengeStays` |
| `captcha_flow` | whole interactions of two clients or of one in two tabs | `RedeemedMeansPassed`, `OneSuccessPerSession`, `DeniedGetNothing`; implements `Interaction` (`ImplementsInteraction`) |
| `right_answer` | is the right answer accepted? | **violated** |
| `event_stream` | publishers, a live and a replaying stream, departures | `BufferIsTail`, `NoGap`, `PublisherOrder` |
| `stream_miss` | do only slow consumers miss events? | **violated** |
| `sms_protection` | checks decided in another order than stamped | `PhoneGap`, `LimitsHold`, `CostIsCharged`, `WaitIsEnough` |
| `rate_limit` | Redis races and failures | `OverrunBounded`, `FallbackLimit` |
| `adaptive_policy` | all orders of outcomes | `AdaptationDirection`, `RatesAreShares`, `AdjustmentJustified` |
| `risk_engine` | racing prechecks of one client | `RatesComplete`, `BurstEscalates` |
| `console` | overlapping registrations and logins; apps and keys | `KeysResolve`, `LoginOwnTenant`, `ReplacedOnlyByOverlap` |
| | a Dashboard racing with Mitigate and Record | `DashboardCounts` |
| | threat reports out of order, from several tenants, with any severity | `BoostFollowsReports`, `SeenWithinLag` |
| | webhooks over a network that loses and delays, subscriptions coming and going | `RightAudience`; implements `Notification` (`KeepsPromise`); `EverySettled` under fairness |
| `clients` | executions in one container, repeated and late callbacks, cancelled scopes | `OneOutcome`, `ResumedOnce`; `OverlayGoes`, `Settles` under fairness |

What the properties leave open is part of what they show. `RedeemsOnce` is about one
process: after a restart a token already redeemed is accepted again, which `Forget`
permits and no property can exclude. `NoTokenLost` measures a token's age from its stamp, as
the code does, which is up to a second older. `LiveChallengeStays` tells a restart from
a cleanup by what a restart has lost (`lost`), so a cleanup that empties the map is no excuse.
`NoGap` says when a full channel may cost a stream an event: when more were published for it
than its channel holds. `OverrunBounded` shortens the window by `MaxLag + MaxSkew`: a
server that is ahead prunes what is young to another. `AdjustmentJustified` states what
overwriting comes to: while bots pass too often the thresholds never rise, except from
the lower cap, where the second branch stores nothing. `ReplacedOnlyByOverlap`
is as much as Register keeps: two registrations of one address that overlap are both
answered with 201, and the later one owns the address. `DashboardCounts` lets every event
mitigated during the reply be counted twice or not at all. `SeenWithinLag` lets a
profile's `firstSeen` be later than its `lastSeen`. `KeepsPromise` lets an endpoint get a
confirmed event three times, and one that answered an abandoned event three times.
`OneOutcome` lets `onSuccess` follow a rejection when a slider is dragged again, which the
caller of `execute` never learns, and lets a promise be rejected with what `onSuccess`
threw although the server has passed the answer and the caller was told (it is called
inside the `try`, `engagelab-captcha.ts:249` and `:315`); a click challenge cannot be tried again although it
stays on the page. `Settles` asks nothing of a widget that nobody answers: one that
another execution has drawn over leaves its promise pending for ever. For iOS it is
`ResumedOncePerCall`: a second call of the completion (close while an answer is verified, or
the page after its sheet has gone, as its message handler keeps the controller) ends the
process, and a sheet that is swiped away leaves the caller waiting. Nothing in the code
prevents either, so the properties do not exclude them: they say that nothing else
ends the process, and that otherwise one call ends the wait.

The two violations are disagreements of the code with its own comments:

* `right_answer`. `GenerateChallenge` stores the answer under a uuid of its own.
  `Render` overwrites the id in the config with the session's id (`handler/challenge.go:50`,
  "so the client maps it back to the session") and `Verify` looks the answer up under
  the session's id (`:80`). It is never there, so every visual challenge fails,
  whatever is answered. For the same reason the four properties of `captcha_flow` about
  tokens are carried by the pass and invisible paths; their variant
  `ValidateRendered`, which looks the answer up where Render put it, shows that they
  bite: with nothing else changed a denied client could earn a token (Render and Verify
  accept a denied session) and two renderings of one session could earn two.
* `stream_miss`. `Publish` collects subscribers under its lock and sends after it
  (`service/events/stream.go:103`). If one of them has unsubscribed meanwhile its channel
  is closed, the send panics, and those not reached yet miss the event.

More divergences found while reading, for which there is no run of their own:
`CheckSMSRequest` reads the time before it waits for the mutex (`service/sms/protection.go:89`),
and a check stamped later and served first prunes times that are still in the hour of
one stamped earlier, so "max 5 SMS per phone per hour" (`:112`, and likewise `:126` and `:143`)
does not hold for every hour: `LimitsHold` is what remains, the limits in an hour
shortened by the longest wait, and is violated with the whole hour. After a restart a
redeemed token is redeemable again (`OneTimeToken!Forget` states it); `CleanExpired`
"should be called periodically" (`service/challenge/engine.go:315`) and is called by
nobody, so answers of abandoned and of invisible challenges stay for ever; a session's
`ExpiresAt` is never read and status `expired` never set, only one of the seeded sessions has it; siteverify looks the session up
under the engine's id and never finds its metadata; "Use a pipeline for atomicity"
(`middleware/ratelimit.go:176`) does not make count and add atomic (`OverrunBounded` says by
how much the limit of `:16-17` can be exceeded); the README's thresholds
(15 and 70) differ from `defaultAction` (20, 50, 75); `GetAdaptedPolicy` may return a
low threshold above 100 in spite of "Clamp thresholds to valid range" (`adaptive.go:97`),
which `AdaptationDirection` shows to be harmless; "3x exponential backoff" of webhooks
(`README.md`) is pauses of 0, 1 and 4 seconds; keys issued by `GenerateAPIKey` are kept
by their hash only and nothing looks them up, and the key of a registered tenant is never
told to anyone, so no one but the seeded tenant can call the console; an app may be deleted
with any tenant's key; the deferred of Android's `ChallengeActivity` (`EngagelabCaptcha.kt:360`)
completes once per process, but nothing starts that activity.

## 4. Bounds and fairness

Every bound is a constant used in a guard: `MaxClock` (all modules with a clock),
`MaxLag` (SMS, rate limit, risk: how long a request may wait), `MaxEvents`,
`MaxOutcomes`, `MaxRequests`, `MaxMitigated`, `MaxReports`, `MaxSubmits`, `MaxClicks`,
`MaxPosts`, `MaxCalls`.

* `site_verify`: one id with two stamps makes two tokens, so tokens cannot mask each
  other; three requests are two that race and one that stalls until its mark is gone.
  The clock passes both the time to live and the retention. A restart can happen anywhere.
* `challenge_engine`: two ids, two callers, answers that are the last right and the first
  wrong one on both sides of a slider's target or a puzzle's, and the degenerate
  shapes; targets at the generators' lower edge, where a missing x read as 0 would come
  closest. The clock passes deadlines, and `CleanExpired` may run at one.
* `captcha_flow`: three ids are one session with two renderings, or a session and its
  token with a second session. Two handlers race, and two redemptions. The risk decision
  is any action. Two of the five seeded sessions, one passed and one `expired`.
* `event_stream`: channels and buffer of two with three events overflow both. Two apps
  and one filter make one stream skip what the other takes.
* `sms_protection`: an hour of four ticks, a gap of two, a second of two; limits small
  enough to be reached within the hour; a day of four ticks puts midnight within the run.
* `rate_limit`: a window of six ticks, shortened by lag and skew, still holds more distinct
  times than limit and overrun together; the clock leaves the first window; two servers are
  one tick apart.
* `adaptive_policy`: the real step and cap (5 and 20) with a sample of 2 instead of 20;
  six outcomes reach either cap and come back from it. One scene: scenes share nothing.
* `risk_engine`: tiers lowered so that four requests pass all of them; the points and
  the policies are the real ones.
* `console`: two registrations of one address with different passwords, a login, an app
  made and deleted. Five seeded events as in the code, two more to push old ones out of a
  list of five. Two reporters with severities below and above the range, and 0 and a clock of two
  half-lives; a boost reaches its cap. Two events and two subscriptions, one of them with a
  URL that does not parse. The parts share no state, so exploring each with the others at
  rest loses nothing that a property of one part could see.
* `clients`: two executions or presentations each, so that one can disturb the other; one
  more call or click than the code is prepared for.

Fairness. In `site_verify` (`FairSpec`) goroutines are scheduled and the ticker of
cleanupLoop keeps firing: weak fairness of a request's steps and of `Cleanup`.
`StaleMarksLeave` needs it and says that the map does not only grow. In `console`
(`Webhook!Fairness`) goroutines are scheduled, a pause ends, and `client.Do` returns when its
ten seconds are over at the latest; nothing obliges the network or the endpoint. In
`clients` a request returns or fails (fetch; timeouts of 15 s on Android and 15 and 30 s on iOS),
a UI thread works its queue off, an animation ends, and who drags a slider lets it go;
nobody has to answer, and no page has to call back.
Deadlock is not checked: when the clock and the inputs have reached their bounds
every model stops, and an idle server may as well.

## 5. What is proved

* `SiteVerifyProofs` (every number of ids, requests and secrets; `Second > 0`,
  `TokenTTL <= Retention`). The inductive invariant `IInv` relates a request that has
  marked its token to the mark and to the clock. `AtMostOnce` alone is not inductive,
  because cleanupLoop may drop the mark of a token some request still holds. What saves
  it is that a token is never marked before its stamp (`MarkedInOrder`): a mark dropped after
  `Retention` belongs to a token older than `TokenTTL`, whose later redemptions fail
  `CheckAge`. `ReplayPrevented`, `NothingLost`, `OnlySignedMarked` and `TypeCorrect` follow, and `Implements`:
  every step maps to a step of `OneTimeToken` or a stutter, where a token counts as
  spent from the moment its request passes the age check.
* `ChallengeEngineProofs` (every number of ids and callers). `UsedOnce` is inductive
  with types and with the fact that what is stored, held or signed was generated;
  `NeverRevived` is the action property that follows from ids being fresh.
  `ApprovedOnlySolved` shows the code's test, with its shapes and conversions, equivalent to
  what a right answer is: a position that was sent and is within the tolerance of the type
  (a missing one reads as 0, and no target is that close to 0), or the right picture
  alone. `LiveStays` shows that of all steps only `Take`, which the client asked for, and
  a restart lose a challenge before its deadline.
* `CaptchaFlowProofs` (every number of ids, handlers, requests and answers). `EngineKept` and
  `VerifyKept` map every step of the flow to a step of `ChallengeEngine` and of
  `SiteVerify`, so that the two invariants above hold within it. What the parts cannot know
  is how ids travel: session ids and engine ids never meet (`Apart`), so no answer finds a
  record (`NothingTaken`) and a token comes from `PrecheckSign` alone, one per session that
  was let through (`OneToken`, `Granting`), before the client hears of the session. A seeded session is never pending
  (`SeededAssumption`), so every handler refuses it. Hence
  `DeniedStayDenied`, `SuccessIsPassed` and `OneSuccess`, and, action by action, `Implements`: the
  verdict of an interaction is its session's status and its successes are the sum over its
  tokens; `Restart` maps to the restart of `Interaction`.
* `EventStreamProofs` (any publishers, streams, filters and sizes). Events carry their place
  in the log (`Numbered`) and the buffer is its end (`BufferEnd`, `BufferTail`).
  `PublishersInOrder` needs what a publisher still has to send (`Sending`: later than all a
  stream has of it). `Gapless` has to explain a dropped event: it was due to the
  stream (`Sending`), the channel was full of others that were due to it as well (`Queued`)
  and all different (`InOrder`), so more events were due than a channel holds, which `NoGap`
  excludes (`NothingMissed`).
* `RateLimitProofs` (any limit, window, lag, servers with their clocks, and requests). The fallback counts by
  windows of the clock (`Aligned`, `Counted`). In Redis, what is still within the window is never
  pruned by a request that lags or whose server is ahead (`Kept`), and `Overrun` charges a request from the
  moment it has counted and not only when it is added: it is that sum which stays below the limit
  and the number of requests.
* `SMSProtectionProofs` (any limits, lengths of time and number of checks). Lists are in the order
  in which checks were decided and need not be sorted. `Holds` says that a list has a place of its
  own for each SMS of the last hour; from it follow `Limited`, as whatever counts in a
  shortened hour is in the list of the check that was let through, and, with the last
  entry being the latest (`LastKnown`), `GapKept`. `Charged` relates a day's cents to the charges for
  `CostCharged`. `WaitSuffices` follows the pruned list from a refusal to the time the client was told.
* `PartsProofs`, first the risk engine (any tiers, times and number of prechecks).
  `NoneUncounted`: `Ending` relates a key's list to all its requests: the list is what they end
  with, and what it lacks is older than an hour. A request counts a minute back from a time that
  is at most `MaxLag` old, so it finds what it counts if `Minute + MaxLag <= Hour`
  (`TimeAssumption`); that rates are told by labels of their own is `LabelAssumption`.
* Then the adaptive engine (every number of scenes, sample size, cap). `Direction` is about
  any policy with ordered thresholds and actions and any adjustment, not only the
  reachable ones: neither clamp can turn the adjustment round. `TemplatesOrdered` shows that
  the six templates qualify, and `DirectionHolds` puts it together. `SharesHold` is inductive
  because an outcome adds to a numerator only together with its denominator. `Justified` is
  the action property about each move.
* Then the SDKs (any number of executions and presentations, any bounds). `OutcomesAgree`: an
  execution's answers under way are fewer than those submitted once one was rejected (`Drawn`),
  and a click challenge submits once (`Submitting`), so a success after a rejection is a second
  answer, of a slider; the only other way to both is an `onSuccess` that threw. `NoSecondResume`: on Android only a suspended coroutine is resumed and none is
  suspended twice; on iOS calls are resumes and answers being verified.
* `ConsoleProofs` (every number of accounts, events, reporters and subscriptions), of each part
  alone; `PartsRun` shows that a run of the parts together is a run of each.
  + Webhooks. `RightAudience` speaks of an Emit that has started all its goroutines;
    inductive is what holds of one under way (`AudienceSplit`: to be served or served, never
    both, together the right ones), over a store that holds each subscription once and just
    those that were created and not deleted (`StoreSound`), `created` and `removed` being
    kept by `Create` and `Delete` alone. `Implements` needs the balance of requests: arrived
    and on their way are no more than the turns of the loop (`Balance`), and a 2xx that can be
    read comes from an endpoint that has the event (`AnswerHasCopy`). Every step then is a step
    of `Notification` or a stutter.
  + Accounts. `KeysAlwaysResolve` is inductive. An address belongs to a registration that has
    ended (`AccountsOwned`) and is never without an account again (`AccountStays`), and what a login
    has read is such an account and stays one (`LoginsRead`, `OwnRoles`): `LoginsOwn` follows.
    `OverlapOnly` rests on a registration going on only when its lookup found nobody.
  + Threat network. A report waits no longer than a lag (`RequestsFresh`), and a record's first
    and last times are those of reports, within a lag of all others (`Stamped`): `SeenInTime`.
    `LagAssumption` is all it needs.
  + Threat monitor. `DashboardAdds` counts: the comparisons that hit so far are explained by
    one status per event as it was when the list was copied, but for the events mitigated
    meanwhile (`Accounted`); three passes over the list then hit each event once, give or take
    those. `SeedAssumption` (every seeded event has one of the three statuses) is needed.

Every module with its own `TypeOK` has it proved, except `RiskEngine`, whose scores are a
sum over a set (below); what `RatesComplete` needs of its types is part of the invariant.
The abstract specifications and the SDKs, `ThreatMonitor` and `ThreatNetwork` state types only as
far as the invariants need them.

Only model-checked. `BurstEscalates` and `BoostFollowsReports` compare sums over sets and lists:
what a fold computes for every input takes an induction over data, which the provers here cannot
instantiate. Liveness under fairness is out of reach as well: `StaleMarksLeave`,
`EverySettled`, `OverlayGoes`, `Settles`. Every other property of a passing run is a theorem.
No module declares a RECURSIVE operator.

## 6. Not modelled

HTTP binding and authentication by key, error texts, pictures and translations,
SQL (not wired), random console data, Prometheus output. Cryptography is abstracted: a
signature is valid exactly when the token was signed with the key. Uuids are fresh. The
clock is monotone and shared by the parts of one server; that servers' clocks drift against
each other is not modelled, only that they differ.

* Scenes: their endpoints look for the app in a parameter that no route binds
  (`handler/scene.go`, `router/router.go`) and always answer 404, so there are no scenes but
  the seeded ones.
* Blocklist, feedback, stats, analytics: single critical sections over a list, or made-up
  numbers; no property to state that is not the assignment.
* A/B tests: `ab_test.go` is compiled for tests only.
* Metrics, pictures, branding, translations, the web console: no state others depend on.
* SDKs: `ChallengeActivity`, which nothing starts; behaviour and device data; the
  length of animations. The SDKs are not composed with the server: no visual challenge ends
  in success there (`right_answer`), so what they add to the flow is how they treat answers,
  errors and their own callbacks, and each answer is a choice.
* Webhooks: the length of the pauses, the signature, redirects.

## 7. Plan

Done, in the order of importance: redemption, challenges, the flow that composes them and
the abstract interaction it implements; SMS, rate limit, risk and policy, adaptive policy,
event stream; webhooks, accounts, threats, threat network; the client SDKs. Proofs of
every invariant, action property and refinement the runs check, but for the two about
sums named in section 5.

Next:

1. Lemmas about the sums that need no induction: what one more label adds to a score
   that is not a fold (`Score` as a sum of the six layers, each with a few cases), so that
   `BurstEscalates` can be proved; it is the order of the rates' tiers that matters there.
2. The clamp of `Score`, and with it `RiskEngine!TypeOK`.
3. `RiskEngine` and `SMSProtection` prove the same lemmas about `SlidingWindow`: a module of
   their own for these, when one of the modules of proofs is taken apart.
