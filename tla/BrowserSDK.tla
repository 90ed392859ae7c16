----------------------------- MODULE BrowserSDK -----------------------------
(***************************************************************************)
(* sdk/js/src/engagelab-captcha.ts: executions of one SDK instance, which  *)
(* share one container.  An execution is an async function; between its    *)
(* awaits the user, reset() and the other executions run.  A widget is     *)
(* drawn by overwriting the container.  A slider's listeners sit on the    *)
(* document and are never removed, so a drag that was begun is submitted   *)
(* even when its widget is gone by the time it ends, and a slider may be   *)
(* dragged again while an answer of it is on its way.  The server gives at *)
(* most one success per challenge; what it did with an answer is decided   *)
(* when the reply arrives.  The page's onSuccess is called before the      *)
(* promise resolves, and may throw.  Behaviour data and the looks are left *)
(* out.                                                                    *)
(***************************************************************************)
EXTENDS Naturals

CONSTANTS
    Executions,  \* the calls of execute() there may be
    Targets,     \* how many targets a click challenge has
    MaxSubmits,  \* bound: answers submitted by one widget
    MaxClicks,   \* bound: clicks on one widget
    NoOne        \* the container is empty

VARIABLES
    step,       \* execution |-> where its async function is
    promise,    \* execution |-> what its caller holds
    told,       \* execution |-> calls of onSuccess for it
    threw,      \* executions whose onSuccess threw (history)
    kind,       \* execution |-> the type of the challenge drawn
    container,  \* the execution whose widget is in the container
    dragging,   \* execution |-> its slider is being dragged
    clicked,    \* execution |-> clicks on its targets
    flying,     \* execution |-> answers on their way
    submits,    \* execution |-> answers submitted
    passed      \* executions whose challenge the server has passed

widgetVars == <<kind, dragging, clicked, submits>>
vars == <<step, promise, told, threw, widgetVars, container, flying, passed>>

Init ==
    /\ step = [x \in Executions |-> "idle"]
    /\ promise = [x \in Executions |-> "none"]
    /\ told = [x \in Executions |-> 0]
    /\ threw = {}
    /\ kind = [x \in Executions |-> "none"]
    /\ container = NoOne
    /\ dragging = [x \in Executions |-> FALSE]
    /\ clicked = [x \in Executions |-> 0]
    /\ flying = [x \in Executions |-> 0]
    /\ submits = [x \in Executions |-> 0]
    /\ passed = {}

\* A promise settles once; a later resolve or reject has no effect.
Settle(x, outcome) ==
    promise' = IF promise[x] = "pending" THEN [promise EXCEPT ![x] = outcome] ELSE promise

\* onSuccess, and what is left to do: resolve, or reject with what it threw.
Tell(x) ==
    /\ told' = [told EXCEPT ![x] = @ + 1]
    /\ \E throws \in BOOLEAN :
          /\ threw' = IF throws THEN threw \cup {x} ELSE threw
          /\ Settle(x, IF throws THEN "rejected" ELSE "resolved")
-----------------------------------------------------------------------------
(* execute, precheck, showChallenge, reset *)

Execute(x) ==
    /\ step[x] = "idle"
    /\ step' = [step EXCEPT ![x] = "precheck"]
    /\ promise' = [promise EXCEPT ![x] = "pending"]
    /\ UNCHANGED <<told, threw, widgetVars, container, flying, passed>>

\* The precheck passed the client, which is told; denied it, or failed, or the page's
\* onError or onChallengeShow threw; or it asks for a challenge.
PrecheckPass(x) ==
    /\ step[x] = "precheck"
    /\ step' = [step EXCEPT ![x] = "over"]
    /\ Tell(x)
    /\ UNCHANGED <<widgetVars, container, flying, passed>>

PrecheckFail(x) ==
    /\ step[x] = "precheck"
    /\ step' = [step EXCEPT ![x] = "over"]
    /\ Settle(x, "rejected")
    /\ UNCHANGED <<told, threw, widgetVars, container, flying, passed>>

PrecheckChallenge(x) ==
    /\ step[x] = "precheck"
    /\ step' = [step EXCEPT ![x] = "render"]
    /\ UNCHANGED <<promise, told, threw, widgetVars, container, flying, passed>>

\* No challenge came back, or one of a type the SDK does not know.
RenderFail(x) ==
    /\ step[x] = "render"
    /\ step' = [step EXCEPT ![x] = "over"]
    /\ Settle(x, "rejected")
    /\ UNCHANGED <<told, threw, widgetVars, container, flying, passed>>

RenderWidget(x, k) ==
    /\ step[x] = "render"
    /\ step' = [step EXCEPT ![x] = "widget"]
    /\ kind' = [kind EXCEPT ![x] = k]
    /\ container' = x
    /\ UNCHANGED <<promise, told, threw, dragging, clicked, submits, flying, passed>>

Reset ==
    /\ container # NoOne
    /\ container' = NoOne
    /\ UNCHANGED <<step, promise, told, threw, widgetVars, flying, passed>>
-----------------------------------------------------------------------------
(* renderSlider and renderClickSelect *)

Drag(x) ==
    /\ kind[x] = "slider" /\ container = x /\ ~dragging[x]
    /\ submits[x] < MaxSubmits
    /\ dragging' = [dragging EXCEPT ![x] = TRUE]
    /\ UNCHANGED <<step, promise, told, threw, kind, clicked, submits, container, flying, passed>>

\* onEnd, wherever the pointer is and whatever the container holds by now.
Drop(x) ==
    /\ dragging[x]
    /\ dragging' = [dragging EXCEPT ![x] = FALSE]
    /\ flying' = [flying EXCEPT ![x] = @ + 1]
    /\ submits' = [submits EXCEPT ![x] = @ + 1]
    /\ UNCHANGED <<step, promise, told, threw, kind, clicked, container, passed>>

\* Variant: every click from the last target on submits.
CompleteOrMore(n) == n >= Targets

Complete(n) == n = Targets

Click(x) ==
    /\ kind[x] = "click" /\ container = x
    /\ clicked[x] < MaxClicks
    /\ clicked' = [clicked EXCEPT ![x] = @ + 1]
    /\ LET sent == IF Complete(clicked[x] + 1) THEN 1 ELSE 0 IN
          /\ flying' = [flying EXCEPT ![x] = @ + sent]
          /\ submits' = [submits EXCEPT ![x] = @ + sent]
    /\ UNCHANGED <<step, promise, told, threw, kind, dragging, container, passed>>

\* submitChallenge returned a token: whatever is in the container goes.
Succeed(x) ==
    /\ flying[x] > 0 /\ x \notin passed
    /\ flying' = [flying EXCEPT ![x] = @ - 1]
    /\ passed' = passed \cup {x}
    /\ container' = NoOne
    /\ Tell(x)
    /\ UNCHANGED <<step, widgetVars>>

\* A wrong answer, a challenge no longer pending, no reply, or one that was lost
\* after the server had passed the challenge; the widget stays.
Fail(x) ==
    /\ flying[x] > 0
    /\ flying' = [flying EXCEPT ![x] = @ - 1]
    /\ \E lost \in BOOLEAN : passed' = IF lost THEN passed \cup {x} ELSE passed
    /\ Settle(x, "rejected")
    /\ UNCHANGED <<step, told, threw, widgetVars, container>>

Next ==
    \/ \E x \in Executions :
          \/ Execute(x) \/ PrecheckPass(x) \/ PrecheckFail(x) \/ PrecheckChallenge(x)
          \/ RenderFail(x) \/ \E k \in {"slider", "click"} : RenderWidget(x, k)
          \/ Drag(x) \/ Drop(x) \/ Click(x) \/ Succeed(x) \/ Fail(x)
    \/ Reset

\* Every fetch returns or fails in the end, and who holds the slider lets it go;
\* nobody has to answer.
Fairness ==
    \A x \in Executions :
        /\ WF_vars(PrecheckPass(x) \/ PrecheckFail(x) \/ PrecheckChallenge(x))
        /\ WF_vars(RenderFail(x) \/ \E k \in {"slider", "click"} : RenderWidget(x, k))
        /\ WF_vars(Drop(x))
        /\ WF_vars(Succeed(x) \/ Fail(x))

Spec == Init /\ [][Next]_vars /\ Fairness
-----------------------------------------------------------------------------
\* The caller is told of one success at most, and of the one the promise resolves
\* with.  A success and a rejection come together only if onSuccess threw, or for a
\* slider that was tried again: a click challenge submits once, so its rejection is
\* final.
OneOutcome ==
    \A x \in Executions :
        /\ told[x] <= 1
        /\ promise[x] = "resolved" => told[x] = 1 /\ x \notin threw
        /\ (promise[x] = "rejected" /\ told[x] = 1) =>
              x \in threw \/ (kind[x] = "slider" /\ submits[x] > 1)

\* An answer that was submitted settles the promise, whoever has drawn into or wiped
\* the container meanwhile, and an execution always gets as far as a widget or an end.
Settles ==
    \A x \in Executions :
        /\ promise[x] = "pending" ~> (promise[x] # "pending" \/ step[x] = "widget")
        /\ flying[x] > 0 ~> promise[x] # "pending"
=============================================================================
