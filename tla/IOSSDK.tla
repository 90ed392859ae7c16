------------------------------- MODULE IOSSDK -------------------------------
(***************************************************************************)
(* presentChallenge of sdk/ios/.../EngagelabCaptcha.swift: an async method *)
(* waits on a checked continuation for the completion of a sheet with the  *)
(* challenge's page.  Messages of the page, the close button and the       *)
(* failures of a navigation each call the completion and then dismiss the  *)
(* sheet, which takes a while; the completion resumes the continuation, an *)
(* answer once it is verified.  Nothing keeps it from being called again,  *)
(* and Swift traps on a second resume: the page goes on running off the    *)
(* screen, for its message handler retains the controller.  The sheet may  *)
(* also be swiped away, or not come up because another is presented, which *)
(* calls nothing; one that did not come up has not loaded its page either. *)
(***************************************************************************)
EXTENDS Naturals

CONSTANTS
    Presentations,  \* the calls of presentChallenge there may be
    MaxCalls        \* bound: calls of the completion of one sheet

VARIABLES
    step,       \* presentation |-> where its method is
    sheet,      \* presentation |-> "none", "declined", "up", "closing" or "gone"
    swiped,     \* presentations whose sheet was swiped away
    calls,      \* presentation |-> calls of its completion
    verifying,  \* presentation |-> answers being verified
    resumes,    \* presentation |-> resumes of its continuation
    crashed     \* a continuation was resumed twice: the process has ended

vars == <<step, sheet, swiped, calls, verifying, resumes, crashed>>

Init ==
    /\ step = [p \in Presentations |-> "idle"]
    /\ sheet = [p \in Presentations |-> "none"]
    /\ swiped = {}
    /\ calls = [p \in Presentations |-> 0]
    /\ verifying = [p \in Presentations |-> 0]
    /\ resumes = [p \in Presentations |-> 0]
    /\ crashed = FALSE

PresentChallenge(p) ==
    /\ step[p] = "idle"
    /\ step' = [step EXCEPT ![p] = "fetch"]
    /\ UNCHANGED <<sheet, swiped, calls, verifying, resumes, crashed>>

FetchFails(p) ==
    /\ step[p] = "fetch"
    /\ step' = [step EXCEPT ![p] = "returned"]
    /\ UNCHANGED <<sheet, swiped, calls, verifying, resumes, crashed>>

\* The continuation is made and the sheet presented; UIKit may decline.
Present(p) ==
    /\ step[p] = "fetch"
    /\ step' = [step EXCEPT ![p] = "suspended"]
    /\ \E outcome \in {"up", "declined"} : sheet' = [sheet EXCEPT ![p] = outcome]
    /\ UNCHANGED <<swiped, calls, verifying, resumes, crashed>>

\* continuation.resume; what the first one returns ends presentChallenge.
Resume(p) ==
    /\ resumes' = [resumes EXCEPT ![p] = @ + 1]
    /\ step' = [step EXCEPT ![p] = "returned"]
    /\ crashed' = (resumes[p] > 0)

\* The page can call: it was loaded, wherever its sheet is by now.
CanCall(p) == sheet[p] \in {"up", "closing", "gone"} /\ calls[p] < MaxCalls

\* The completion is called, and the sheet dismissed, unless it is gone.
Called(p) ==
    /\ CanCall(p)
    /\ calls' = [calls EXCEPT ![p] = @ + 1]
    /\ sheet' = [sheet EXCEPT ![p] = IF @ = "gone" THEN "gone" ELSE "closing"]
    /\ UNCHANGED swiped

\* Variant: the guard on self returns without resuming.
CompleteDropped(p) ==
    /\ Called(p)
    /\ UNCHANGED <<step, verifying, resumes, crashed>>

\* Cancel message, close button, failed navigation or a URL that cannot be built, or
\* an answer when the SDK object is gone.
CompleteWithoutAnswer(p) ==
    /\ Called(p)
    /\ Resume(p)
    /\ UNCHANGED verifying

\* Submit message: a Task verifies the answer.
CompleteWithAnswer(p) ==
    /\ Called(p)
    /\ verifying' = [verifying EXCEPT ![p] = @ + 1]
    /\ UNCHANGED <<step, resumes, crashed>>

Verified(p) ==
    /\ verifying[p] > 0
    /\ verifying' = [verifying EXCEPT ![p] = @ - 1]
    /\ Resume(p)
    /\ UNCHANGED <<sheet, swiped, calls>>

Dismissed(p) ==
    /\ sheet[p] = "closing"
    /\ sheet' = [sheet EXCEPT ![p] = "gone"]
    /\ UNCHANGED <<step, swiped, calls, verifying, resumes, crashed>>

SwipeAway(p) ==
    /\ sheet[p] = "up"
    /\ sheet' = [sheet EXCEPT ![p] = "gone"]
    /\ swiped' = swiped \cup {p}
    /\ UNCHANGED <<step, calls, verifying, resumes, crashed>>

Next ==
    /\ ~crashed
    /\ \E p \in Presentations :
          \/ PresentChallenge(p) \/ FetchFails(p) \/ Present(p)
          \/ CompleteWithoutAnswer(p) \/ CompleteWithAnswer(p)
          \/ Verified(p) \/ Dismissed(p) \/ SwipeAway(p)

\* Requests time out (15 s idle, 30 s in all) and the animation of a dismissal ends.
Fairness ==
    \A p \in Presentations :
        /\ WF_vars(~crashed /\ (FetchFails(p) \/ Present(p)))
        /\ WF_vars(~crashed /\ Verified(p))
        /\ WF_vars(~crashed /\ Dismissed(p))

Spec == Init /\ [][Next]_vars /\ Fairness
-----------------------------------------------------------------------------
\* Every call of the completion resumes once, now or when its answer is verified: the
\* process crashes only when some sheet has called twice, and a sheet that was not
\* swiped away has called before it is gone.
ResumedOncePerCall ==
    \A p \in Presentations :
        /\ resumes[p] + verifying[p] = calls[p]
        /\ crashed => \E q \in Presentations : calls[q] > 1
        /\ (sheet[p] = "gone" /\ p \notin swiped) => calls[p] > 0

\* A presentation comes as far as its sheet, and ends when the sheet has called.
Settles ==
    \A p \in Presentations :
        /\ step[p] = "fetch" ~> (step[p] # "fetch" \/ crashed)
        /\ calls[p] > 0 ~> (step[p] = "returned" \/ crashed)
=============================================================================
