----------------------------- MODULE AndroidSDK -----------------------------
(***************************************************************************)
(* presentChallenge of sdk/android/.../EngagelabCaptcha.kt: a coroutine    *)
(* fetches the challenge, suspends while a WebView over the activity shows *)
(* it, and verifies the answer.  The page's script calls submit and cancel *)
(* on a thread of its own; each posts a runnable to the UI thread, and     *)
(* nothing keeps a page from calling either again.  The caller's scope may *)
(* be cancelled at any time; the handler that takes the WebView away is    *)
(* registered by the runnable that shows it, which may run later than      *)
(* that.  Runnables are taken in any order: those of one page differ only  *)
(* in what they answer.                                                    *)
(***************************************************************************)
EXTENDS Naturals

CONSTANTS
    Presentations,  \* the calls of presentChallenge there may be
    MaxPosts        \* bound: calls of submit and cancel by one page

VARIABLES
    step,       \* presentation |-> where its coroutine is
    toShow,     \* presentations whose WebView is still to be shown by the UI thread
    overlay,    \* presentations whose WebView covers the activity
    started,    \* presentations whose page was loaded
    toRemove,   \* presentations whose cancellation has posted a removal
    posts,      \* presentation |-> runnables posted by its page
    reported,   \* presentation |-> calls its page has made
    resumes     \* presentation |-> how often its continuation was resumed

uiVars == <<toShow, overlay, started, toRemove>>
vars == <<step, uiVars, posts, reported, resumes>>

Init ==
    /\ step = [p \in Presentations |-> "idle"]
    /\ toShow = {} /\ overlay = {} /\ started = {} /\ toRemove = {}
    /\ posts = [p \in Presentations |-> 0]
    /\ reported = [p \in Presentations |-> 0]
    /\ resumes = [p \in Presentations |-> 0]
-----------------------------------------------------------------------------
(* The coroutine. *)

PresentChallenge(p) ==
    /\ step[p] = "idle"
    /\ step' = [step EXCEPT ![p] = "fetch"]
    /\ UNCHANGED <<uiVars, posts, reported, resumes>>

\* The render data came: the coroutine suspends, the UI thread will show the page.
Suspend(p) ==
    /\ step[p] = "fetch"
    /\ step' = [step EXCEPT ![p] = "suspended"]
    /\ toShow' = toShow \cup {p}
    /\ UNCHANGED <<overlay, started, toRemove, posts, reported, resumes>>

\* An exception while fetching or verifying, a cancellation among them; a refusal;
\* a token.  Each is a result.
Return(p) ==
    /\ step[p] \in {"fetch", "verify"}
    /\ step' = [step EXCEPT ![p] = "returned"]
    /\ UNCHANGED <<uiVars, posts, reported, resumes>>

\* The scope is cancelled while the coroutine is suspended; the handler runs if it
\* has been registered.
CancelScope(p) ==
    /\ step[p] = "suspended"
    /\ step' = [step EXCEPT ![p] = "returned"]
    /\ toRemove' = IF p \in started THEN toRemove \cup {p} ELSE toRemove
    /\ UNCHANGED <<toShow, overlay, started, posts, reported, resumes>>
-----------------------------------------------------------------------------
(* The UI thread and the page. *)

\* Variant: a handler registered after the cancellation is not run.
RemovalMissed(p) == {}

\* invokeOnCancellation runs its handler at once when the coroutine has been cancelled.
RemovalDue(p) == IF step[p] = "suspended" THEN {} ELSE {p}

Show(p) ==
    /\ p \in toShow
    /\ toShow' = toShow \ {p}
    /\ overlay' = overlay \cup {p}
    /\ started' = started \cup {p}
    /\ toRemove' = toRemove \cup RemovalDue(p)
    /\ UNCHANGED <<step, posts, reported, resumes>>

Remove(p) ==
    /\ p \in toRemove
    /\ toRemove' = toRemove \ {p}
    /\ overlay' = overlay \ {p}
    /\ UNCHANGED <<step, toShow, started, posts, reported, resumes>>

\* submit or cancel, called by the page.
PageCalls(p) ==
    /\ p \in started
    /\ reported[p] < MaxPosts
    /\ reported' = [reported EXCEPT ![p] = @ + 1]
    /\ posts' = [posts EXCEPT ![p] = @ + 1]
    /\ UNCHANGED <<step, uiVars, resumes>>

\* Variant: the continuation is resumed whatever its state.
AlwaysActive(p) == TRUE

IsActive(p) == step[p] = "suspended"

\* The posted runnable: the WebView goes, and the coroutine goes on with an answer,
\* which it verifies, or without one, which is a result.
Answer(p) ==
    /\ posts[p] > 0
    /\ posts' = [posts EXCEPT ![p] = @ - 1]
    /\ overlay' = overlay \ {p}
    /\ IF IsActive(p)
       THEN /\ resumes' = [resumes EXCEPT ![p] = @ + 1]
            /\ \E next \in {"verify", "returned"} : step' = [step EXCEPT ![p] = next]
       ELSE UNCHANGED <<resumes, step>>
    /\ UNCHANGED <<toShow, started, toRemove, reported>>

Next ==
    \E p \in Presentations :
        \/ PresentChallenge(p) \/ Suspend(p) \/ Return(p) \/ CancelScope(p)
        \/ Show(p) \/ Remove(p) \/ PageCalls(p) \/ Answer(p)

\* Requests have timeouts (15 s each for connecting, reading and writing) and the UI
\* thread works its queue off; neither the user nor the page has to do anything.
Fairness ==
    \A p \in Presentations :
        /\ WF_vars(Suspend(p) \/ Return(p))
        /\ WF_vars(Show(p)) /\ WF_vars(Remove(p)) /\ WF_vars(Answer(p))

Spec == Init /\ [][Next]_vars /\ Fairness
-----------------------------------------------------------------------------
\* A continuation is resumed at most once, however often the page calls and whatever
\* was cancelled before: a second resume throws.
ResumedOnce == \A p \in Presentations : resumes[p] <= 1

\* A WebView does not stay over the activity when nobody waits for its answer any
\* more, even if it is shown only after the scope was cancelled.
OverlayGoes ==
    \A p \in Presentations : step[p] = "returned" ~> [](p \notin overlay)

\* A presentation comes as far as its page, and ends when the page has called.
Settles ==
    \A p \in Presentations :
        /\ step[p] = "fetch" ~> step[p] # "fetch"
        /\ posts[p] > 0 ~> step[p] = "returned"
=============================================================================
