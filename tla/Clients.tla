------------------------------ MODULE Clients -------------------------------
(* The three client SDKs, each explored while the others are as they       *)
(* start: they run on different devices and share no variable.             *)
EXTENDS Naturals

CONSTANTS
    Executions, Targets, MaxSubmits, MaxClicks, NoOne,   \* of the browser's
    Presentations, MaxPosts, MaxCalls                    \* of the apps'

\* A click challenge has some number of targets.
ASSUME TargetsAssumption == Targets \in Nat

VARIABLES
    bStep, promise, told, threw, kind, container, dragging, clicked, flying, submits, passed,
    aStep, toShow, overlay, started, toRemove, posts, reported, aResumes,
    iStep, sheet, swiped, calls, verifying, iResumes, crashed

browserVars == <<bStep, promise, told, threw, kind, container, dragging, clicked, flying, submits, passed>>
androidVars == <<aStep, toShow, overlay, started, toRemove, posts, reported, aResumes>>
iosVars     == <<iStep, sheet, swiped, calls, verifying, iResumes, crashed>>
clientVars  == <<browserVars, androidVars, iosVars>>

Browser == INSTANCE BrowserSDK WITH step <- bStep

Android == INSTANCE AndroidSDK WITH step <- aStep, resumes <- aResumes

IOS == INSTANCE IOSSDK WITH step <- iStep, resumes <- iResumes

BrowserIdle == Browser!Init
AndroidIdle == Android!Init
IOSIdle     == IOS!Init

ClientsInit == BrowserIdle /\ AndroidIdle /\ IOSIdle

ClientsNext ==
    \/ Browser!Next /\ AndroidIdle /\ IOSIdle /\ UNCHANGED <<androidVars, iosVars>>
    \/ Android!Next /\ BrowserIdle /\ IOSIdle /\ UNCHANGED <<browserVars, iosVars>>
    \/ IOS!Next /\ BrowserIdle /\ AndroidIdle /\ UNCHANGED <<browserVars, androidVars>>

ClientsSpec ==
    /\ ClientsInit /\ [][ClientsNext]_clientVars
    /\ Browser!Fairness /\ Android!Fairness /\ IOS!Fairness
-----------------------------------------------------------------------------
\* BrowserSDK: one success; with a rejection only if onSuccess threw, or of a slider
\* tried again.
OneOutcome == Browser!OneOutcome

\* AndroidSDK: at most one resume.  IOSSDK: one for each call of the completion.
ResumedOnce == Android!ResumedOnce /\ IOS!ResumedOncePerCall

\* AndroidSDK: the WebView goes when nobody waits for it any more.
OverlayGoes == Android!OverlayGoes

\* All three: whatever was answered, cancelled or refused ends the call.
Settles == Browser!Settles /\ Android!Settles /\ IOS!Settles
=============================================================================
