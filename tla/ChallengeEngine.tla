-------------------------- MODULE ChallengeEngine ---------------------------
(***************************************************************************)
(* internal/service/challenge/engine.go: the challenges a user can be      *)
(* asked to solve.  The engine keeps the expected answer of each challenge *)
(* and gives a signed token for a right one.  ValidateChallenge holds the  *)
(* lock only while it takes the record out of the map: the deadline is     *)
(* read, the answer judged and the token signed after the unlock, each     *)
(* with a clock reading of its own, while other callers run.               *)
(* GenerateChallenge is one step, at the moment an invisible challenge is  *)
(* signed, with a deadline computed from an earlier reading: until it      *)
(* returns nobody knows the id, so no caller can tell when exactly the     *)
(* record went into the map.                                               *)
(***************************************************************************)
EXTENDS Integers, Sequences, FiniteSets, Functions

CONSTANTS
    Ids,           \* challenge ids (uuids)
    Callers,       \* goroutines that call ValidateChallenge
    SliderTargets, \* the x positions generateSlider and generatePuzzle may draw
    PuzzleTargets,
    ClickIds,      \* ids of the pictures of a click challenge
    Answers,       \* what a client may submit (see AnswerShapes)
    Second,        \* clock ticks in a second
    AnswerTTL,     \* five minutes
    MaxClock       \* bound on the clock

\* 60 + rand.Intn(320-50-80), 50 + rand.Intn(220): both far from the left edge.
ASSUME TargetAssumption == SliderTargets \subseteq 60..249 /\ PuzzleTargets \subseteq 50..269
ASSUME TimeAssumption == Second \in Nat \ {0} /\ AnswerTTL \in Nat /\ MaxClock \in Nat

\* The JSON shapes ValidateChallenge tells apart: a number, an object with a
\* numeric x, an object without one, a list (the strings in it), anything else.
AnswerShapes == [shape : {"number", "object"}, x : Int] \cup [shape : {"list"}, ids : Seq(ClickIds)]
                  \cup [shape : {"bare object", "other"}]
ASSUME AnswersAssumption == Answers \subseteq AnswerShapes

VARIABLES
    clock,      \* time.Now()
    answers,    \* id |-> answerRecord, the Engine's map (a partial function)
    signed,     \* the tokens signed so far
    configs,    \* id |-> what GenerateChallenge returned, and whether a restart lost it (history)
    calls       \* where each call of ValidateChallenge is

vars == <<clock, answers, signed, configs, calls>>

Times  == 0..MaxClock
Visual == {"slider", "click", "puzzle"}
Types  == Visual \cup {"invisible"}
Tokens == [id : Ids, ts : Times]

Records == [type : {"slider"}, target : SliderTargets, expiresAt : Nat]
      \cup [type : {"puzzle"}, target : PuzzleTargets, expiresAt : Nat]
      \cup [type : {"click"}, target : ClickIds, expiresAt : Nat]
      \cup [type : {"invisible"}, expiresAt : Nat]

Configs == [type : Types, expiresAt : Nat, lost : BOOLEAN]

Idle == [pc |-> "idle"]
Held == [pc : {"taken", "approved"}, id : Ids, rec : Records, answer : Answers]
Done == [pc : {"done"}, valid : BOOLEAN]
CallStates == {Idle} \cup Held \cup Done

\* Every stored challenge has an answer its generator can draw, far enough from
\* the edges, and a call holds the record it took until it has judged it.
TypeOK ==
    /\ clock \in Times
    /\ DOMAIN answers \subseteq Ids
    /\ \A id \in DOMAIN answers : answers[id] \in Records
    /\ signed \subseteq Tokens
    /\ DOMAIN configs \subseteq Ids
    /\ \A id \in DOMAIN configs : configs[id] \in Configs
    /\ calls \in [Callers -> CallStates]

Init ==
    /\ clock = 0
    /\ answers = [id \in {} |-> 0]
    /\ signed = {}
    /\ configs = [id \in {} |-> 0]
    /\ calls = [c \in Callers |-> Idle]

Put(f, x, v) == [y \in DOMAIN f \cup {x} |-> IF y = x THEN v ELSE f[y]]
-----------------------------------------------------------------------------
Tick ==
    /\ clock < MaxClock
    /\ clock' = clock + 1
    /\ UNCHANGED <<answers, signed, configs, calls>>

\* RFC3339 keeps whole seconds.
Stamp == clock - (clock % Second)

\* signToken: the same id signed twice in one second gives the same token.
Sign(id) == signed' = signed \cup {[id |-> id, ts |-> Stamp]}

\* The deadline counts from a reading made when GenerateChallenge was entered.
Deadlines == {entered + AnswerTTL : entered \in 0..clock}

\* Variant: the slider's target may be anywhere on the background.
RecordsFromEdge(type) ==
    [type : {type}, target : CASE type = "slider" -> SliderTargets \cup {0}
                               [] type = "puzzle" -> PuzzleTargets
                               [] type = "click"  -> ClickIds,
     expiresAt : Deadlines]

\* What generateSlider, generatePuzzle and generateClick may store.  The labels
\* of a click challenge all differ, so exactly one picture is the right one.
RecordsFor(type) ==
    [type : {type}, target : CASE type = "slider" -> SliderTargets
                               [] type = "puzzle" -> PuzzleTargets
                               [] type = "click"  -> ClickIds,
     expiresAt : Deadlines]

Returned(rec) == [type |-> rec.type, expiresAt |-> rec.expiresAt, lost |-> FALSE]

GenerateVisual(id, type) ==
    /\ \E rec \in RecordsFor(type) :
          /\ answers' = Put(answers, id, rec)
          /\ configs' = Put(configs, id, Returned(rec))
    /\ UNCHANGED signed

\* An invisible challenge comes with its token, and leaves a record too.
GenerateInvisible(id) ==
    /\ \E rec \in [type : {"invisible"}, expiresAt : Deadlines] :
          /\ answers' = Put(answers, id, rec)
          /\ configs' = Put(configs, id, Returned(rec))
    /\ Sign(id)

\* Under a fresh uuid, which nobody knows before the config is returned.
GenerateChallenge(id, type) ==
    /\ id \notin DOMAIN configs
    /\ \/ type = "invisible" /\ GenerateInvisible(id)
       \/ type \in Visual /\ GenerateVisual(id, type)
       \/ type \notin Types /\ GenerateVisual(id, "slider")
    /\ UNCHANGED <<clock, calls>>
-----------------------------------------------------------------------------
\* Variant: a puzzle is judged as generously as a slider.
ToleranceEqual(rec) == 5

Tolerance(rec) == IF rec.type = "slider" THEN 5 ELSE 4

\* The position validateSliderAnswer reads: an object without x counts as 0.
SubmittedX(answer) == IF answer.shape = "bare object" THEN 0 ELSE answer.x

SliderAccepts(rec, answer) ==
    /\ answer.shape \in {"number", "object", "bare object"}
    /\ SubmittedX(answer) - rec.target \in -Tolerance(rec)..Tolerance(rec)

\* As many ids as expected, each of them an expected one.
ClickAccepts(rec, answer) ==
    /\ answer.shape = "list"
    /\ Len(answer.ids) = 1
    /\ Range(answer.ids) \subseteq {rec.target}

Accepts(rec, answer) ==
    \/ rec.type \in {"slider", "puzzle"} /\ SliderAccepts(rec, answer)
    \/ rec.type = "click" /\ ClickAccepts(rec, answer)
    \/ rec.type = "invisible"

\* Variant: the record stays in the map while it is judged.
TakeCopy(c, id, answer) ==
    /\ calls[c] = Idle
    /\ id \in DOMAIN answers
    /\ calls' = [calls EXCEPT ![c] =
                   [pc |-> "taken", id |-> id, rec |-> answers[id], answer |-> answer]]
    /\ UNCHANGED <<clock, answers, signed, configs>>

\* Under the lock: an unknown id is refused, a known one is taken out of the map.
Take(c, id, answer) ==
    /\ calls[c] = Idle
    /\ \/ /\ id \notin DOMAIN answers
          /\ calls' = [calls EXCEPT ![c] = [pc |-> "done", valid |-> FALSE]]
          /\ UNCHANGED answers
       \/ /\ id \in DOMAIN answers
          /\ calls' = [calls EXCEPT ![c] =
                         [pc |-> "taken", id |-> id, rec |-> answers[id], answer |-> answer]]
          /\ answers' = Restrict(answers, DOMAIN answers \ {id})
    /\ UNCHANGED <<clock, signed, configs>>

\* Variant: a wrong answer gives the user another try.
JudgeWithRetry(c) ==
    /\ calls[c].pc = "taken"
    /\ LET right == clock <= calls[c].rec.expiresAt /\ Accepts(calls[c].rec, calls[c].answer) IN
         \/ /\ right
            /\ calls' = [calls EXCEPT ![c].pc = "approved"]
            /\ UNCHANGED answers
         \/ /\ ~right
            /\ calls' = [calls EXCEPT ![c] = [pc |-> "done", valid |-> FALSE]]
            /\ answers' = Put(answers, calls[c].id, calls[c].rec)
    /\ UNCHANGED <<clock, signed, configs>>

\* After the unlock: too late or wrong is refused, and the record is gone.
Judge(c) ==
    /\ calls[c].pc = "taken"
    /\ LET right == clock <= calls[c].rec.expiresAt /\ Accepts(calls[c].rec, calls[c].answer) IN
         \/ right /\ calls' = [calls EXCEPT ![c].pc = "approved"]
         \/ ~right /\ calls' = [calls EXCEPT ![c] = [pc |-> "done", valid |-> FALSE]]
    /\ UNCHANGED <<clock, answers, signed, configs>>

SignApproved(c) ==
    /\ calls[c].pc = "approved"
    /\ Sign(calls[c].id)
    /\ calls' = [calls EXCEPT ![c] = [pc |-> "done", valid |-> TRUE]]
    /\ UNCHANGED <<clock, answers, configs>>

Return(c) ==
    /\ calls[c].pc = "done"
    /\ calls' = [calls EXCEPT ![c] = Idle]
    /\ UNCHANGED <<clock, answers, signed, configs>>

\* Variant: a record is removed at its deadline, when it may still be answered.
CleanAtDeadline ==
    /\ answers' = Restrict(answers, {id \in DOMAIN answers : answers[id].expiresAt > clock})
    /\ UNCHANGED <<clock, signed, configs, calls>>

CleanExpired ==
    /\ answers' = Restrict(answers, {id \in DOMAIN answers : answers[id].expiresAt >= clock})
    /\ UNCHANGED <<clock, signed, configs, calls>>

\* The process dies: records and calls are lost, signed tokens stay valid.
Restart ==
    /\ answers' = [id \in {} |-> 0]
    /\ calls' = [c \in Callers |-> Idle]
    /\ configs' = [id \in DOMAIN configs |-> [configs[id] EXCEPT !.lost = TRUE]]
    /\ UNCHANGED <<clock, signed>>

Next ==
    \/ Tick
    \/ CleanExpired
    \/ Restart
    \/ \E id \in Ids, t \in Types \cup {"unknown"} : GenerateChallenge(id, t)
    \/ \E c \in Callers :
          \/ Judge(c) \/ SignApproved(c) \/ Return(c)
          \/ \E id \in Ids, a \in Answers : Take(c, id, a)

Spec == Init /\ [][Next]_vars
-----------------------------------------------------------------------------
Has(c, id) == calls[c].pc \in {"taken", "approved"} /\ calls[c].id = id

\* A visual challenge is a resource used up once (ValidateChallenge's "prevent
\* replay"): its record is in the map, or one call has it, or one token came of
\* it, and never two of these, however calls, cleanup and restarts interleave.
OneUse ==
    \A id \in DOMAIN configs : configs[id].type \in Visual =>
        /\ id \in DOMAIN answers => \A c \in Callers : ~Has(c, id)
        /\ id \in DOMAIN answers => \A t \in signed : t.id # id
        /\ \A c, d \in Callers : Has(c, id) /\ Has(d, id) => c = d
        /\ \A c \in Callers : Has(c, id) => \A t \in signed : t.id # id
        /\ \A t, u \in signed : t.id = id /\ u.id = id => t = u

\* What solves a challenge: for a slider a position that was sent and is at most
\* five pixels from the target drawn, for a puzzle at most four, for a click
\* challenge the right picture and nothing else.
Solved(rec, answer) ==
    \/ rec.type = "invisible"
    \/ /\ rec.type \in {"slider", "puzzle"}
       /\ answer.shape \in {"number", "object"}
       /\ \/ answer.x \in rec.target - 4..rec.target + 4
          \/ rec.type = "slider" /\ answer.x \in {rec.target - 5, rec.target + 5}
    \/ rec.type = "click" /\ answer = [shape |-> "list", ids |-> <<rec.target>>]

\* ValidateChallenge decides every call it does not lose in a restart: it approves
\* the answers that are in time, the deadline included, and solve the challenge,
\* and it refuses all others.  (A missing x is read as 0, and any list of the
\* right length whose ids are expected is taken: neither lets a wrong answer in.)
ApprovedIffSolved ==
    [][\A c \in Callers : calls[c].pc = "taken" /\ calls'[c] \notin {calls[c], Idle} =>
          LET solved == clock <= calls[c].rec.expiresAt /\ Solved(calls[c].rec, calls[c].answer) IN
            /\ calls'[c].pc = "approved" <=> solved
            /\ calls'[c] = [pc |-> "done", valid |-> FALSE] <=> ~solved]_vars

\* A challenge that was answered, cleaned or lost can never be answered again,
\* so a wrong answer or a late one costs the user the challenge.
BurntStaysBurnt ==
    [][\A id \in DOMAIN configs : id \notin DOMAIN answers => id \notin DOMAIN answers']_vars

\* Only an answer or a restart takes a live challenge away: CleanExpired removes
\* none that ValidateChallenge would still accept, however few it leaves.
LiveChallengeStays ==
    [][\A id \in DOMAIN answers \ DOMAIN answers' :
          \/ clock > answers[id].expiresAt
          \/ \E c \in Callers : calls[c] = Idle /\ calls'[c] # Idle /\ calls'[c].id = id
          \/ ~configs[id].lost /\ configs'[id].lost]_vars
=============================================================================
